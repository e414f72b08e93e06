------------------------------ MODULE Overrelax ------------------------------
(***************************************************************************)
(* Landau_or_Coulomb_gauge_fixing_overrelax: all sites of a parity are      *)
(* transformed, each of them with the links that start from it and those    *)
(* that end in it, then those of the other parity.                          *)
(*                                                                         *)
(* A link that crosses a border is kept by both ranks, and changed by       *)
(* either: by the one where it starts and by the one where it ends.  After  *)
(* each parity the changed copies are sent through the buffers of the       *)
(* borders.  A link is modelled by the numbers of transformations of its    *)
(* two ends that it contains; fixer counts those that the site has had.     *)
(***************************************************************************)
EXTENDS Tables

CONSTANTS gauge,      \* the first direction of the functional: 0 Landau, 1 Coulomb
          NThreads,
          NSweeps     \* bound: sweeps between the checks of the quality

OverrelaxAssumption ==
  gauge \in {0, 1} /\ NThreads \in Nat \ {0} /\ NSweeps \in Nat

VARIABLES sweep,      \* sweeps done, the same on all ranks after each check
          pc,         \* per rank: "sweep", "wait", "swept"
          eo,         \* per rank: the parity
          ieo,        \* per rank and thread: the site of its share of the parity
          der,        \* per rank and thread: links read and not yet used
          fixer, fixed_conf,
          send_buf, recv_buf,
          inbox       \* per rank and sender: the blocks on their way

vars == <<sweep, pc, eo, ieo, der, fixer, fixed_conf, send_buf, recv_buf, inbox>>

Threads == 0 .. NThreads - 1
Kept == 0 .. loc_vol + bord_vol - 1
Cells == 0 .. bord_volh - 1

Up(r, i, mu) == loclx_neigh[r][1][i][mu]
Down(r, i, mu) == loclx_neigh[r][0][i][mu]

\* NISSA_CHUNK_LOOP: the sites of a parity that a thread goes through.
Lower(m, n) == IF m < n THEN m ELSE n
Begin(t) == LET chunk == (loc_volh + NThreads - 1) \div NThreads IN Lower(chunk * t, loc_volh)
Finished(r) == \A t \in Threads : ieo[r][t] = Begin(t + 1)
Site(r, t) == loclx_of_loceo[r][eo[r]][ieo[r][t]]
Busy(r, t) == der[r][t] # <<>>

-----------------------------------------------------------------------------
Init ==
  /\ sweep = 0
  /\ pc = [r \in Ranks |-> "sweep"]
  /\ eo = [r \in Ranks |-> 0]
  /\ ieo = [r \in Ranks |-> [t \in Threads |-> Begin(t)]]
  /\ der = [r \in Ranks |-> [t \in Threads |-> <<>>]]
  /\ fixer = [r \in Ranks |-> [i \in Local |-> 0]]
  /\ fixed_conf = [r \in Ranks |-> [i \in Kept |-> [mu \in Dirs |-> <<0, 0>>]]]
  /\ send_buf = [r \in Ranks |-> [c \in Cells |-> <<0, 0>>]]
  /\ recv_buf = [r \in Ranks |-> [c \in Cells |-> <<0, 0>>]]
  /\ inbox = [r \in Ranks |-> [s \in Ranks |-> <<>>]]

\* compute_Landau_or_Coulomb_functional_der: a thread reads the links around
\* its next site, those that start from it and those that end in it.
LinksAround(r, i) ==
  [mu \in gauge .. NDIM - 1 |-> <<fixed_conf[r][i][mu], fixed_conf[r][Down(r, i, mu)][mu]>>]
Derivative(r, t) ==
  /\ pc[r] = "sweep" /\ ~Busy(r, t) /\ ieo[r][t] < Begin(t + 1)
  /\ der' = [der EXCEPT ![r][t] = LinksAround(r, Site(r, t))]
  /\ UNCHANGED <<sweep, pc, eo, ieo, fixer, fixed_conf, send_buf, recv_buf, inbox>>

\* local_gauge_transform: of the links that start from the site the first end,
\* of those that end in it the second.
local_gauge_transform(r, i) ==
  [j \in Kept |-> [mu \in Dirs |->
     LET U == fixed_conf[r][j][mu]
     IN  <<IF j = i THEN U[1] + 1 ELSE U[1], IF j = Down(r, i, mu) THEN U[2] + 1 ELSE U[2]>>]]

\* The cell of the buffers of a site of the border.
Cell(r, i) == loceo_of_loclx[r][i] - loc_volh

\* The thread transforms the site and puts the links that cross a border into
\* the cells of the sites at their other end.
Transform(r, t) ==
  /\ Busy(r, t)
  /\ LET i == Site(r, t)
         conf == local_gauge_transform(r, i)
     IN  /\ fixed_conf' = [fixed_conf EXCEPT ![r] = conf]
         /\ fixer' = [fixer EXCEPT ![r][i] = @ + 1]
         /\ send_buf' = [send_buf EXCEPT ![r] = [c \in Cells |->
              IF \E mu \in Dirs : Up(r, i, mu) >= loc_vol /\ c = Cell(r, Up(r, i, mu))
              THEN conf[i][CHOOSE mu \in Dirs : Up(r, i, mu) >= loc_vol /\ c = Cell(r, Up(r, i, mu))]
              ELSE IF \E mu \in Dirs : Down(r, i, mu) >= loc_vol /\ c = Cell(r, Down(r, i, mu))
              THEN LET mu == CHOOSE d \in Dirs : Down(r, i, d) >= loc_vol /\ c = Cell(r, Down(r, i, d))
                   IN  conf[Down(r, i, mu)][mu]
              ELSE @[c]]]
  /\ der' = [der EXCEPT ![r][t] = <<>>]
  /\ ieo' = [ieo EXCEPT ![r][t] = @ + 1]
  /\ UNCHANGED <<sweep, pc, eo, recv_buf, inbox>>

-----------------------------------------------------------------------------
(***************************************************************************)
(* eo_su3_comm.  The block of a border of one parity goes to the neighbour  *)
(* on that side, for its border on the opposite one.  All have one tag: two *)
(* ranks that are neighbours on both sides tell their blocks apart by the   *)
(* order they are sent and received in.                                    *)
(***************************************************************************)
BlockStart(v, mu) == (v * bord_volh + bord_offset[mu]) \div 2
BlockOf(v, mu) == BlockStart(v, mu) .. BlockStart(v, mu) + bord_dir_vol[mu] \div 2 - 1

\* The borders that are received, and from whom; with each goes a block to the
\* other side.
idirs == SelectSeq([k \in 1 .. 2 * NDIM |-> <<(k - 1) \div NDIM, (k - 1) % NDIM>>],
                   LAMBDA d : paral_dir[d[2]])
recv_rank(r, d) == rank_neigh[r][d[1]][d[2]]
send_rank(r, d) == rank_neigh[r][1 - d[1]][d[2]]
\* Mutant: the backward border first on one side of the exchange, last on the other.
RecvFromReversed(r, s) == SelectSeq(Reverse(idirs), LAMBDA d : recv_rank(r, d) = s)
RecvFrom(r, s) == SelectSeq(idirs, LAMBDA d : recv_rank(r, d) = s)
SendTo(r, s) == SelectSeq(idirs, LAMBDA d : send_rank(r, d) = s)
Sent(r, s) ==
  LET Block(d) == [c \in BlockOf(1 - d[1], d[2]) |-> send_buf[r][c]]
  IN  [k \in 1 .. Len(SendTo(r, s)) |-> Block(SendTo(r, s)[k])]

\* Through the barrier after the loop, then the master starts.
comm_start(r) ==
  /\ pc[r] = "sweep" /\ Finished(r)
  /\ inbox' = [s \in Ranks |-> [inbox[s] EXCEPT ![r] = @ \o Sent(r, s)]]
  /\ pc' = [pc EXCEPT ![r] = "wait"]
  /\ UNCHANGED <<sweep, eo, ieo, der, fixer, fixed_conf, send_buf, recv_buf>>

\* A block ends up at the place of the border it is received for.
Arrived(r) ==
  [c \in Cells |->
     LET d == CHOOSE x \in Range(idirs) : c \in BlockOf(x[1], x[2])
         s == recv_rank(r, d)
         block == inbox[r][s][CHOOSE k \in DOMAIN RecvFrom(r, s) : RecvFrom(r, s)[k] = d]
         first == CHOOSE x \in DOMAIN block : \A y \in DOMAIN block : x <= y
     IN  block[first + c - BlockStart(d[1], d[2])]]

\* Mutant: read out by the sites that have just been transformed.
ReadOutSame(r, buf) ==
  [j \in Kept |-> [mu \in Dirs |->
     IF j < loc_vol /\ Up(r, j, mu) >= loc_vol /\ loclx_parity[r][j] = eo[r]
     THEN buf[Cell(r, Up(r, j, mu))]
     ELSE IF j >= loc_vol /\ \E i \in Local : loclx_parity[r][i] = eo[r] /\ Down(r, i, mu) = j
     THEN buf[Cell(r, j)]
     ELSE fixed_conf[r][j][mu]]]
\* The sites of the other parity take the links that cross a border.
ReadOut(r, buf) ==
  [j \in Kept |-> [mu \in Dirs |->
     IF j < loc_vol /\ Up(r, j, mu) >= loc_vol /\ loclx_parity[r][j] # eo[r]
     THEN buf[Cell(r, Up(r, j, mu))]
     ELSE IF j >= loc_vol /\ \E i \in Local : loclx_parity[r][i] # eo[r] /\ Down(r, i, mu) = j
     THEN buf[Cell(r, j)]
     ELSE fixed_conf[r][j][mu]]]

Taken(r) == [s \in Ranks |-> SubSeq(inbox[r][s], Len(RecvFrom(r, s)) + 1, Len(inbox[r][s]))]

comm_wait(r) ==
  /\ pc[r] = "wait"
  /\ \A s \in Ranks : Len(inbox[r][s]) >= Len(RecvFrom(r, s))
  /\ recv_buf' = [recv_buf EXCEPT ![r] = Arrived(r)]
  /\ fixed_conf' = [fixed_conf EXCEPT ![r] = ReadOut(r, Arrived(r))]
  /\ inbox' = [inbox EXCEPT ![r] = Taken(r)]
  /\ IF eo[r] = 0
     THEN /\ pc' = [pc EXCEPT ![r] = "sweep"] /\ eo' = [eo EXCEPT ![r] = 1]
          /\ ieo' = [ieo EXCEPT ![r] = [t \in Threads |-> Begin(t)]]
     ELSE pc' = [pc EXCEPT ![r] = "swept"] /\ UNCHANGED <<eo, ieo>>
  /\ UNCHANGED <<sweep, der, fixer, send_buf>>

\* compute_Landau_or_Coulomb_gauge_fixing_quality: the borders are invalid, so
\* all of them are communicated, and no rank has the sum before all have swept.
Quality ==
  /\ sweep < NSweeps
  /\ \A r \in Ranks : pc[r] = "swept"
  /\ fixed_conf' = [r \in Ranks |-> [j \in Kept |->
       IF j < loc_vol THEN fixed_conf[r][j]
       ELSE LET g == glb_coord_of_loclx[r][j] IN fixed_conf[RankHosting(g)][LocHosting(g)]]]
  /\ sweep' = sweep + 1
  /\ IF sweep + 1 < NSweeps
     THEN /\ pc' = [r \in Ranks |-> "sweep"] /\ eo' = [r \in Ranks |-> 0]
          /\ ieo' = [r \in Ranks |-> [t \in Threads |-> Begin(t)]]
     ELSE UNCHANGED <<pc, eo, ieo>>
  /\ UNCHANGED <<der, fixer, send_buf, recv_buf, inbox>>

End == sweep = NSweeps /\ UNCHANGED vars

Next ==
  \/ \E r \in Ranks : \/ \E t \in Threads : Derivative(r, t) \/ Transform(r, t)
                      \/ comm_start(r) \/ comm_wait(r)
  \/ Quality
  \/ End

Spec == Init /\ [][Next]_vars

-----------------------------------------------------------------------------
(***************************************************************************)
(* Properties.                                                             *)
(***************************************************************************)

TypeOK ==
  /\ sweep \in 0 .. NSweeps
  /\ pc \in [Ranks -> {"sweep", "wait", "swept"}]
  /\ eo \in [Ranks -> Parities]
  /\ \A r \in Ranks, t \in Threads : /\ ieo[r][t] \in Begin(t) .. Begin(t + 1)
                                     /\ Busy(r, t) => ieo[r][t] < Begin(t + 1)
  /\ fixer \in [Ranks -> [Local -> 0 .. NSweeps]]
  /\ \A r \in Ranks, s \in Ranks : Len(inbox[r][s]) <= 2 * Len(RecvFrom(r, s))

\* How often the two ends of the link from site j of rank r have been transformed.
TransformsOf(g) == fixer[RankHosting(g)][LocHosting(g)]
Truth(r, j, mu) ==
  LET g == glb_coord_of_loclx[r][j]
  IN  <<TransformsOf(g), TransformsOf([g EXCEPT ![mu] = (@ + 1) % glb_size[mu]])>>

\* From before a thread reads the links around its site until it transforms it,
\* the copies it reads contain all transformations of both ends, those made by
\* other threads and by the rank on the other side included: no one else
\* touches them meanwhile.
DerivativeRight ==
  \A r \in Ranks, t \in Threads :
    pc[r] = "sweep" /\ ieo[r][t] < Begin(t + 1) =>
      LET i == Site(r, t)
          right == [mu \in gauge .. NDIM - 1 |-> <<Truth(r, i, mu), Truth(r, Down(r, i, mu), mu)>>]
      IN  /\ LinksAround(r, i) = right
          /\ Busy(r, t) => der[r][t] = right

\* At the end of a sweep the links of the rank, and the copies in the borders
\* of those that end in it, are the transforms of the original ones by fixer.
CopiesAgree ==
  \A r \in Ranks :
    pc[r] = "swept" =>
      \A i \in Local, mu \in Dirs :
        /\ fixed_conf[r][i][mu] = Truth(r, i, mu)
        /\ fixed_conf[r][Down(r, i, mu)][mu] = Truth(r, Down(r, i, mu), mu)
=============================================================================
