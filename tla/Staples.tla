------------------------------ MODULE Staples -------------------------------
(***************************************************************************)
(* compute_squared_staples_lx_conf and compute_rectangular_staples_lx_conf,  *)
(* one after the other as in Symanzik_force_lx_conf.                        *)
(*                                                                         *)
(* A staple of a link is a path around it through a square, or one of three  *)
(* through a rectangle, on the forward or the backward side of one of the    *)
(* other directions.  No rank has all the links of the staples of its        *)
(* links, and edges are not used: what is missing on the forward side is      *)
(* received, the backward staples of the sites beyond the forward surface    *)
(* are computed for the neighbours and sent to them, each behind a loop over *)
(* the rest of the sites.  The two exchanges and the two computations share  *)
(* the buffers of the borders and one communicator.                         *)
(*                                                                         *)
(* A sum of matrices is the set of its terms.                              *)
(***************************************************************************)
EXTENDS Tables, Links

CONSTANT NThreads
StaplesAssumption == NThreads \in Nat \ {0} /\ NDIM > 1

VARIABLES ip,         \* per rank and thread: the stage
          conf,       \* per rank: the links, of its sites and of the border
          sq, rect,   \* per rank: the staples, at its sites and at the border
          send_buf, recv_buf,
          inbox       \* per rank and sender: blocks on their way

vars == <<ip, conf, sq, rect, send_buf, recv_buf, inbox>>

Threads == 0 .. NThreads - 1
Kept == 0 .. loc_vol + bord_vol - 1
Terms == 0 .. 2 * (NDIM - 1) - 1
Up(r, i, mu) == loclx_neigh[r][1][i][mu]

\* The other directions are numbered; a backward staple has the number of its
\* direction, a forward one comes after all of them.
Number(mu, nu) == IF nu < mu THEN nu ELSE nu - 1
Bw(mu, nu) == Number(mu, nu)
Fw(mu, nu) == NDIM - 1 + Number(mu, nu)
Planes == {p \in Dirs \X Dirs : p[1] # p[2]}

Junk == {<<[from |-> -1, dir |-> 0, dag |-> FALSE]>>}
Prod(A, B) == {su3_prod(a, b) : a \in A, b \in B}
Dag(A) == {su3_dag(a) : a \in A}
Prod3(A, B, C) == Prod(Prod(A, B), C)

fw_surf == {i \in Local : OnSurf(i, 1)}
non_fw_surf == loclx_of_non_fw_surflx
\* NISSA_PARALLEL_LOOP over a list of sites or cells: those thread t handles.
Chunk(t, S) ==
  LET n == Cardinality(S)
      load == (n + NThreads - 1) \div NThreads
      Place(i) == Cardinality({j \in S : j < i})
  IN  {i \in S : load * t <= Place(i) /\ Place(i) < load * (t + 1)}
\* The cells of the border on side v in direction nu.
Cells(v, nu) ==
  LET start == v * bord_volh + bord_offset[nu] IN start .. start + bord_dir_vol[nu] - 1
AllCells(v) == UNION {Cells(v, nu) : nu \in Dirs}
DirOf(b) == CHOOSE nu \in Dirs : b \in Cells(0, nu) \cup Cells(1, nu)

\* Mutant: nobody waits for the links of the lower surface.
PhaseNoWait(what) ==
  <<what \o "_lower", "post_bw", what \o "_local_fw", what \o "_bord",
    "barrier", what \o "_surf_bw", "barrier", what \o "_upper", "post_fw",
    what \o "_rest", "wait_fw", what \o "_back", "barrier">>
\* The stages of a computation.  At post, wait and barrier all threads meet.
Phase(what) ==
  <<what \o "_lower", "post_bw", what \o "_local_fw", "wait_bw", what \o "_bord",
    "barrier", what \o "_surf_bw", "barrier", what \o "_upper", "post_fw",
    what \o "_rest", "wait_fw", what \o "_back", "barrier">>
Stages == Phase("sq") \o Phase("rect")
Stage(r, t) == IF ip[r][t] > Len(Stages) THEN "end" ELSE Stages[ip[r][t]]
Left(r, T) == ip' = [ip EXCEPT ![r] = [t \in Threads |-> IF t \in T THEN @[t] + 1 ELSE @[t]]]

Init ==
  /\ ip = [r \in Ranks |-> [t \in Threads |-> 1]]
  /\ conf = [r \in Ranks |-> [i \in Kept |-> [mu \in Dirs |->
               IF i < loc_vol THEN {link(glblx_of_loclx[r][i], mu)} ELSE Junk]]]
  /\ sq = [r \in Ranks |-> [i \in Kept |-> [mu \in Dirs |-> [k \in Terms |-> Junk]]]]
  /\ rect = sq
  /\ send_buf = [r \in Ranks |-> [b \in Bords |-> [mu \in Dirs |-> Junk]]]
  /\ recv_buf = send_buf
  /\ inbox = [r \in Ranks |-> [s \in Ranks |-> <<>>]]

-----------------------------------------------------------------------------
(***************************************************************************)
(* The staples, as they are computed at a site: forward ones of A, and       *)
(* backward ones of the site after D.                                       *)
(***************************************************************************)
SquaredFw(r, A, mu, nu) ==
  Prod3(conf[r][A][nu], conf[r][Up(r, A, nu)][mu], Dag(conf[r][Up(r, A, mu)][nu]))
SquaredBw(r, D, mu, nu) ==
  Prod3(Dag(conf[r][D][nu]), conf[r][D][mu], conf[r][Up(r, D, mu)][nu])

\* Three rectangles: each of the links of a squared staple replaced by the
\* staple of its own that makes it a rectangle.
RectangularFw(r, A, mu, nu) ==
  LET B == Up(r, A, nu)
      F == Up(r, A, mu)
  IN  Prod3(sq[r][A][nu][Bw(nu, mu)], conf[r][B][mu], Dag(conf[r][F][nu]))
      \cup Prod3(conf[r][A][nu], sq[r][B][mu][Fw(mu, nu)], Dag(conf[r][F][nu]))
      \cup Prod3(conf[r][A][nu], conf[r][B][mu], Dag(sq[r][F][nu][Fw(nu, mu)]))
\* Mutant: backward and forward staples exchanged.
RectangularBwMixed(r, D, mu, nu) ==
  LET E == Up(r, D, mu)
  IN  Prod3(Dag(sq[r][D][nu][Fw(nu, mu)]), conf[r][D][mu], conf[r][E][nu])
      \cup Prod3(Dag(conf[r][D][nu]), sq[r][D][mu][Bw(mu, nu)], conf[r][E][nu])
      \cup Prod3(Dag(conf[r][D][nu]), conf[r][D][mu], sq[r][E][nu][Fw(nu, mu)])
RectangularBw(r, D, mu, nu) ==
  LET E == Up(r, D, mu)
  IN  Prod3(Dag(sq[r][D][nu][Bw(nu, mu)]), conf[r][D][mu], conf[r][E][nu])
      \cup Prod3(Dag(conf[r][D][nu]), sq[r][D][mu][Bw(mu, nu)], conf[r][E][nu])
      \cup Prod3(Dag(conf[r][D][nu]), conf[r][D][mu], sq[r][E][nu][Fw(nu, mu)])

\* u with the staples of the sites in S: forward those of the sites themselves,
\* backward those of the sites after them.
WithFw(u, r, S, F(_, _, _, _)) ==
  [i \in Kept |-> IF i \notin S THEN u[i]
     ELSE [mu \in Dirs |-> [k \in Terms |->
            IF \E nu \in Dirs \ {mu} : k = Fw(mu, nu)
            THEN F(r, i, mu, CHOOSE nu \in Dirs \ {mu} : k = Fw(mu, nu)) ELSE u[i][mu][k]]]]
WithBw(u, r, S, F(_, _, _, _)) ==
  LET Behind(i, nu) == {D \in S : Up(r, D, nu) = i}
  IN  [i \in Kept |-> [mu \in Dirs |-> [k \in Terms |->
         IF \E nu \in Dirs \ {mu} : k = Bw(mu, nu) /\ Behind(i, nu) # {}
         THEN LET nu == CHOOSE n \in Dirs \ {mu} : k = Bw(mu, n)
              IN  F(r, CHOOSE D \in Behind(i, nu) : TRUE, mu, nu)
         ELSE u[i][mu][k]]]]

-----------------------------------------------------------------------------
(***************************************************************************)
(* The exchanges: comm_start with a selection of directions, comm_wait.      *)
(***************************************************************************)
\* The blocks of side v of the buffer go to that side, and arrive on the other.
\* Two ranks are neighbours in one direction only.
ToSide(r, v, s) == {nu \in Dirs : paral_dir[nu] /\ rank_neigh[r][v][nu] = s}
Post(r, v) ==
  /\ \A t \in Threads : Stage(r, t) = (IF v = 0 THEN "post_bw" ELSE "post_fw")
  /\ inbox' = [s \in Ranks |-> [inbox[s] EXCEPT ![r] =
       IF ToSide(r, v, s) = {} THEN @
       ELSE LET nu == CHOOSE n \in ToSide(r, v, s) : TRUE
            IN  Append(@, [b \in Cells(v, nu) |-> send_buf[r][b]])]]
  /\ Left(r, Threads)
  /\ UNCHANGED <<conf, sq, rect, send_buf, recv_buf>>

\* The cell of the sender that fills cell b of the receiver.
SentFrom(b) == (b + bord_volh) % bord_vol
Wait(r, v) ==
  /\ \A t \in Threads : Stage(r, t) = (IF v = 0 THEN "wait_bw" ELSE "wait_fw")
  /\ LET Sender(nu) == rank_neigh[r][1 - v][nu]
         senders == {Sender(nu) : nu \in {n \in Dirs : paral_dir[n]}}
     IN  /\ \A s \in senders : inbox[r][s] # <<>>
         /\ recv_buf' = [recv_buf EXCEPT ![r] = [b \in Bords |->
              LET block == Head(inbox[r][Sender(DirOf(b))])
              IN  IF SentFrom(b) \in DOMAIN block THEN block[SentFrom(b)] ELSE @[b]]]
         /\ inbox' = [inbox EXCEPT ![r] = [s \in Ranks |->
              IF s \in senders THEN Tail(@[s]) ELSE @[s]]]
  /\ Left(r, Threads)
  /\ UNCHANGED <<conf, sq, rect, send_buf>>

Meet(r) ==
  /\ \A t \in Threads : Stage(r, t) = "barrier"
  /\ Left(r, Threads)
  /\ UNCHANGED <<conf, sq, rect, send_buf, recv_buf, inbox>>

\* send_buf with the cells in S filled, in the directions other than that of the
\* border if only those travel.
Filled(r, S, Data(_, _), perp) ==
  [send_buf EXCEPT ![r] = [b \in Bords |->
     IF b \notin S THEN @[b]
     ELSE [mu \in Dirs |-> IF perp /\ mu = DirOf(b) THEN @[b][mu] ELSE Data(b, mu)]]]

-----------------------------------------------------------------------------
(***************************************************************************)
(* Squared staples.                                                        *)
(***************************************************************************)
\* 1) the links of the lower surface
SqLower(r, t) ==
  /\ Stage(r, t) = "sq_lower"
  /\ LET Data(b, mu) == conf[r][surflx_of_bordlx[r][b]][mu]
     IN  send_buf' = Filled(r, Chunk(t, AllCells(0)), Data, FALSE)
  /\ Left(r, {t})
  /\ UNCHANGED <<conf, sq, rect, recv_buf, inbox>>

\* 2) forward staples that are local
SqLocalFw(r, t) ==
  /\ Stage(r, t) = "sq_local_fw"
  /\ sq' = [sq EXCEPT ![r] = WithFw(@, r, Chunk(t, non_fw_surf), SquaredFw)]
  /\ Left(r, {t})
  /\ UNCHANGED <<conf, rect, send_buf, recv_buf, inbox>>

\* 3) the master copies the forward border of the links
SqBord(r, t) ==
  /\ Stage(r, t) = "sq_bord"
  /\ conf' = IF t # 0 THEN conf
             ELSE [conf EXCEPT ![r] = [i \in Kept |->
                     IF i >= loc_vol + bord_volh THEN recv_buf[r][i - loc_vol] ELSE @[i]]]
  /\ Left(r, {t})
  /\ UNCHANGED <<sq, rect, send_buf, recv_buf, inbox>>

\* 4) backward staples of the sites after the forward surface, to be sent
SqSurfBw(r, t) ==
  /\ Stage(r, t) = "sq_surf_bw"
  /\ sq' = [sq EXCEPT ![r] = WithBw(@, r, Chunk(t, fw_surf), SquaredBw)]
  /\ Left(r, {t})
  /\ UNCHANGED <<conf, rect, send_buf, recv_buf, inbox>>

\* Each thread has its share of the cells of each direction.
UpperShare(t) == UNION {Chunk(t, Cells(1, nu)) : nu \in Dirs}
BackShare(t) == UNION {Chunk(t, Cells(0, nu)) : nu \in Dirs}

SqUpper(r, t) ==
  /\ Stage(r, t) = "sq_upper"
  /\ LET Data(b, mu) == sq[r][loc_vol + b][mu][Bw(mu, DirOf(b))]
     IN  send_buf' = Filled(r, UpperShare(t), Data, TRUE)
  /\ Left(r, {t})
  /\ UNCHANGED <<conf, sq, rect, recv_buf, inbox>>

\* 5) and 6) the backward staples after the other sites, the forward ones of the
\* forward surface
SqRest(r, t) ==
  /\ Stage(r, t) = "sq_rest"
  /\ LET u == WithBw(sq[r], r, Chunk(t, non_fw_surf), SquaredBw)
     IN  sq' = [sq EXCEPT ![r] = WithFw(u, r, Chunk(t, fw_surf), SquaredFw)]
  /\ Left(r, {t})
  /\ UNCHANGED <<conf, rect, send_buf, recv_buf, inbox>>

\* u with what has been received for the sites of the backward surface.
WithBack(u, r, t) ==
  LET From(i, nu) == {b \in BackShare(t) : surflx_of_bordlx[r][b] = i /\ DirOf(b) = nu}
  IN  [i \in Kept |-> [mu \in Dirs |-> [k \in Terms |->
         IF \E nu \in Dirs \ {mu} : k = Bw(mu, nu) /\ From(i, nu) # {}
         THEN LET nu == CHOOSE n \in Dirs \ {mu} : k = Bw(mu, n)
              IN  recv_buf[r][CHOOSE b \in From(i, nu) : TRUE][mu]
         ELSE u[i][mu][k]]]]
\* 7)
SqBack(r, t) ==
  /\ Stage(r, t) = "sq_back"
  /\ sq' = [sq EXCEPT ![r] = WithBack(@, r, t)]
  /\ Left(r, {t})
  /\ UNCHANGED <<conf, rect, send_buf, recv_buf, inbox>>

-----------------------------------------------------------------------------
(***************************************************************************)
(* Rectangular staples: the same, with the forward squared staples of the    *)
(* lower surface in the place of its links.                                *)
(***************************************************************************)
RectLower(r, t) ==
  /\ Stage(r, t) = "rect_lower"
  /\ LET Data(b, mu) == sq[r][surflx_of_bordlx[r][b]][mu][Fw(mu, DirOf(b))]
     IN  send_buf' = Filled(r, BackShare(t), Data, TRUE)
  /\ Left(r, {t})
  /\ UNCHANGED <<conf, sq, rect, recv_buf, inbox>>

RectLocalFw(r, t) ==
  /\ Stage(r, t) = "rect_local_fw"
  /\ rect' = [rect EXCEPT ![r] = WithFw(@, r, Chunk(t, non_fw_surf), RectangularFw)]
  /\ Left(r, {t})
  /\ UNCHANGED <<conf, sq, send_buf, recv_buf, inbox>>

\* All threads copy the forward squared staples of the border.
RectBord(r, t) ==
  /\ Stage(r, t) = "rect_bord"
  /\ sq' = [sq EXCEPT ![r] = [i \in Kept |->
       LET b == i - loc_vol
       IN  IF i < loc_vol \/ b \notin UpperShare(t) THEN @[i]
           ELSE [mu \in Dirs |-> IF mu = DirOf(b) THEN @[i][mu]
                                 ELSE [@[i][mu] EXCEPT ![Fw(mu, DirOf(b))] = recv_buf[r][b][mu]]]]]
  /\ Left(r, {t})
  /\ UNCHANGED <<conf, rect, send_buf, recv_buf, inbox>>

RectSurfBw(r, t) ==
  /\ Stage(r, t) = "rect_surf_bw"
  /\ rect' = [rect EXCEPT ![r] = WithBw(@, r, Chunk(t, fw_surf), RectangularBw)]
  /\ Left(r, {t})
  /\ UNCHANGED <<conf, sq, send_buf, recv_buf, inbox>>

RectUpper(r, t) ==
  /\ Stage(r, t) = "rect_upper"
  /\ LET Data(b, mu) == rect[r][loc_vol + b][mu][Bw(mu, DirOf(b))]
     IN  send_buf' = Filled(r, UpperShare(t), Data, TRUE)
  /\ Left(r, {t})
  /\ UNCHANGED <<conf, sq, rect, recv_buf, inbox>>

RectRest(r, t) ==
  /\ Stage(r, t) = "rect_rest"
  /\ LET u == WithBw(rect[r], r, Chunk(t, non_fw_surf), RectangularBw)
     IN  rect' = [rect EXCEPT ![r] = WithFw(u, r, Chunk(t, fw_surf), RectangularFw)]
  /\ Left(r, {t})
  /\ UNCHANGED <<conf, sq, send_buf, recv_buf, inbox>>

RectBack(r, t) ==
  /\ Stage(r, t) = "rect_back"
  /\ rect' = [rect EXCEPT ![r] = WithBack(@, r, t)]
  /\ Left(r, {t})
  /\ UNCHANGED <<conf, sq, send_buf, recv_buf, inbox>>

-----------------------------------------------------------------------------
ThreadStep(r, t) ==
  \/ SqLower(r, t) \/ SqLocalFw(r, t) \/ SqBord(r, t) \/ SqSurfBw(r, t)
  \/ SqUpper(r, t) \/ SqRest(r, t) \/ SqBack(r, t)
  \/ RectLower(r, t) \/ RectLocalFw(r, t) \/ RectBord(r, t) \/ RectSurfBw(r, t)
  \/ RectUpper(r, t) \/ RectRest(r, t) \/ RectBack(r, t)
RankStep(r) ==
  (\E v \in Verses : Post(r, v) \/ Wait(r, v)) \/ Meet(r) \/ \E t \in Threads : ThreadStep(r, t)
Over == \A r \in Ranks, t \in Threads : Stage(r, t) = "end"
Next == (\E r \in Ranks : RankStep(r)) \/ (Over /\ UNCHANGED vars)

\* Every step takes a thread further: without a deadlock all end.
Spec == Init /\ [][Next]_vars

-----------------------------------------------------------------------------
\* The product of the links along steps <<direction, sign>> from the site x.
Walk(x, steps) ==
  LET at[k \in 0 .. Len(steps)] ==
        IF k = 0 THEN x
        ELSE [at[k - 1] EXCEPT ![steps[k][1]] = (@ + steps[k][2]) % glb_size[steps[k][1]]]
      Crossed(k) == LET mu == steps[k][1] IN
                    IF steps[k][2] = 1 THEN link(glblx_of_coord(at[k - 1]), mu)
                    ELSE su3_dag(link(glblx_of_coord(at[k]), mu))
      w[k \in 0 .. Len(steps)] == IF k = 0 THEN id ELSE su3_prod(w[k - 1], Crossed(k))
  IN  w[Len(steps)]
\* The staples of the link mu on side s of direction nu.
SquareAround(x, mu, nu, s) == {Walk(x, <<<<nu, s>>, <<mu, 1>>, <<nu, -s>>>>)}
RectanglesAround(x, mu, nu, s) ==
  {Walk(x, <<<<mu, -1>>, <<nu, s>>, <<mu, 1>>, <<mu, 1>>, <<nu, -s>>>>),
   Walk(x, <<<<nu, s>>, <<nu, s>>, <<mu, 1>>, <<nu, -s>>, <<nu, -s>>>>),
   Walk(x, <<<<nu, s>>, <<mu, 1>>, <<mu, 1>>, <<nu, -s>>, <<mu, -1>>>>)}

Right(r, u, Reference(_, _, _, _)) ==
  \A i \in Local, p \in Planes :
    LET x == glb_coord_of_loclx[r][i]
    IN  /\ u[i][p[1]][Bw(p[1], p[2])] = Reference(x, p[1], p[2], -1)
        /\ u[i][p[1]][Fw(p[1], p[2])] = Reference(x, p[1], p[2], 1)
Done(r, n) == \A t \in Threads : ip[r][t] > n

\* The type invariant; a staple is never a sum, and three of them at most go
\* together: nothing is added twice, or to what was left from before.
TypeOK ==
  /\ ip \in [Ranks -> [Threads -> 1 .. Len(Stages) + 1]]
  /\ \A r \in Ranks, i \in Kept, mu \in Dirs, k \in Terms :
       /\ Cardinality(conf[r][i][mu]) = 1 /\ Cardinality(sq[r][i][mu][k]) = 1
       /\ Cardinality(rect[r][i][mu][k]) \in {1, 3}

\* All exchanges have one tag: when a rank waits for one, the first block of each
\* sender is of that exchange.  (A rank may be one ahead of its neighbours.)
RightBlock ==
  \A r \in Ranks, v \in Verses, nu \in Dirs :
    paral_dir[nu] /\ Stage(r, 0) = (IF v = 0 THEN "wait_bw" ELSE "wait_fw") =>
      LET queue == inbox[r][rank_neigh[r][1 - v][nu]]
      IN  queue # <<>> => DOMAIN Head(queue) = Cells(v, nu)

\* When a rank is through the first computation, each of its links has the right
\* squared staples in the right places.
SquaresRight == \A r \in Ranks : Done(r, Len(Phase("sq"))) => Right(r, sq[r], SquareAround)

\* And through the second one, the right rectangular ones, though no rank knows
\* the links two steps away.
RectanglesRight == \A r \in Ranks : Done(r, Len(Stages)) => Right(r, rect[r], RectanglesAround)

-----------------------------------------------------------------------------
(***************************************************************************)
(* The same staples, computed site by site from the links of the rank, of    *)
(* its borders and of its edges.                                           *)
(***************************************************************************)
lx_conf(r, i, mu) == {link(glblx_of_coord(glb_coord_of_loclx[r][i]), mu)}
\* Mutant: the corner taken from the link that starts in A.
PointSummedSquaredNear(r, A, mu) ==
  UNION {LET B == Up(r, A, nu)
             F == Up(r, A, mu)
             D == loclx_neigh[r][0][A][nu]
         IN  Prod3(lx_conf(r, A, nu), lx_conf(r, B, mu), Dag(lx_conf(r, F, nu)))
             \cup Prod3(Dag(lx_conf(r, D, nu)), lx_conf(r, D, mu), lx_conf(r, A, nu)) :
           nu \in Dirs \ {mu}}
\* compute_point_summed_squared_staples_lx_conf_single_dir
PointSummedSquared(r, A, mu) ==
  UNION {LET B == Up(r, A, nu)
             F == Up(r, A, mu)
             D == loclx_neigh[r][0][A][nu]
             E == Up(r, D, mu)
         IN  Prod3(lx_conf(r, A, nu), lx_conf(r, B, mu), Dag(lx_conf(r, F, nu)))
             \cup Prod3(Dag(lx_conf(r, D, nu)), lx_conf(r, D, mu), lx_conf(r, E, nu)) :
           nu \in Dirs \ {mu}}

\* The two ways of computing the sum of the staples of a link agree: the one that
\* overlaps and never uses edges, and the one that needs them.
SumsAgree ==
  \A r \in Ranks : (\A t \in Threads : ip[r][t] = Len(Phase("sq")) + 1) =>
    \A i \in Local, mu \in Dirs :
      UNION {sq[r][i][mu][k] : k \in Terms} = PointSummedSquared(r, i, mu)
=============================================================================
