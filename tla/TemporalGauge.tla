--------------------------- MODULE TemporalGauge ----------------------------
(***************************************************************************)
(* find_temporal_gauge_fixing_matr followed by gauge_transform_conf, as in   *)
(* tools/conf_transform/gaugefix/temporal.cpp.                              *)
(*                                                                         *)
(* The transformation of a site is the product of the links in direction 0   *)
(* from the first slice of the lattice to the site.  A rank needs it on its  *)
(* first slice before it can compute any other, and gets it with a blocking  *)
(* receive from the rank before it in time: the ranks form chains, which     *)
(* those on the first slice start.                                          *)
(***************************************************************************)
EXTENDS Lattice, Links

CONSTANT Buffering    \* whether MPI keeps a message nobody receives yet: the
                      \* values to consider
TemporalGaugeAssumption == Buffering \subseteq BOOLEAN /\ 0 \in Dirs

VARIABLES buffering,
          pc,         \* per rank: first, bulk, send, comm, wait, end
          fixm,       \* per rank: the transformation of its sites
          buf,        \* per rank: that of the first slice of the next one
          mail,       \* per rank: slices on their way to it
          bord,       \* per rank: the surfaces it has sent, [] before
          fixed_conf

vars == <<buffering, pc, fixm, buf, mail, bord, fixed_conf>>

Slice == Dirs \ {0}
loc_slice_area == loc_vol \div loc_size[0]
Area == 0 .. loc_slice_area - 1
\* The local sites of the slice t, in order of index.
At(t, i) == loclx_of_coord([coord_of_lx(i, loc_size) EXCEPT ![0] = t])
glb_coord_of_loclx(r, i) ==
  [mu \in Dirs |-> coord_of_lx(i, loc_size)[mu] + rank_coord[r][mu] * loc_size[mu]]
u(r, i, mu) == link(glb_coord_of_loclx(r, i), mu)
Unset == <<"unset">>
Goto(r, l) == pc' = [pc EXCEPT ![r] = l]

Init ==
  /\ buffering \in Buffering
  /\ pc = [r \in Ranks |-> "first"]
  /\ fixm = [r \in Ranks |-> [i \in Local |-> Unset]]
  /\ buf = [r \in Ranks |-> [i \in Area |-> Unset]]
  /\ mail = [r \in Ranks |-> <<>>]
  /\ bord = [r \in Ranks |-> <<>>]
  /\ fixed_conf = [r \in Ranks |-> [i \in Local |-> [mu \in Dirs |-> Unset]]]

-----------------------------------------------------------------------------
\* The first rank puts the slice t=0 to the identity.
PutToId(r) ==
  /\ pc[r] = "first" /\ rank_coord[r][0] = 0
  /\ fixm' = [fixm EXCEPT ![r] = [i \in Local |->
                IF glb_coord_of_loclx(r, i)[0] = 0 THEN id ELSE @[i]]]
  /\ Goto(r, "bulk")
  /\ UNCHANGED <<buffering, buf, mail, bord, fixed_conf>>

\* MPI_Recv: the slice goes to the first sites, which are those of slice 0.
Recv(r) ==
  /\ pc[r] = "first" /\ rank_coord[r][0] # 0 /\ nrank_dir[0] > 1
  /\ mail[r] # <<>>
  /\ fixm' = [fixm EXCEPT ![r] = [i \in Local |->
                IF i \in Area THEN Head(mail[r])[i] ELSE @[i]]]
  /\ mail' = [mail EXCEPT ![r] = Tail(@)]
  /\ Goto(r, "bulk")
  /\ UNCHANGED <<buffering, buf, bord, fixed_conf>>

\* Mutant: one step too few.
AlongShort(r, i, t) ==
  LET f[s \in 0 .. loc_size[0]] ==
        IF s = 0 THEN fixm[r][At(0, i)]
        ELSE IF s = loc_size[0] THEN f[s - 1]
        ELSE su3_prod(f[s - 1], u(r, At(s - 1, i), 0))
  IN  f[t]
\* From slice to slice: the values at a spatial position, up to the slice after
\* the last local one.
Along(r, i, t) ==
  LET f[s \in 0 .. loc_size[0]] ==
        IF s = 0 THEN fixm[r][At(0, i)] ELSE su3_prod(f[s - 1], u(r, At(s - 1, i), 0))
  IN  f[t]

Bulk(r) ==
  /\ pc[r] = "bulk"
  /\ fixm' = [fixm EXCEPT ![r] = [i \in Local |-> Along(r, i, coord_of_lx(i, loc_size)[0])]]
  /\ buf' = [buf EXCEPT ![r] = IF nrank_dir[0] > 1
                               THEN [i \in Area |-> Along(r, i, loc_size[0])] ELSE @]
  /\ Goto(r, "send")
  /\ UNCHANGED <<buffering, mail, bord, fixed_conf>>

\* Mutant: the last rank sends too.
SendsTooMany(r) == nrank_dir[0] > 1
\* The last rank of a chain does not send.
Sends(r) == rank_coord[r][0] # nrank_dir[0] - 1 /\ nrank_dir[0] > 1

\* MPI_Send: returns when the message has left, or is buffered.
Send(r) ==
  /\ pc[r] = "send"
  /\ LET s == rank_neigh[r][1][0]
     IN  IF Sends(r)
         THEN /\ buffering \/ (pc[s] = "first" /\ rank_coord[s][0] # 0 /\ mail[s] = <<>>)
              /\ mail' = [mail EXCEPT ![s] = Append(@, buf[r])]
         ELSE UNCHANGED mail
  /\ Goto(r, "comm")
  /\ UNCHANGED <<buffering, fixm, buf, bord, fixed_conf>>

-----------------------------------------------------------------------------
\* gauge_transform_conf: first the borders of the transformation are sent ...
Communicate(r) ==
  /\ pc[r] = "comm"
  /\ bord' = [bord EXCEPT ![r] = fixm[r]]
  /\ Goto(r, "wait")
  /\ UNCHANGED <<buffering, fixm, buf, mail, fixed_conf>>

\* ... the site after i is one of the rank itself, or a copy of what the
\* neighbour has sent.
g_up(r, i, mu) ==
  LET x == coord_of_lx(i, loc_size)
      next == loclx_of_coord([x EXCEPT ![mu] = (@ + 1) % loc_size[mu]])
  IN  IF x[mu] = loc_size[mu] - 1 /\ paral_dir[mu]
      THEN bord[rank_neigh[r][1][mu]][next] ELSE fixm[r][next]

Ready(r) == \A mu \in Dirs, v \in Verses : paral_dir[mu] => bord[rank_neigh[r][v][mu]] # <<>>

\* Mutant: the other end is transformed by the same matrix.
transformedSame(r, i, mu) == su3_prod(fixm[r][i], su3_prod_dag(u(r, i, mu), fixm[r][i]))
transformed(r, i, mu) == su3_prod(fixm[r][i], su3_prod_dag(u(r, i, mu), g_up(r, i, mu)))

\* ... and the links are transformed when those of all neighbours have come.
Transform(r) ==
  /\ pc[r] = "wait" /\ Ready(r)
  /\ fixed_conf' = [fixed_conf EXCEPT ![r] = [i \in Local |-> [mu \in Dirs |-> transformed(r, i, mu)]]]
  /\ Goto(r, "end")
  /\ UNCHANGED <<buffering, fixm, buf, mail, bord>>

RankStep(r) ==
  PutToId(r) \/ Recv(r) \/ Bulk(r) \/ Send(r) \/ Communicate(r) \/ Transform(r)
Over == \A r \in Ranks : pc[r] = "end"
Terminated == Over /\ UNCHANGED vars
Next == (\E r \in Ranks : RankStep(r)) \/ Terminated

\* Every step takes a rank further: without a deadlock all ranks end.
Spec == Init /\ [][Next]_vars

-----------------------------------------------------------------------------
PCs == {"first", "bulk", "send", "comm", "wait", "end"}
PosOf(p) == CASE p = "first" -> 0 [] p = "bulk" -> 1 [] p = "send" -> 2
              [] p = "comm" -> 3 [] p = "wait" -> 4 [] p = "end" -> 5

\* The type invariant; and a rank is never ahead of the one it waits for in time.
TypeOK ==
  /\ buffering \in BOOLEAN /\ pc \in [Ranks -> PCs]
  /\ \A r \in Ranks : Len(mail[r]) <= 1
  /\ \A r \in Ranks : pc[r] # "first" /\ rank_coord[r][0] # 0 =>
       PosOf(pc[rank_neigh[r][0][0]]) >= (IF buffering THEN 3 ELSE 2)

\* What the transformation of a site must be, whatever the division among ranks:
\* the product of the time links that lead to it.
TimeLine(g) ==
  LET f[t \in 0 .. glb_size[0]] ==
        IF t = 0 THEN id ELSE su3_prod(f[t - 1], link([g EXCEPT ![0] = t - 1], 0))
  IN  f[g[0]]
\* find_temporal_gauge_fixing_matr: no rank sends the borders of anything else
\* (gauge_fixing.cpp:111).
FixmRight ==
  \A r \in Ranks : pc[r] \in {"comm", "wait", "end"} =>
    \A i \in Local : fixm[r][i] = TimeLine(glb_coord_of_loclx(r, i))

\* "bringing to temporal gauge with T-1 timeslice diferent from id": the time
\* links of all other slices become the identity, on every rank, and each link
\* of the last slice the product of all links of its line.
TemporalGaugeReached ==
  \A r \in Ranks : pc[r] = "end" =>
    \A i \in Local :
      LET g == glb_coord_of_loclx(r, i)
      IN  fixed_conf[r][i][0] = IF g[0] < glb_size[0] - 1 THEN id
                                ELSE su3_prod(TimeLine(g), link(g, 0))

\* A slice is only sent to a rank that still waits for one: no message is left
\* to be taken for the first slice by a later call, and with a synchronous send
\* none waits for ever.
EveryMessageAwaited ==
  \A r \in Ranks : mail[r] # <<>> => pc[r] = "first" /\ rank_coord[r][0] # 0
=============================================================================
