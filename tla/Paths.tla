------------------------------- MODULE Paths --------------------------------
(***************************************************************************)
(* Products of links along paths that are drawn step by step, on all sites  *)
(* at once (su3_paths/arbitrary.cpp, the "simpler approach"), and the        *)
(* Polyakov loops (pline.cpp).                                             *)
(*                                                                         *)
(* out[x] is the product along the path that ends in x.  To go on by a link *)
(* every site is multiplied by its own link and then moved to the next site *)
(* (forward), or moved and then multiplied (backward).  A move is done in    *)
(* place, line by line, and takes from the border what comes in from the     *)
(* neighbour.  With both_sides a closed path is carried along: the link also *)
(* goes in front.                                                          *)
(*                                                                         *)
(* All threads of all ranks go through the same operations.  An operation is *)
(* a list of stages: loops, each thread over its share, and the places where *)
(* all threads of a rank meet.  The exchange of borders is the one of module *)
(* Borders: here it sends the whole buffer of a rank, and waits for those of *)
(* the neighbours.                                                         *)
(***************************************************************************)
EXTENDS Tables, Links

CONSTANTS Programs,   \* the sequences of operations to consider
          NThreads

Op == [kind : {"init", "reset"}] \cup [kind : {"pline"}, mu : Dirs]
        \cup [kind : {"elong"}, mu : Dirs, fw : BOOLEAN, both : BOOLEAN]
PathsAssumption == NThreads \in Nat \ {0} /\ Programs \subseteq Seq(Op)

VARIABLES prog,
          ip,         \* per rank and thread: the operation
          at,         \* per rank and thread: the stage
          out, bord,  \* per rank: the vector, its border
          valid,      \* per rank: BORDERS_VALID
          send_buf,
          inbox,      \* per rank and sender: the buffers on their way
          posted,     \* per rank: it has sent and waits
          c           \* per rank: the drawing of the path, front first

vars == <<prog, ip, at, out, bord, valid, send_buf, inbox, posted, c>>

Threads == 0 .. NThreads - 1
Origin == [mu \in Dirs |-> 0]
conf(r, i, mu) == link(glb_coord_of_loclx[r][i], mu)

\* NISSA_PARALLEL_LOOP over n things: those thread t handles.
Chunk(t, n) ==
  LET load == (n + NThreads - 1) \div NThreads
  IN  {k \in 0 .. n - 1 : load * t <= k /\ k < load * (t + 1)}

\* Mutant: after the product no barrier.
StagesNoBarrier(o) ==
  LET shift == <<"fill", "comm", "shift", "invalid">>
  IN  CASE o.kind = "init" -> <<"reset", "invalid">>
        [] o.kind = "reset" -> <<"reset", "barrier">>
        [] o.kind = "pline" -> <<"prod", "invalid">> \o shift
        [] o.kind = "elong" -> IF o.fw THEN <<"prod">> \o shift
                               ELSE shift \o <<"prod", "barrier">>
\* init_su3_path, elong_su3_path_FW, elong_su3_path_BW, each with
\* su3_vec_single_shift; a step of field_untraced_polyakov_loop_lx_conf.
Stages(o) ==
  LET shift == <<"fill", "comm", "shift", "invalid">>
  IN  CASE o.kind = "init" -> <<"reset", "invalid">>
        [] o.kind = "reset" -> <<"reset", "barrier">>
        [] o.kind = "pline" -> <<"prod", "invalid">> \o shift
        [] o.kind = "elong" -> IF o.fw THEN <<"prod", "barrier">> \o shift
                               ELSE shift \o <<"prod", "barrier">>

Forward(o) == o.kind = "pline" \/ o.fw
Both(o) == o.kind = "elong" /\ o.both
op(r, t) == prog[ip[r][t]]
Stage(r, t) == IF ip[r][t] > Len(prog) THEN "end" ELSE Stages(op(r, t))[at[r][t]]

\* Thread t of r leaves its stage.
Left(r, T) ==
  LET Last1(t) == at[r][t] = Len(Stages(op(r, t)))
  IN  /\ ip' = [ip EXCEPT ![r] = [t \in Threads |-> IF t \in T /\ Last1(t) THEN @[t] + 1 ELSE @[t]]]
      /\ at' = [at EXCEPT ![r] = [t \in Threads |->
                  IF t \notin T THEN @[t] ELSE IF Last1(t) THEN 1 ELSE @[t] + 1]]

Init ==
  /\ prog \in Programs
  /\ ip = [r \in Ranks |-> [t \in Threads |-> 1]]
  /\ at = [r \in Ranks |-> [t \in Threads |-> 1]]
  /\ out = [r \in Ranks |-> [i \in Local |-> id]]
  /\ bord = [r \in Ranks |-> [b \in Bords |-> id]]
  /\ valid = [r \in Ranks |-> FALSE]
  /\ send_buf = [r \in Ranks |-> [b \in Bords |-> id]]
  /\ inbox = [r \in Ranks |-> [s \in Ranks |-> <<>>]]
  /\ posted = [r \in Ranks |-> FALSE]
  /\ c = [r \in Ranks |-> <<>>]

-----------------------------------------------------------------------------
\* Where the path ends after the operation; with both_sides it starts there too.
\* Mutant: it is only drawn at its end.
DrawnAtEnd(d, o) ==
  LET t == IF d = <<>> THEN Origin
           ELSE [d[Len(d)] EXCEPT ![o.mu] = @ + IF Forward(o) THEN 1 ELSE -1]
  IN  Append(d, t)
Drawn(d, o) ==
  LET t == IF d = <<>> THEN Origin
           ELSE [d[Len(d)] EXCEPT ![o.mu] = @ + IF Forward(o) THEN 1 ELSE -1]
  IN  IF Both(o) THEN <<t>> \o Append(d, t) ELSE Append(d, t)

\* The drawing is a local variable of each thread: all draw the same.
Draw(r, t) ==
  c' = IF t = 0 /\ at[r][t] = 1 THEN [c EXCEPT ![r] = Drawn(@, op(r, t))] ELSE c

Reset(r, t) ==
  /\ Stage(r, t) = "reset"
  /\ out' = [out EXCEPT ![r] = [i \in Local |-> IF i \in Chunk(t, loc_vol) THEN id ELSE @[i]]]
  /\ Draw(r, t) /\ Left(r, {t})
  /\ UNCHANGED <<prog, bord, valid, send_buf, inbox, posted>>

\* The site multiplied by its link.
Multiplied(a, U, o) ==
  LET V == IF Forward(o) THEN U ELSE su3_dag(U)
      one == su3_prod(a, V)
  IN  IF Both(o) THEN su3_prod(su3_dag(V), one) ELSE one

Prod(r, t) ==
  /\ Stage(r, t) = "prod"
  /\ out' = [out EXCEPT ![r] = [i \in Local |->
       IF i \in Chunk(t, loc_vol) THEN Multiplied(@[i], conf(r, i, op(r, t).mu), op(r, t)) ELSE @[i]]]
  /\ Draw(r, t) /\ Left(r, {t})
  /\ UNCHANGED <<prog, bord, valid, send_buf, inbox, posted>>

\* All threads of a rank meet.
Meet(r) ==
  /\ \A t \in Threads : Stage(r, t) \in {"barrier", "invalid"}
  /\ valid' = [valid EXCEPT ![r] = @ /\ Stage(r, 0) # "invalid"]
  /\ Left(r, Threads)
  /\ UNCHANGED <<prog, out, bord, send_buf, inbox, posted, c>>

-----------------------------------------------------------------------------
(***************************************************************************)
(* communicate_lx_su3_borders                                              *)
(***************************************************************************)
Communicates(r) == ~valid[r] /\ bord_vol > 0

Fill(r, t) ==
  /\ Stage(r, t) = "fill"
  /\ send_buf' = IF Communicates(r)
       THEN [send_buf EXCEPT ![r] = [b \in Bords |->
               IF b \in Chunk(t, bord_vol) THEN out[r][surflx_of_bordlx[r][b]] ELSE @[b]]]
       ELSE send_buf
  /\ Draw(r, t) /\ Left(r, {t})
  /\ UNCHANGED <<prog, out, bord, valid, inbox, posted>>

Neighbours(r) == {rank_neigh[r][v][mu] : v \in Verses, mu \in {d \in Dirs : paral_dir[d]}}

Post(r) ==
  /\ \A t \in Threads : Stage(r, t) = "comm"
  /\ Communicates(r) /\ ~posted[r]
  /\ inbox' = [s \in Ranks |-> IF s \in Neighbours(r)
                               THEN [inbox[s] EXCEPT ![r] = Append(@, send_buf[r])] ELSE inbox[s]]
  /\ posted' = [posted EXCEPT ![r] = TRUE]
  /\ UNCHANGED <<prog, ip, at, out, bord, valid, send_buf, c>>

\* A border on one side is a copy of what the neighbour on that side has put in
\* the buffer for its border on the other side.
FromBlock(b) ==
  CHOOSE d \in Verses \X Dirs :
    /\ d[1] * bord_volh + bord_offset[d[2]] <= b
    /\ b < d[1] * bord_volh + bord_offset[d[2]] + bord_dir_vol[d[2]]
Wait(r) ==
  /\ posted[r] /\ \A s \in Neighbours(r) : inbox[r][s] # <<>>
  /\ bord' = [bord EXCEPT ![r] = [b \in Bords |->
       LET d == FromBlock(b)
       IN  Head(inbox[r][rank_neigh[r][d[1]][d[2]]])[(b + bord_volh) % bord_vol]]]
  /\ inbox' = [inbox EXCEPT ![r] = [s \in Ranks |->
                 IF s \in Neighbours(r) THEN Tail(@[s]) ELSE @[s]]]
  /\ posted' = [posted EXCEPT ![r] = FALSE]
  /\ valid' = [valid EXCEPT ![r] = TRUE]
  /\ Left(r, Threads)
  /\ UNCHANGED <<prog, out, send_buf, c>>

\* Borders that are valid are not communicated: no thread stops.
Skip(r, t) ==
  /\ Stage(r, t) = "comm" /\ ~Communicates(r)
  /\ Left(r, {t})
  /\ UNCHANGED <<prog, out, bord, valid, send_buf, inbox, posted, c>>

-----------------------------------------------------------------------------
(***************************************************************************)
(* su3_vec_single_shift: the sites of a line from the last to the first (to *)
(* move forward), each one overwritten by the site behind it.               *)
(***************************************************************************)
PerpDirs(mu) == Dirs \ {mu}
perp_vol(mu) == loc_vol \div loc_size[mu]
\* The sites of line iperp in the order in which they are overwritten.
Line(mu, iperp, fw) ==
  LET x(k) == CHOOSE i \in Local : LET y == loc_coord_of_loclx[i] IN
                y[mu] = k /\ LxOn(PerpDirs(mu), y, loc_size) = iperp
  IN  [k \in 1 .. loc_size[mu] |-> x(IF fw THEN loc_size[mu] - k ELSE k - 1)]

ineigh(r, i, mu, fw) == loclx_neigh[r][IF fw THEN 0 ELSE 1][i][mu]
At(u, r, i) == IF i < loc_vol THEN u[i] ELSE bord[r][i - loc_vol]

\* A line that is not divided among ranks closes on itself: the site that was
\* overwritten first goes, from a buffer, to the last.
ShiftedLine(u, r, mu, iperp, fw) ==
  LET sites == Line(mu, iperp, fw)
      moved == FoldLeft(LAMBDA w, i : [w EXCEPT ![i] = At(w, r, ineigh(r, i, mu, fw))], u, sites)
  IN  IF nrank_dir[mu] = 1 THEN [moved EXCEPT ![sites[Len(sites)]] = u[sites[1]]] ELSE moved

Shift(r, t) ==
  /\ Stage(r, t) = "shift"
  /\ LET o == op(r, t)
         lines == SetToSeq(Chunk(t, perp_vol(o.mu)))
     IN  out' = [out EXCEPT ![r] =
           FoldLeft(LAMBDA u, l : ShiftedLine(u, r, o.mu, l, Forward(o)), @, lines)]
  /\ Left(r, {t})
  /\ UNCHANGED <<prog, bord, valid, send_buf, inbox, posted, c>>

-----------------------------------------------------------------------------
ThreadStep(r, t) == Reset(r, t) \/ Prod(r, t) \/ Fill(r, t) \/ Skip(r, t) \/ Shift(r, t)
Over == \A r \in Ranks, t \in Threads : Stage(r, t) = "end"
Progress ==
  \E r \in Ranks : Meet(r) \/ Post(r) \/ Wait(r) \/ \E t \in Threads : ThreadStep(r, t)
Next == Progress \/ (Over /\ UNCHANGED vars)

\* Every step takes a thread further: without a deadlock all end.
Spec == Init /\ [][Next]_vars

-----------------------------------------------------------------------------
\* The type invariant; a drawing has one point for each link and one more.
TypeOK ==
  /\ prog \in Programs
  /\ ip \in [Ranks -> [Threads -> 1 .. Len(prog) + 1]]
  /\ valid \in [Ranks -> BOOLEAN] /\ posted \in [Ranks -> BOOLEAN]
  /\ \A r \in Ranks :
       LET done == {k \in 1 .. Len(prog) : k < ip[r][0] \/ (k = ip[r][0] /\ at[r][0] > 1)}
       IN  Len(c[r]) = Cardinality(done) + Cardinality({k \in done : Both(prog[k])})

\* What a path must give: the product of the links from point to point, with the
\* path moved to where its last point is x.
Walk(d, x) ==
  LET Site(k) == [mu \in Dirs |-> (x[mu] + d[k][mu] - d[Len(d)][mu]) % glb_size[mu]]
      Dir(k) == CHOOSE mu \in Dirs : d[k + 1][mu] # d[k][mu]
      Crossed(k) == IF d[k + 1][Dir(k)] > d[k][Dir(k)] THEN link(Site(k), Dir(k))
                    ELSE su3_dag(link(Site(k + 1), Dir(k)))
      f[k \in 1 .. Len(d)] == IF k = 1 THEN id ELSE su3_prod(f[k - 1], Crossed(k - 1))
  IN  f[Len(d)]

\* When no thread of a rank is inside an operation, each of its sites has the
\* product along the path drawn so far, whatever the division among ranks and
\* threads.
AtRest(r) == /\ \A t \in Threads : at[r][t] = 1 /\ ip[r][t] = ip[r][0]
             /\ c[r] # <<>>
PathRight ==
  \A r \in Ranks : AtRest(r) =>
    \A i \in Local : out[r][i] = Walk(c[r], glb_coord_of_loclx[r][i])

\* crash_if_end_diff_from_start never stops these programs: what is carried
\* along has been closed, and remains so.
ClosedWhenBoth ==
  \A r \in Ranks : \A t \in Threads :
    Stage(r, t) # "end" /\ Both(op(r, t)) /\ c[r] # <<>> => c[r][1] = c[r][Len(c[r])]
=============================================================================
