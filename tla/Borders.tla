------------------------------ MODULE Borders -------------------------------
(***************************************************************************)
(* The exchange of the borders of vectors among the ranks of a one         *)
(* dimensional grid: src/src/communicate/borders.cpp on top of the flags   *)
(* of src/src/base/vectors.cpp.                                            *)
(*                                                                         *)
(* The surface of a vector has a backward (0) and a forward (1) half, as   *)
(* has the border that copies the facing halves of the neighbours.  All    *)
(* vectors and all communicators share one send_buf and one recv_buf.      *)
(* Every thread of every rank executes the same program, made of the       *)
(* operations the code does on vectors:                                    *)
(*                                                                         *)
(*   update  compute the vector and mark its border as not valid           *)
(*   read    communicate the borders and use them in a parallel loop       *)
(*   start   start communicating the borders                               *)
(*   finish  finish communicating them                                     *)
(*                                                                         *)
(* on one vector (communicate_lx_borders, communicate_ev_or_od_borders) or *)
(* on the even and odd parts of a field (communicate_ev_and_od_borders).   *)
(* THREAD_BARRIER is the atomic barrier it is shown to be in ThreadPool;   *)
(* everything between two barriers is interleaved.  MPI keeps the order of *)
(* the messages of two ranks on a tag.  It takes the data from send_buf    *)
(* when it delivers a message, or at the latest when it lets the sender go *)
(* on, if it buffers messages that nobody receives yet.                    *)
(***************************************************************************)
EXTENDS Integers, Sequences, SequencesExt, FiniteSetsExt

CONSTANTS
  EVN, ODD,  \* the two vectors
  Groups,    \* the vectors one operation communicates: one, or both in order
  Layouts    \* how the program is started: the number of ranks, the threads
             \* of each, whether MPI buffers messages and, as a bound, the
             \* operations of the program

ASSUME BordersAssumption ==
  /\ EVN # ODD
  /\ Groups \subseteq {<<EVN>>, <<ODD>>, <<EVN, ODD>>}
  /\ Layouts \subseteq [nranks : Nat \ {0}, nthreads : Nat \ {0},
                        buffering : BOOLEAN, nops : Nat]

VARIABLES
  nranks, nthreads, buffering, nops,
  prog,          \* the program, as far as it has been needed
  ip,            \* ip[r][t]: the operation thread t of rank r is at
  pc,            \* where in the operation
  at,            \* which of the vectors of the operation has its flag set
  surf,          \* surf[r][v][h]: the operation that has computed that half
  halo,          \* halo[r][v][h]: what the border contains
  valid,         \* valid[r][v]: flag BORDERS_VALID
  send_buf, recv_buf,
  comm_in_prog,  \* comm_in_prog[r][c]
  sends,         \* sends[r][s][c]: messages from r to s, in order
  recvs          \* recvs[r][s][c]: MPI_Irecvs of r from s, in order

env == <<nranks, nthreads, buffering, nops>>
where == <<prog, ip, at>>
data == <<surf, halo>>
bufs == <<send_buf, recv_buf>>
net == <<sends, recvs>>
vars == <<env, where, pc, data, valid, bufs, comm_in_prog, net>>

Ranks == 0 .. nranks - 1
Threads == 0 .. nthreads - 1
Halves == {0, 1}
Vects == {EVN, ODD}
Comms == {"eo", "lx"}

Ops == [kind : {"read", "start", "finish"}, vs : Groups]
         \cup [kind : {"update"}, vs : {<<EVN>>, <<ODD>>}]

Waiting == {"filled", "waited", "flag1", "flag2", "looped"}
PCs == Waiting \cup {"next", "write", "start", "fill", "post", "finish",
                     "wait", "unpack", "flag", "setflag", "loop", "exit"}

\* Mutant: the grid closes one rank too early.
rank_neighShort(r, h) == IF h = 0 THEN (r + nranks - 1) % nranks
                                  ELSE (r + 1) % (nranks - 1)

\* rank_neigh[h][mu]
rank_neigh(r, h) == IF h = 0 THEN (r + nranks - 1) % nranks
                             ELSE (r + 1) % nranks

nparal_dir == IF nranks > 1 THEN 1 ELSE 0

\* NISSA_PARALLEL_LOOP over the border: the halves thread t handles.
Chunk(t) == {h \in Halves : h % nthreads = t}

\* The communicator: of the lattice sites for the pair, of the sites of one
\* parity for a single vector.
Comm(op) == IF Len(op.vs) = 2 THEN "lx" ELSE "eo"

\* Half h of the surface of rank r, of vectors vs.
Piece(r, h, vs) ==
  [from |-> r, half |-> h, ver |-> [v \in ToSet(vs) |-> surf[r][v][h]]]

NoPiece == [from |-> 0, half |-> 0, ver |-> [v \in {} |-> 0]]

\* The operation that has computed v when a thread is at operation i.
Version(v, i) ==
  LET writers == {j \in 1 .. i - 1 : prog[j] = [kind |-> "update", vs |-> <<v>>]}
  IN IF writers = {} THEN 0 ELSE Max(writers)

Init ==
  /\ \E l \in Layouts : /\ nranks = l.nranks /\ nthreads = l.nthreads
                        /\ buffering = l.buffering /\ nops = l.nops
  /\ prog = <<>>
  /\ ip = [r \in Ranks |-> [t \in Threads |-> 0]]
  /\ pc = [r \in Ranks |-> [t \in Threads |-> "next"]]
  /\ at = [r \in Ranks |-> [t \in Threads |-> 1]]
  /\ surf = [r \in Ranks |-> [v \in Vects |-> [h \in Halves |-> 0]]]
  /\ halo = [r \in Ranks |-> [v \in Vects |-> [h \in Halves |-> NoPiece]]]
  /\ valid = [r \in Ranks |-> [v \in Vects |-> FALSE]]
  /\ send_buf = [r \in Ranks |-> [h \in Halves |-> NoPiece]]
  /\ recv_buf = [r \in Ranks |-> [h \in Halves |-> NoPiece]]
  /\ comm_in_prog = [r \in Ranks |-> [c \in Comms |-> FALSE]]
  /\ sends = [r \in Ranks |-> [s \in Ranks |-> [c \in Comms |-> <<>>]]]
  /\ recvs = [r \in Ranks |-> [s \in Ranks |-> [c \in Comms |-> <<>>]]]
-----------------------------------------------------------------------------
op(r, t) == prog[ip[r][t]]
Goto(r, t, l) == pc' = [pc EXCEPT ![r][t] = l]

\* What the callers keep to: one communication is in flight at a time, and a
\* vector is not modified while its border travels.
InFlight == {i \in DOMAIN prog : prog[i].kind = "start"
               /\ \A j \in i .. Len(prog) : prog[j].kind # "finish"}

Legal(o) ==
  IF InFlight = {} THEN o.kind # "finish"
  ELSE \E i \in InFlight :
         \/ o = [kind |-> "finish", vs |-> prog[i].vs]
         \/ o.kind = "update" /\ ToSet(o.vs) \cap ToSet(prog[i].vs) = {}

Entry(o) == CASE o.kind = "update" -> "write"
              [] o.kind \in {"read", "start"} -> "start"
              [] o.kind = "finish" -> "finish"

\* A thread calls the next operation of the program; the first of all threads
\* to come there decides which one it is.
Call(r, t) ==
  /\ pc[r][t] = "next"
  /\ ip[r][t] < nops
  /\ IF ip[r][t] < Len(prog) THEN prog' = prog
     ELSE \E o \in Ops : Legal(o) /\ prog' = Append(prog, o)
  /\ ip' = [ip EXCEPT ![r][t] = @ + 1]
  /\ at' = [at EXCEPT ![r][t] = 1]
  /\ Goto(r, t, Entry(prog'[ip[r][t] + 1]))
  /\ UNCHANGED <<env, data, valid, bufs, comm_in_prog, net>>

Exit(r, t) ==
  /\ pc[r][t] = "next"
  /\ ip[r][t] = nops
  /\ Goto(r, t, "exit")
  /\ UNCHANGED <<env, where, data, valid, bufs, comm_in_prog, net>>

-----------------------------------------------------------------------------

\* What follows each THREAD_BARRIER.
Past(r, t) ==
  CASE pc[r][t] = "filled" -> "post"
    [] pc[r][t] = "waited" -> "unpack"
    [] pc[r][t] = "flag1"  -> "setflag"
    [] pc[r][t] = "looped" -> "next"
    [] pc[r][t] = "flag2"  ->
         IF at[r][t] < Len(op(r, t).vs) THEN "flag"
         ELSE IF op(r, t).kind = "read" THEN "loop" ELSE "next"

Barrier(r) ==
  /\ \A t \in Threads : pc[r][t] \in Waiting
  /\ pc' = [pc EXCEPT ![r] = [t \in Threads |-> Past(r, t)]]
  /\ at' = [at EXCEPT ![r] = [t \in Threads |->
              IF Past(r, t) = "flag" THEN @[t] + 1 ELSE @[t]]]
  /\ UNCHANGED <<env, prog, ip, data, valid, bufs, comm_in_prog, net>>

\* A parallel loop computes the vector.
Write(r, t) ==
  /\ pc[r][t] = "write"
  /\ LET v == op(r, t).vs[1] IN
     surf' = [surf EXCEPT ![r][v] = [h \in Halves |->
                IF h \in Chunk(t) THEN ip[r][t] ELSE @[h]]]
  /\ Goto(r, t, "flag")
  /\ UNCHANGED <<env, where, halo, valid, bufs, comm_in_prog, net>>

\* start_communicating_*_borders: nothing to do for valid borders.
Start(r, t) ==
  /\ pc[r][t] = "start"
  /\ Goto(r, t,
       IF nparal_dir > 0 /\ \E v \in ToSet(op(r, t).vs) : ~ valid[r][v]
         THEN "fill"
       ELSE IF op(r, t).kind = "start" THEN "next" ELSE "finish")
  /\ UNCHANGED <<env, where, data, valid, bufs, comm_in_prog, net>>

\* Mutant: the master does not wait for the others to fill their part.
AfterFillNoBarrier == "post"

\* The barrier at the end of fill_sending_buf_with_*_vec
AfterFill == "filled"

\* fill_sending_buf_with_*_vec
Fill(r, t) ==
  /\ pc[r][t] = "fill"
  /\ send_buf' = [send_buf EXCEPT ![r] = [h \in Halves |->
       IF h \in Chunk(t)
         THEN Piece(r, h, op(r, t).vs) ELSE @[h]]]
  /\ Goto(r, t, AfterFill)
  /\ UNCHANGED <<env, where, data, valid, recv_buf, comm_in_prog, net>>

\* Some halves, in their order.
InOrder(S) == (IF 0 \in S THEN <<0>> ELSE <<>>) \o (IF 1 \in S THEN <<1>> ELSE <<>>)

\* comm_start, for one neighbour: half h of the border comes from the neighbour
\* on that side, the other half of the surface goes to the other side.
From(r, s) == InOrder({h \in Halves : rank_neigh(r, h) = s})
To(r, s) == InOrder({h \in Halves : rank_neigh(r, 1 - h) = s})
Messages(r, s) ==
  [i \in DOMAIN To(r, s) |-> [half |-> 1 - To(r, s)[i], piece |-> NoPiece, taken |-> FALSE]]

\* Mutant: the communication is not marked as in progress.
PostUnmarked(r, t) ==
  /\ pc[r][t] = "post"
  /\ LET c == Comm(op(r, t))
     IN IF t = 0
          THEN /\ recvs' = [recvs EXCEPT ![r] = [s \in Ranks |-> [d \in Comms |->
                      IF d = c THEN @[s][d] \o From(r, s) ELSE @[s][d]]]]
               /\ sends' = [sends EXCEPT ![r] = [s \in Ranks |-> [d \in Comms |->
                      IF d = c THEN @[s][d] \o Messages(r, s) ELSE @[s][d]]]]
          ELSE UNCHANGED net
  /\ Goto(r, t, IF op(r, t).kind = "start" THEN "next" ELSE "finish")
  /\ UNCHANGED <<env, where, data, valid, bufs, comm_in_prog>>

\* comm_start
Post(r, t) ==
  /\ pc[r][t] = "post"
  /\ LET c == Comm(op(r, t))
     IN /\ comm_in_prog' = [comm_in_prog EXCEPT ![r][c] = TRUE]
        /\ IF t = 0
             THEN /\ recvs' = [recvs EXCEPT ![r] = [s \in Ranks |-> [d \in Comms |->
                         IF d = c THEN @[s][d] \o From(r, s) ELSE @[s][d]]]]
                  /\ sends' = [sends EXCEPT ![r] = [s \in Ranks |-> [d \in Comms |->
                         IF d = c THEN @[s][d] \o Messages(r, s) ELSE @[s][d]]]]
             ELSE UNCHANGED net
  /\ Goto(r, t, IF op(r, t).kind = "start" THEN "next" ELSE "finish")
  /\ UNCHANGED <<env, where, data, valid, bufs>>

\* Whether there is something to finish: told by the flag of one vector, by
\* comm_in_prog for the pair.
Busy(r, vs) ==
  IF Len(vs) = 2 THEN comm_in_prog[r]["lx"] ELSE ~ valid[r][vs[1]]

\* finish_communicating_*_borders
Finish(r, t) ==
  /\ pc[r][t] = "finish"
  /\ Goto(r, t, IF nparal_dir > 0 /\ Busy(r, op(r, t).vs) THEN "wait"
                ELSE IF op(r, t).kind = "read" THEN "loop" ELSE "next")
  /\ UNCHANGED <<env, where, data, valid, bufs, comm_in_prog, net>>

\* The data a message carries.
Contents(r, m) == IF m.taken THEN m.piece ELSE send_buf[r][m.half]

\* comm_wait up to its barrier: the master waits until everything has arrived,
\* and until its messages have left or are buffered.
Wait(r, t) ==
  /\ pc[r][t] = "wait"
  /\ LET c == Comm(op(r, t))
         Leave(q) == [i \in DOMAIN q |->
                        [half |-> q[i].half, piece |-> Contents(r, q[i]), taken |-> TRUE]]
     IN IF t = 0 /\ comm_in_prog[r][c]
          THEN /\ \A s \in Ranks : recvs[r][s][c] = <<>>
               /\ \A s \in Ranks : buffering \/ sends[r][s][c] = <<>>
               /\ sends' = [sends EXCEPT ![r] = [s \in Ranks |-> [d \in Comms |->
                              IF d = c THEN Leave(@[s][d]) ELSE @[s][d]]]]
          ELSE UNCHANGED sends
  /\ Goto(r, t, "waited")
  /\ UNCHANGED <<env, where, data, valid, bufs, comm_in_prog, recvs>>

\* The end of comm_wait and fill_*_bord_with_receiving_buf: the master copies
\* the border of one vector, all threads those of a pair.
Unpack(r, t) ==
  /\ pc[r][t] = "unpack"
  /\ LET vs == op(r, t).vs
         mine == IF Len(vs) = 2 THEN Chunk(t) ELSE IF t = 0 THEN Halves ELSE {}
     IN /\ halo' = [halo EXCEPT ![r] = [v \in Vects |-> [h \in Halves |->
              IF v \in ToSet(vs) /\ h \in mine THEN recv_buf[r][h] ELSE @[v][h]]]]
        /\ comm_in_prog' = [comm_in_prog EXCEPT ![r][Comm(op(r, t))] = FALSE]
  /\ Goto(r, t, "flag")
  /\ UNCHANGED <<env, where, surf, valid, bufs, net>>

\* set_borders_valid and set_borders_invalid on the vectors one by one:
\* nothing to write if the flag has its value.
Flag(r, t) ==
  /\ pc[r][t] = "flag"
  /\ LET o == op(r, t) IN
     Goto(r, t, IF valid[r][o.vs[at[r][t]]] = (o.kind # "update")
                THEN "flag2" ELSE "flag1")
  /\ UNCHANGED <<env, where, data, valid, bufs, comm_in_prog, net>>

SetFlag(r, t) ==
  /\ pc[r][t] = "setflag"
  /\ LET o == op(r, t) IN
     valid' = [valid EXCEPT ![r][o.vs[at[r][t]]] = (o.kind # "update")]
  /\ Goto(r, t, "flag2")
  /\ UNCHANGED <<env, where, data, bufs, comm_in_prog, net>>

\* The loop that uses the borders, up to the barrier that follows it.
Loop(r, t) ==
  /\ pc[r][t] = "loop"
  /\ Goto(r, t, "looped")
  /\ UNCHANGED <<env, where, data, valid, bufs, comm_in_prog, net>>

-----------------------------------------------------------------------------
\* The first message meets the first receive.
Deliver(r, s, c) ==
  /\ sends[r][s][c] # <<>> /\ recvs[s][r][c] # <<>>
  /\ recv_buf' = [recv_buf EXCEPT ![s][Head(recvs[s][r][c])] =
                     Contents(r, Head(sends[r][s][c]))]
  /\ sends' = [sends EXCEPT ![r][s][c] = Tail(@)]
  /\ recvs' = [recvs EXCEPT ![s][r][c] = Tail(@)]
  /\ UNCHANGED <<env, where, pc, data, valid, send_buf, comm_in_prog>>

-----------------------------------------------------------------------------
Advance(r, t) ==
  \/ Call(r, t) \/ Exit(r, t) \/ Write(r, t) \/ Start(r, t) \/ Fill(r, t)
  \/ Post(r, t) \/ Finish(r, t) \/ Wait(r, t) \/ Unpack(r, t) \/ Flag(r, t)
  \/ SetFlag(r, t) \/ Loop(r, t)

Transport == \E r, s \in Ranks, c \in Comms : Deliver(r, s, c)

Progress ==
  \/ \E r \in Ranks : Barrier(r) \/ \E t \in Threads : Advance(r, t)
  \/ Transport

Over == \A r \in Ranks, t \in Threads : pc[r][t] = "exit"

Terminated == Over /\ UNCHANGED vars

Next == Progress \/ Terminated

Spec == Init /\ [][Next]_vars

\* Whenever some thread or message can move, one does.
FairSpec == Spec /\ WF_vars(Progress)

-----------------------------------------------------------------------------
\* The type invariant: every variable has its type, and a thread inside an
\* operation is at one of its vectors.
TypeOK ==
  /\ [nranks |-> nranks, nthreads |-> nthreads, buffering |-> buffering,
      nops |-> nops] \in Layouts
  /\ prog \in Seq(Ops) /\ Len(prog) <= nops
  /\ ip \in [Ranks -> [Threads -> 0 .. nops]]
  /\ pc \in [Ranks -> [Threads -> PCs]]
  /\ \A r \in Ranks, t \in Threads :
       pc[r][t] \notin {"next", "exit"} => at[r][t] \in DOMAIN op(r, t).vs

\* A loop that uses the border of a vector finds in it what the neighbours
\* have in the facing half of their surface at that point of the program, and
\* its own rank's part as every thread has computed it.
LoopSeesFreshBorders ==
  \A r \in Ranks, t \in Threads : pc[r][t] = "loop" /\ nparal_dir > 0 =>
    LET o == op(r, t) IN
    \A i \in DOMAIN o.vs, h \in Halves :
      LET v == o.vs[i]
          p == halo[r][v][h]
      IN /\ surf[r][v][h] = Version(v, ip[r][t])
         /\ p.from = rank_neigh(r, h) /\ p.half = 1 - h
         /\ v \in DOMAIN p.ver /\ p.ver[v] = Version(v, ip[r][t])

\* send_buf keeps its contents until MPI has taken them: no communication
\* overwrites the messages of another one, or of the one before.
SendBufHeld ==
  [][\A r, s \in Ranks, c \in Comms : \A i \in DOMAIN sends[r][s][c] :
       ~ sends[r][s][c][i].taken =>
          send_buf'[r][sends[r][s][c][i].half] =
            send_buf[r][sends[r][s][c][i].half]]_vars

\* A border is unpacked only when all of it has arrived: no receive of the rank
\* is pending, on any communicator.
UnpackComplete ==
  \A r \in Ranks, t \in Threads : pc[r][t] = "unpack" =>
    \A s \in Ranks, c \in Comms : recvs[r][s][c] = <<>>

\* Ranks and threads never wait for one another forever: they all decide alike
\* whether to communicate, and every message meets its receive.
ProgramEnds == <>Over

=============================================================================
