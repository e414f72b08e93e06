--------------------------- MODULE VectorsProofs ---------------------------
(***************************************************************************)
(* Proofs about Vectors, for any number of threads, slots, addresses and   *)
(* operations.                                                             *)
(*                                                                         *)
(* The argument: between two barriers the threads of the team can be apart *)
(* by loops only, so that when one is past the first barrier of an         *)
(* operation all of them are (Together), and an operation that is not a    *)
(* loop is the last one of the program so far (Ahead).   Hence the slots   *)
(* that the program holds are the same vectors for all threads (Held), the *)
(* master appends and detaches vectors while nobody is at work, and the    *)
(* outcome of a test of a flag holds until all have made it (Flags).       *)
(*                                                                         *)
(* The second part shows the linked list to implement VectorList.  There   *)
(* is always a sequence of which the links are the order and required_     *)
(* memory the total (Listed); malloc appends to it and free removes from   *)
(* it.  That Walk, a recursive function, gives this sequence, and that the *)
(* total, a fold, is the sum of the parts, is shown by induction: a set of *)
(* numbers has a smallest one.                                             *)
(***************************************************************************)
EXTENDS Vectors, FiniteSetTheorems, SequenceTheorems, WellFoundedInduction, TLAPS

\* Past the first barrier of an operation; v2 may be either.
Later == {"take", "m2", "detach", "f2", "memset", "r2", "copying", "c2",
          "setflag"}

Using == {"free", "reset", "loop", "flag", "copy"}

\* Where a thread is goes with the operation it is at.
Phases ==
  /\ \A t \in Threads : pc[t] = "pool" <=> t \notin Team
  /\ \A t \in Threads : pc[t] \in {"alloc", "detach", "memset"} => t = Master
  /\ \A t \in Team :
       /\ ip[t] <= nops + 1
       /\ pc[t] # "next" => ip[t] <= nops
       /\ pc[t] = "loop" => op(t).kind = "loop"
       /\ pc[t] \in {"alloc", "m1", "take", "m2"} => op(t).kind = "malloc"
       /\ pc[t] \in {"f1", "detach", "f2"} => op(t).kind = "free"
       /\ pc[t] \in {"r1", "memset", "r2"} => op(t).kind = "reset"
       /\ pc[t] \in {"c1", "copying", "c2"} => op(t).kind = "copy"
       /\ pc[t] \in {"test", "v1", "setflag", "v2"} => op(t).kind = "flag"
       /\ pc[t] = "e1" => op(t).kind = "end"

\* The threads of the team are between the same two barriers.
Together ==
  \A t, u \in Team :
    /\ ip[t] < ip[u] => /\ pc[u] \notin Later
                        /\ \A i \in ip[t] .. ip[u] - 1 : prog[i].kind = "loop"
    /\ ip[t] = ip[u] /\ pc[u] \in Later => pc[t] \in Later \cup {"v2"}

\* What is left of the program: loops, and one operation that it may do with
\* what it holds.
Ahead ==
  \A t \in Team, i \in 1 .. nops : ip[t] <= i =>
    /\ prog[i].kind # "loop" => i = nops
    /\ prog[i].kind = "begin" => thread_pool_locked
    /\ prog[i].kind = "end" => ~ thread_pool_locked
    /\ prog[i].kind = "malloc" => prog[i].s \notin owned
    /\ prog[i].kind \in Using /\ ~ (ip[t] = i /\ pc[t] = "f2") => prog[i].s \in owned
    /\ prog[i].kind = "copy" => prog[i].from \in owned

\* What the program holds, and what the threads have of it.
Held ==
  /\ \A s \in owned : /\ var[Master][s] \in live
                      /\ \A t \in Team : var[t][s] = var[Master][s]
                      /\ \A r \in owned : var[Master][r] = var[Master][s] => r = s
  /\ pc[Master] \in {"m1", "take", "m2"} =>
       /\ return_malloc_ptr \in live
       /\ \A s \in owned : var[Master][s] # return_malloc_ptr
  /\ \A t \in Team : pc[t] = "m2" => var[t][op(t).s] = return_malloc_ptr

\* What a thread has found of a flag holds while it waits.
Flags ==
  \A t \in Team :
    /\ pc[t] = "v1" => flag[var[t][op(t).s]] # op(t).to
    /\ pc[t] = "v2" => flag[var[t][op(t).s]] = op(t).to

IInv == TypeOK /\ Phases /\ Together /\ Ahead /\ Held /\ Flags /\ ListLinked

USE VectorsAssumption

-----------------------------------------------------------------------------
\* What an operation of each kind has.
LEMMA OpFields ==
  ASSUME NEW o \in Ops
  PROVE  /\ o.kind \in {"begin", "end", "malloc"} \cup Using
         /\ o.kind \in {"malloc"} \cup Using => o.s \in Slots
         /\ o.kind = "malloc" => o.nel \in Sizes
         /\ o.kind = "copy" => o.from \in Slots
         /\ o.kind = "flag" => o.to \in BOOLEAN
BY DEF Ops, Using

\* The operation a thread is at, unless the program has not got there.
LEMMA OpInOps ==
  ASSUME TypeOK, NEW t \in Threads, ip[t] <= nops
  PROVE  ip[t] \in 1 .. MaxOps /\ op(t) \in Ops
BY DEF TypeOK, op

\* What the program may do with the operation a thread is at.
LEMMA OpAhead ==
  ASSUME TypeOK, Ahead, NEW t \in Team, ip[t] <= nops
  PROVE  /\ op(t).kind # "loop" => ip[t] = nops
         /\ op(t).kind = "begin" => thread_pool_locked
         /\ op(t).kind = "end" => ~ thread_pool_locked
         /\ op(t).kind = "malloc" => op(t).s \notin owned
         /\ op(t).kind \in Using /\ pc[t] # "f2" => op(t).s \in owned
         /\ op(t).kind = "copy" => op(t).from \in owned
<1>1. ip[t] \in 1 .. nops
  BY DEF TypeOK, Team
<1> QED BY <1>1 DEF Ahead, op

\* The master is in every team.
LEMMA MasterInTeam == Master \in Team /\ Team \subseteq Threads
BY DEF Team

\* When a thread is past the first barrier of an operation all of them are.
LEMMA LaterTogether ==
  ASSUME TypeOK, Phases, Together,
         NEW t \in Team, pc[t] \in Later, NEW u \in Team
  PROVE  ip[u] = ip[t] /\ pc[u] \in Later \cup {"v2"}
<1>1. ip[t] \in Nat /\ ip[u] \in Nat /\ nops \in Nat
  BY MasterInTeam DEF TypeOK
<1>2. ip[t] <= nops /\ op(t).kind # "loop"
  BY MasterInTeam DEF Phases, Later
<1>3. ~ (ip[u] < ip[t])
  BY DEF Together
<1>4. ~ (ip[t] < ip[u])
  <2>1. SUFFICES ASSUME ip[t] < ip[u] PROVE FALSE
    OBVIOUS
  <2>2. ip[t] \in ip[t] .. ip[u] - 1
    BY <1>1, <2>1
  <2>3. prog[ip[t]].kind = "loop"
    BY <2>1, <2>2 DEF Together
  <2> QED BY <1>2, <2>3 DEF op
<1> QED BY <1>1, <1>3, <1>4 DEF Together

\* When the whole team waits it waits at one barrier.
LEMMA AllAtOneBarrier ==
  ASSUME IInv, \A t \in Team : pc[t] \in Waiting, NEW t \in Team, NEW u \in Team
  PROVE  ip[t] = ip[u] /\ pc[t] = pc[u]
<1>1. /\ ip[t] \in Nat /\ ip[u] \in Nat
      /\ pc[t] \in Waiting /\ pc[u] \in Waiting
      /\ ip[t] <= nops /\ ip[u] <= nops
  BY MasterInTeam DEF IInv, TypeOK, Phases, Waiting
<1>2. op(t).kind # "loop" /\ op(u).kind # "loop"
  BY <1>1 DEF IInv, Phases, Waiting
<1>3. ip[t] = nops /\ ip[u] = nops
  BY <1>1, <1>2, OpAhead DEF IInv
<1>4. op(t) = op(u)
  BY <1>3 DEF op
<1>5. CASE op(t).kind = "flag"
  <2>1. pc[t] \in {"v1", "v2"} /\ pc[u] \in {"v1", "v2"}
    BY <1>1, <1>4, <1>5 DEF IInv, Phases, Waiting
  <2>2. op(t).s \in owned /\ op(u).s \in owned
    BY <1>1, <1>4, <1>5, <2>1, OpAhead DEF IInv, Using
  <2>3. var[t][op(t).s] = var[u][op(u).s]
    BY <1>4, <2>2 DEF IInv, Held
  <2> QED BY <1>3, <1>4, <2>1, <2>3 DEF IInv, Flags
<1>6. CASE op(t).kind # "flag"
  <2>1. pc[t] # "v2" /\ pc[u] # "v2" /\ pc[t] # "v1" /\ pc[u] # "v1"
    BY <1>4, <1>6 DEF IInv, Phases
  <2>2. pc[t] \in Later <=> pc[u] \in Later
    BY <1>3, <2>1 DEF IInv, Together
  <2> QED BY <1>1, <1>3, <1>4, <1>6, <2>1, <2>2 DEF IInv, Phases, Waiting, Later
<1> QED BY <1>5, <1>6

-----------------------------------------------------------------------------
\* The invariant holds at the start.
LEMMA InitIInv == Init => IInv
<1> SUFFICES ASSUME Init PROVE IInv
  OBVIOUS
<1>1. TypeOK
  BY DEF Init, TypeOK, PCs, Working, Waiting, NoOp
<1>2. Team = {Master}
  BY DEF Init, Team
<1>3. Phases
  BY <1>2 DEF Init, Phases
<1>4. Together
  BY <1>2 DEF Init, Together, Later
<1>5. Held /\ Ahead
  BY <1>2 DEF Init, Held, Ahead
<1>6. Flags
  BY <1>2 DEF Init, Flags
<1>7. ListLinked
  BY DEF Init, ListLinked
<1> QED BY <1>1, <1>3, <1>4, <1>5, <1>6, <1>7 DEF IInv

\* The next operation of the program is one it may do with what it holds, and
\* all before it that is not done are loops.
LEMMA ChooseStep == IInv /\ Choose => IInv'
<1> SUFFICES ASSUME IInv, Choose PROVE IInv'
  OBVIOUS
<1>0. PICK w \in Team : pc[w] = "next" /\ ip[w] = nops + 1
  BY DEF Choose
<1>1. PICK o \in Ops : Legal(o) /\ prog' = [prog EXCEPT ![nops + 1] = o]
  BY DEF Choose
<1>2. /\ nops < MaxOps /\ nops' = nops + 1 /\ nops \in 0 .. MaxOps
      /\ Team' = Team
      /\ UNCHANGED <<thread_pool_locked, ip, pc, var, list, return_malloc_ptr,
                     flag, owned>>
  BY DEF Choose, IInv, TypeOK, Team
<1>3. /\ prog'[nops + 1] = o
      /\ \A i \in 1 .. MaxOps : i # nops + 1 => prog'[i] = prog[i]
  BY <1>1, <1>2 DEF IInv, TypeOK
<1>4. TypeOK'
  <2>1. prog' \in [1 .. MaxOps -> Ops \cup {NoOp}]
    BY <1>1, <1>2 DEF IInv, TypeOK
  <2>2. nops' \in 0 .. MaxOps /\ \A i \in 1 .. nops' : prog'[i] \in Ops
    BY <1>2, <1>3 DEF IInv, TypeOK
  <2> QED BY <1>2, <2>1, <2>2 DEF IInv, TypeOK, list
\* Every other thread is in a loop before the new operation, or about to begin
\* the operation.
<1>5. ASSUME NEW t \in Team
      PROVE  \/ ip[t] = nops + 1 /\ pc[t] = "next"
             \/ /\ ip[t] <= nops /\ ip[t] \in 1 .. MaxOps
                /\ prog'[ip[t]] = prog[ip[t]]
                /\ op(t).kind = "loop"
  <2>1. t \in Threads /\ ip[t] \in 1 .. MaxOps + 1 /\ ip[t] <= nops + 1
    BY <1>5, MasterInTeam DEF IInv, TypeOK, Phases
  <2>2. CASE ip[t] = nops + 1
    BY <1>2, <1>5, <2>1, <2>2 DEF IInv, Phases
  <2>3. CASE ip[t] <= nops
    <3>1. ip[t] \in ip[t] .. ip[w] - 1 /\ ip[t] < ip[w]
      BY <1>0, <1>2, <2>1, <2>3
    <3> QED BY <1>2, <1>3, <2>1, <2>3, <3>1 DEF IInv, Together, op
  <2> QED BY <1>2, <2>1, <2>2, <2>3
<1>6. Phases'
  <2>2. \A t \in Team : ip[t] <= nops => op(t)' = op(t)
    BY <1>2, <1>5 DEF op
  <2>5. \A t \in Team : pc[t] # "next" => ip[t] <= nops
    BY DEF IInv, Phases
  <2> QED BY <1>2, <1>5, <2>2, <2>5 DEF IInv, Phases
<1>7. Together'
  <2>1. ASSUME NEW t \in Team, NEW u \in Team, ip[t] < ip[u]
        PROVE /\ pc[u] \notin Later
              /\ \A i \in ip[t] .. ip[u] - 1 : prog'[i].kind = "loop"
    <3>1. ip[t] \in 1 .. MaxOps + 1 /\ ip[u] \in 1 .. MaxOps + 1 /\ ip[u] <= nops + 1
      BY <2>1, MasterInTeam DEF IInv, TypeOK, Phases
    <3>2. \A i \in ip[t] .. ip[u] - 1 : prog'[i] = prog[i]
      BY <1>2, <1>3, <3>1
    <3> QED BY <2>1, <3>2 DEF IInv, Together
  <2> QED BY <1>2, <2>1 DEF IInv, Together
<1>8. Ahead'
  <2>1. /\ o.kind = "malloc" => o.s \notin owned
        /\ o.kind \in Using => o.s \in owned
        /\ o.kind = "copy" => o.from \in owned
        /\ o.kind = "begin" => thread_pool_locked
        /\ o.kind = "end" => ~ thread_pool_locked
    BY <1>1 DEF Legal, Using
  <2>2. ASSUME NEW t \in Team, NEW i \in 1 .. nops, ip[t] <= i
        PROVE  prog[i].kind = "loop" /\ prog'[i] = prog[i]
    <3>1. ip[t] \in 1 .. MaxOps + 1
      BY MasterInTeam DEF IInv, TypeOK
    <3>2. ip[t] < ip[w] /\ i \in ip[t] .. ip[w] - 1
      BY <1>0, <1>2, <2>2, <3>1
    <3> QED BY <1>2, <1>3, <2>2, <3>2 DEF IInv, Together
  <2>3. ASSUME NEW t \in Team, NEW i \in 1 .. nops + 1, ip[t] <= i
        PROVE  \/ i = nops + 1 /\ prog'[i] = o
               \/ i <= nops /\ prog'[i].kind = "loop" /\ prog'[i] = prog[i]
    BY <1>2, <1>3, <2>2, <2>3
  <2>4. \A t \in Team, i \in 1 .. nops : ip[t] <= i /\ ~ (ip[t] = i /\ pc[t] = "f2")
           /\ prog[i].kind = "loop" => prog[i].s \in owned
    BY DEF IInv, Ahead, Using
  <2>5. \A t \in Team : pc[t] = "f2" => op(t).kind = "free" /\ ip[t] <= nops
    BY DEF IInv, Phases
  <2>6. ASSUME NEW t \in Team, NEW i \in 1 .. nops + 1, ip[t] <= i
        PROVE  /\ prog'[i].kind # "loop" => i = nops + 1
               /\ prog'[i].kind = "begin" => thread_pool_locked
               /\ prog'[i].kind = "end" => ~ thread_pool_locked
               /\ prog'[i].kind = "malloc" => prog'[i].s \notin owned
               /\ prog'[i].kind \in Using /\ ~ (ip[t] = i /\ pc[t] = "f2") => prog'[i].s \in owned
               /\ prog'[i].kind = "copy" => prog'[i].from \in owned
    BY <2>1, <2>3, <2>4, <2>6
  <2> QED BY <1>2, <2>6 DEF Ahead
<1>8a. Held'
  <2>1. \A t \in Team : pc[t] = "m2" => op(t)' = op(t)
    BY <1>2, <1>5 DEF op
  <2> QED BY <1>2, <2>1 DEF IInv, Held, list
<1>9. Flags'
  <2>1. \A t \in Team : pc[t] \in {"v1", "v2"} => op(t)' = op(t)
    BY <1>2, <1>5 DEF op
  <2> QED BY <1>2, <2>1 DEF IInv, Flags
<1>10. ListLinked'
  BY <1>2 DEF IInv, ListLinked, list
<1> QED BY <1>4, <1>6, <1>7, <1>8, <1>8a, <1>9, <1>10 DEF IInv

-----------------------------------------------------------------------------
\* What each action leaves of the thread that does it.
LEMMA BeginStep == ASSUME IInv, NEW th \in Threads, Begin(th) PROVE IInv'
<1>1. /\ th \in Team /\ pc[th] = "next" /\ ip[th] <= nops
      /\ op(th).kind # "begin"
      /\ pc' = [pc EXCEPT ![th] = Entry(th)]
      /\ Team' = Team /\ op(th) \in Ops
      /\ UNCHANGED <<prog, nops, thread_pool_locked, ip, var, list,
                     return_malloc_ptr, flag, owned>>
  BY OpInOps DEF Begin, Team, IInv
<1>2. \/ op(th).kind = "malloc" /\ Entry(th) = IF th = Master THEN "alloc" ELSE "m1"
      \/ op(th).kind = "free" /\ Entry(th) = "f1"
      \/ op(th).kind = "reset" /\ Entry(th) = "r1"
      \/ op(th).kind = "copy" /\ Entry(th) = "c1"
      \/ op(th).kind = "flag" /\ Entry(th) = "test"
      \/ op(th).kind = "loop" /\ Entry(th) = "loop"
      \/ op(th).kind = "end" /\ Entry(th) = "e1"
  BY <1>1, OpFields DEF Entry, Using
<1>3. /\ pc' \in [Threads -> PCs]
      /\ pc'[th] = Entry(th)
      /\ \A t \in Threads : t # th => pc'[t] = pc[t]
      /\ Entry(th) \notin Later \cup {"v2", "v1", "m2", "pool", "f2", "take"}
      /\ th = Master => Entry(th) # "m1"
  BY <1>1, <1>2 DEF IInv, TypeOK, PCs, Working, Waiting, Later
<1>4. \A t \in Threads : op(t)' = op(t)
  BY <1>1 DEF op
<1>5. TypeOK'
  BY <1>1, <1>3 DEF IInv, TypeOK, list
<1>6. Phases'
  <2>1. \A t \in Threads : pc'[t] = "pool" <=> t \notin Team
    BY <1>1, <1>3 DEF IInv, Phases
  <2>2. \A t \in Threads : pc'[t] \in {"alloc", "detach", "memset"} => t = Master
    BY <1>1, <1>2, <1>3 DEF IInv, Phases
  <2> QED BY <1>1, <1>2, <1>3, <1>4, <2>1, <2>2, MasterInTeam DEF IInv, Phases
<1>7. Together'
  <2>1. \A u \in Team : pc[u] \in Later => u # th
    BY <1>1 DEF Later
  <2>2. \A u \in Team : ip[th] = ip[u] => pc[u] \notin Later
    <3>1. SUFFICES ASSUME NEW u \in Team, pc[u] \in Later PROVE FALSE
      OBVIOUS
    <3> QED BY <1>1, <3>1, LaterTogether DEF IInv, Later
  <2>3. ASSUME NEW t \in Team, NEW u \in Team
        PROVE /\ ip[t] < ip[u] => /\ pc'[u] \notin Later
                                  /\ \A i \in ip[t] .. ip[u] - 1 : prog[i].kind = "loop"
              /\ ip[t] = ip[u] /\ pc'[u] \in Later => pc'[t] \in Later \cup {"v2"}
    BY <1>3, <2>2, <2>3, MasterInTeam DEF IInv, Together
  <2> QED BY <1>1, <2>3 DEF Together
<1>8. Ahead'
  <2>1. \A t \in Team : pc[t] = "f2" => pc'[t] = "f2"
    BY <1>1, <1>3, MasterInTeam
  <2> QED BY <1>1, <2>1 DEF IInv, Ahead
<1>8a. Held'
  <2>1. pc'[Master] \in {"m1", "take", "m2"} => pc[Master] \in {"m1", "take", "m2"}
    BY <1>3, MasterInTeam
  <2>2. \A t \in Team : pc'[t] = "m2" => pc[t] = "m2"
    BY <1>3, MasterInTeam
  <2> QED BY <1>1, <1>4, <2>1, <2>2, MasterInTeam DEF IInv, Held, list
<1>9. Flags'
  <2>1. \A t \in Team : pc'[t] \in {"v1", "v2"} => pc[t] = pc'[t]
    BY <1>3, MasterInTeam
  <2> QED BY <1>1, <1>4, <2>1, MasterInTeam DEF IInv, Flags
<1>10. ListLinked'
  BY <1>1 DEF IInv, ListLinked, list
<1> QED BY <1>5, <1>6, <1>7, <1>8, <1>8a, <1>9, <1>10 DEF IInv

\* A parallel section begins with all threads where the master is.
LEMMA ForkStep == IInv /\ Fork => IInv'
<1> SUFFICES ASSUME IInv, Fork PROVE IInv'
  OBVIOUS
<1>1. /\ pc[Master] = "next" /\ ip[Master] <= nops
      /\ op(Master).kind = "begin"
      /\ thread_pool_locked' = FALSE
      /\ ip' = [t \in Threads |-> ip[Master] + 1]
      /\ pc' = [t \in Threads |-> "next"]
      /\ var' = [t \in Threads |-> var[Master]]
      /\ Team' = Threads
      /\ UNCHANGED <<prog, nops, list, return_malloc_ptr, flag, owned>>
  BY DEF Fork, Team
<1>2. ip[Master] = nops /\ nops \in 1 .. MaxOps /\ thread_pool_locked
  BY <1>1, MasterInTeam, OpAhead DEF IInv, TypeOK
<1>3. \A t \in Threads : ip'[t] = nops + 1 /\ pc'[t] = "next"
  BY <1>1, <1>2
<1>4. TypeOK'
  <2>1. var' \in [Threads -> [Slots -> Addrs \cup {Null}]]
    BY <1>1, MasterInTeam DEF IInv, TypeOK
  <2>2. ip' \in [Threads -> 1 .. MaxOps + 1]
    BY <1>1, <1>2 DEF IInv, TypeOK
  <2>3. pc' \in [Threads -> PCs]
    BY <1>1 DEF PCs
  <2> QED BY <1>1, <2>1, <2>2, <2>3 DEF IInv, TypeOK, list
<1>5. Phases'
  BY <1>1, <1>2, <1>3 DEF Phases
<1>6. Together'
  BY <1>1, <1>2, <1>3 DEF Together, Later
<1>7. Ahead'
  BY <1>1, <1>2, <1>3 DEF Ahead
<1>8. Held'
  BY <1>1, <1>2, <1>3, MasterInTeam DEF IInv, Held, list
<1>9. Flags'
  BY <1>1, <1>3 DEF Flags
<1>10. ListLinked'
  BY <1>1 DEF IInv, ListLinked, list
<1> QED BY <1>4, <1>5, <1>6, <1>7, <1>8, <1>9, <1>10 DEF IInv

\* A thread that leaves a loop may be ahead of the others, by loops only.
LEMMA LoopStep == ASSUME IInv, NEW th \in Threads, Loop(th) PROVE IInv'
<1>1. /\ pc[th] = "loop"
      /\ pc' = [pc EXCEPT ![th] = "next"]
      /\ ip' = [ip EXCEPT ![th] = @ + 1]
      /\ Team' = Team
      /\ UNCHANGED <<prog, nops, thread_pool_locked, var, list,
                     return_malloc_ptr, flag, owned>>
  BY DEF Loop, Team
<1>2. /\ th \in Team /\ op(th).kind = "loop" /\ ip[th] <= nops
      /\ ip[th] \in 1 .. MaxOps /\ nops \in 0 .. MaxOps
  BY <1>1, MasterInTeam DEF IInv, Phases, TypeOK
<1>3. /\ pc'[th] = "next" /\ ip'[th] = ip[th] + 1
      /\ \A t \in Threads : t # th => pc'[t] = pc[t] /\ ip'[t] = ip[t] /\ op(t)' = op(t)
      /\ pc' \in [Threads -> PCs] /\ ip' \in [Threads -> 1 .. MaxOps + 1]
  BY <1>1, <1>2 DEF IInv, TypeOK, op, PCs
<1>4. TypeOK'
  BY <1>1, <1>3 DEF IInv, TypeOK, list
\* Nobody is past the first barrier of an operation.
<1>5. \A u \in Team : pc[u] \notin Later
  <2>1. SUFFICES ASSUME NEW u \in Team, pc[u] \in Later PROVE FALSE
    OBVIOUS
  <2> QED BY <1>1, <1>2, <2>1, LaterTogether DEF IInv, Later
<1>7. Phases'
  <2>1. ip'[th] <= nops + 1
    BY <1>2, <1>3
  <2> QED BY <1>1, <1>2, <1>3, <2>1, MasterInTeam DEF IInv, Phases
<1>8. Together'
  <2>1. \A u \in Team : pc'[u] \notin Later
    BY <1>3, <1>5, MasterInTeam DEF Later
  <2>2. ASSUME NEW t \in Team, NEW u \in Team, ip'[t] < ip'[u],
               NEW i \in ip'[t] .. ip'[u] - 1
        PROVE  prog[i].kind = "loop"
    <3>1. ip[t] \in 1 .. MaxOps + 1 /\ ip[u] \in 1 .. MaxOps + 1
      BY MasterInTeam DEF IInv, TypeOK
    <3>2. prog[ip[th]].kind = "loop"
      BY <1>2 DEF op
    <3>3. i = ip[th] \/ i \in ip[t] .. ip[u] - 1
      BY <1>2, <1>3, <2>2, <3>1, MasterInTeam
    <3>4. i \in ip[t] .. ip[u] - 1 => ip[t] < ip[u]
      BY <3>1
    <3> QED BY <3>2, <3>3, <3>4 DEF IInv, Together
  <2> QED BY <1>1, <2>1, <2>2 DEF Together
<1>9. Ahead'
  <2>1. \A t \in Team, i \in 1 .. nops : ip'[t] <= i => ip[t] <= i
    BY <1>2, <1>3, MasterInTeam
  <2>2. \A t \in Team, i \in 1 .. nops :
          ip'[t] <= i /\ ~ (ip'[t] = i /\ pc'[t] = "f2") => ~ (ip[t] = i /\ pc[t] = "f2")
    BY <1>1, <1>2, <1>3, MasterInTeam
  <2> QED BY <1>1, <2>1, <2>2 DEF IInv, Ahead
<1>9a. Held'
  BY <1>1, <1>2, <1>3, MasterInTeam DEF IInv, Held, list
<1>10. Flags'
  BY <1>1, <1>2, <1>3, MasterInTeam DEF IInv, Flags
<1>11. ListLinked'
  BY <1>1 DEF IInv, ListLinked, list
<1> QED BY <1>4, <1>7, <1>8, <1>9, <1>9a, <1>10, <1>11 DEF IInv

\* An action of a thread within an operation, of which pc alone matters.
LEMMA WithinOp ==
  ASSUME IInv, NEW th \in Team, NEW l \in PCs,
         pc' = [pc EXCEPT ![th] = l],
         UNCHANGED <<prog, nops, thread_pool_locked, ip>>,
         \/ pc[th] = "alloc" /\ l = "m1"
         \/ pc[th] = "take" /\ l = "m2"
         \/ pc[th] = "detach" /\ l = "f2"
         \/ pc[th] = "memset" /\ l = "r2"
         \/ pc[th] = "copying" /\ l = "c2"
         \/ pc[th] = "test" /\ l \in {"v1", "v2"}
         \/ pc[th] = "setflag" /\ l = "v2"
  PROVE  /\ Team' = Team /\ pc' \in [Threads -> PCs]
         /\ th \in Threads /\ pc'[th] = l
         /\ \A t \in Threads : op(t)' = op(t)
         /\ \A t \in Threads : t # th => pc'[t] = pc[t]
         /\ Phases' /\ Together'
<1>1. Team' = Team /\ th \in Threads /\ pc' \in [Threads -> PCs] /\ pc'[th] = l
  BY MasterInTeam DEF IInv, TypeOK, Team
<1>2. \A t \in Threads : op(t)' = op(t)
  BY DEF op
<1>3. \A t \in Threads : t # th => pc'[t] = pc[t]
  BY DEF IInv, TypeOK
<1>4. Phases'
  BY <1>1, <1>2, <1>3, MasterInTeam DEF IInv, Phases
<1>5. l \in Later => pc[th] \in Later
  BY DEF Later
<1>6. pc[th] \in Later => l \in Later \cup {"v2"}
  BY DEF Later
<1>7. \A u \in Team : pc[u] \in Later /\ ip[u] = ip[th] => pc[th] \in Later
  <2>1. SUFFICES ASSUME NEW u \in Team, pc[u] \in Later PROVE pc[th] \in Later
    OBVIOUS
  <2> QED BY <2>1, LaterTogether DEF IInv, Later
<1>8. Together'
  <2>1. ASSUME NEW t \in Team, NEW u \in Team, ip[t] < ip[u]
        PROVE  pc'[u] \notin Later
    BY <1>1, <1>3, <1>5, <2>1, MasterInTeam DEF IInv, Together
  <2>2. ASSUME NEW t \in Team, NEW u \in Team, ip[t] = ip[u], pc'[u] \in Later
        PROVE  pc'[t] \in Later \cup {"v2"}
    BY <1>1, <1>3, <1>5, <1>6, <1>7, <2>2, MasterInTeam DEF IInv, Together
  <2> QED BY <1>1, <2>1, <2>2 DEF IInv, Together
<1> QED BY <1>1, <1>2, <1>3, <1>4, <1>8

\* The vector of an operation that uses one is one of those held.
LEMMA UsesHeld ==
  ASSUME IInv, NEW t \in Team, ip[t] <= nops, op(t).kind \in Using, pc[t] # "f2"
  PROVE  /\ op(t).s \in owned
         /\ var[t][op(t).s] = var[Master][op(t).s]
         /\ var[t][op(t).s] \in live
BY OpAhead DEF IInv, Held

\* The master links a new vector at the end of the list.
LEMMA AllocStep == IInv /\ Alloc => IInv'
<1> SUFFICES ASSUME IInv, Alloc PROVE IInv'
  OBVIOUS
<1>1. PICK nv \in Addrs \ live :
       /\ live' = live \cup {nv}
       /\ size' = [size EXCEPT ![nv] = op(Master).nel]
       /\ next' = [next EXCEPT ![last_vect] = nv, ![nv] = Null]
       /\ prev' = [prev EXCEPT ![nv] = last_vect]
       /\ flag' = [flag EXCEPT ![nv] = FALSE]
       /\ last_vect' = nv
       /\ return_malloc_ptr' = nv
  BY DEF Alloc
<1>2. /\ pc[Master] = "alloc"
      /\ required_memory' = required_memory + op(Master).nel
      /\ max_required_memory' = IF required_memory' > max_required_memory
                                THEN required_memory' ELSE max_required_memory
      /\ pc' = [pc EXCEPT ![Master] = "m1"]
      /\ UNCHANGED <<prog, nops, thread_pool_locked, ip, var, owned>>
  BY DEF Alloc
<1>3. /\ Team' = Team /\ pc' \in [Threads -> PCs] /\ pc'[Master] = "m1"
      /\ \A t \in Threads : op(t)' = op(t)
      /\ \A t \in Threads : t # Master => pc'[t] = pc[t]
      /\ Phases' /\ Together'
  BY <1>2, WithinOp, MasterInTeam DEF PCs, Waiting
<1>4. op(Master) \in Ops /\ op(Master).kind = "malloc" /\ op(Master).nel \in Nat
  BY <1>2, OpInOps, OpFields, MasterInTeam DEF IInv, Phases
<1>5. TypeOK'
  <2>1. required_memory' \in Int /\ max_required_memory' \in Int
    BY <1>2, <1>4 DEF IInv, TypeOK
  <2>2. next' \in [Addrs \cup {MainVect} -> Addrs \cup {Null}]
    BY <1>1 DEF IInv, TypeOK
  <2>3. prev' \in [Addrs \cup {MainVect} -> Addrs \cup {MainVect, Null}]
    BY <1>1 DEF IInv, TypeOK
  <2>4. size' \in [Addrs \cup {MainVect} -> Nat] /\ flag' \in [Addrs -> BOOLEAN]
    BY <1>1, <1>4 DEF IInv, TypeOK
  <2> QED BY <1>1, <1>2, <1>3, <2>1, <2>2, <2>3, <2>4 DEF IInv, TypeOK
<1>6. \A t \in Team : pc[t] \notin Later
  <2>1. SUFFICES ASSUME NEW t \in Team, pc[t] \in Later PROVE FALSE
    OBVIOUS
  <2> QED BY <1>2, <2>1, LaterTogether, MasterInTeam DEF IInv, Later
<1>7. Ahead'
  <2>1. \A t \in Team : pc'[t] = "f2" <=> pc[t] = "f2"
    BY <1>2, <1>3, MasterInTeam
  <2> QED BY <1>2, <1>3, <2>1 DEF IInv, Ahead
<1>8. Held'
  <2>1. \A s \in owned : var[Master][s] \in live
    BY DEF IInv, Held
  <2>2. \A t \in Team : pc'[t] # "m2"
    BY <1>3, <1>6, MasterInTeam DEF Later
  <2> QED BY <1>1, <1>2, <1>3, <2>1, <2>2 DEF IInv, Held
<1>9. Flags'
  <2>1. ASSUME NEW t \in Team, pc'[t] \in {"v1", "v2"}
        PROVE  pc[t] = pc'[t] /\ flag'[var[t][op(t).s]] = flag[var[t][op(t).s]]
    <3>1. pc[t] = pc'[t] /\ t \in Threads
      BY <1>3, <2>1, MasterInTeam
    <3>2. var[t][op(t).s] \in live
      BY <2>1, <3>1, UsesHeld DEF IInv, Phases, Using
    <3>3. flag \in [Addrs -> BOOLEAN] /\ live \subseteq Addrs
      BY DEF IInv, TypeOK
    <3> QED BY <1>1, <3>1, <3>2, <3>3
  <2> QED BY <1>2, <1>3, <2>1, MasterInTeam DEF IInv, Flags
<1>10. ListLinked'
  <2>1. /\ last_vect \in live \cup {MainVect} /\ live \subseteq Addrs
        /\ nv # MainVect /\ nv # Null /\ nv # last_vect /\ nv \in Addrs
    BY <1>1 DEF IInv, TypeOK
  <2>2. /\ next'[nv] = Null /\ next'[last_vect] = nv /\ prev'[nv] = last_vect
        /\ \A a \in Addrs \cup {MainVect} : a \notin {nv, last_vect} => next'[a] = next[a]
        /\ \A a \in Addrs \cup {MainVect} : a # nv => prev'[a] = prev[a]
    BY <1>1, <2>1 DEF IInv, TypeOK
  <2>3. /\ prev[MainVect] = Null /\ next[last_vect] = Null
        /\ \A a \in live \cup {MainVect} :
             /\ next[a] = Null => a = last_vect
             /\ next[a] # Null => next[a] \in live /\ prev[next[a]] = a
        /\ \A a \in live : prev[a] \in live \cup {MainVect} /\ next[prev[a]] = a
    BY DEF IInv, ListLinked
  <2>4. ASSUME NEW a \in live \cup {MainVect, nv}
        PROVE  /\ next'[a] = Null => a = nv
               /\ next'[a] # Null => next'[a] \in live \cup {nv} /\ prev'[next'[a]] = a
    <3>1. CASE a = nv
      BY <2>2, <3>1
    <3>2. CASE a = last_vect
      BY <2>1, <2>2, <3>2
    <3>3. CASE a # nv /\ a # last_vect
      <4>1. a \in live \cup {MainVect} /\ next'[a] = next[a]
        BY <2>1, <2>2, <3>3
      <4>2. next[a] # Null /\ next[a] \in live /\ prev[next[a]] = a
        BY <2>3, <3>3, <4>1
      <4>3. prev'[next[a]] = prev[next[a]]
        BY <1>1, <2>1, <2>2, <4>2
      <4> QED BY <4>1, <4>2, <4>3
    <3> QED BY <3>1, <3>2, <3>3
  <2>5. ASSUME NEW a \in live \cup {nv}
        PROVE  prev'[a] \in live \cup {MainVect, nv} /\ next'[prev'[a]] = a
    <3>1. CASE a = nv
      BY <2>1, <2>2, <3>1
    <3>2. CASE a # nv
      <4>1. a \in live /\ a \in Addrs
        BY <2>1, <2>5, <3>2
      <4>2. /\ prev'[a] = prev[a] /\ prev[a] \in live \cup {MainVect}
            /\ next[prev[a]] = a
        BY <2>2, <2>3, <3>2, <4>1
      <4>3. prev[a] # last_vect /\ prev[a] # nv
        BY <1>1, <2>1, <2>3, <4>1, <4>2
      <4>4. next'[prev[a]] = next[prev[a]]
        BY <2>1, <2>2, <4>2, <4>3
      <4> QED BY <4>2, <4>4
    <3> QED BY <3>1, <3>2
  <2>6. prev'[MainVect] = Null
    BY <2>1, <2>2, <2>3
  <2>7. live' = live \cup {nv} /\ last_vect' = nv
    BY <1>1
  <2>8. \A a \in live' \cup {MainVect} :
          /\ next'[a] = Null => a = last_vect'
          /\ next'[a] # Null => next'[a] \in live' /\ prev'[next'[a]] = a
    BY <2>4, <2>7
  <2>9. \A a \in live' : prev'[a] \in live' \cup {MainVect} /\ next'[prev'[a]] = a
    BY <2>5, <2>7
  <2>10. next'[last_vect'] = Null
    BY <2>2, <2>7
  <2> QED BY <2>6, <2>8, <2>9, <2>10 DEF ListLinked
<1> QED BY <1>3, <1>5, <1>7, <1>8, <1>9, <1>10 DEF IInv

\* A thread gets the address that the master has allocated.
LEMMA TakeStep == ASSUME IInv, NEW th \in Threads, Take(th) PROVE IInv'
<1>1. /\ pc[th] = "take"
      /\ var' = [var EXCEPT ![th][op(th).s] = return_malloc_ptr]
      /\ pc' = [pc EXCEPT ![th] = "m2"]
      /\ UNCHANGED <<prog, nops, thread_pool_locked, ip, list,
                     return_malloc_ptr, flag, owned>>
  BY DEF Take
<1>2. /\ th \in Team /\ op(th).kind = "malloc" /\ ip[th] <= nops
      /\ op(th) \in Ops /\ op(th).s \in Slots /\ op(th).s \notin owned
  BY <1>1, OpInOps, OpFields, OpAhead, MasterInTeam DEF IInv, Phases
<1>3. /\ Team' = Team /\ pc' \in [Threads -> PCs] /\ pc'[th] = "m2"
      /\ \A t \in Threads : op(t)' = op(t)
      /\ \A t \in Threads : t # th => pc'[t] = pc[t]
      /\ Phases' /\ Together'
  BY <1>1, <1>2, WithinOp DEF PCs, Waiting
<1>4. /\ var' \in [Threads -> [Slots -> Addrs \cup {Null}]]
      /\ var'[th][op(th).s] = return_malloc_ptr
      /\ \A t \in Threads, s \in Slots : t # th \/ s # op(th).s => var'[t][s] = var[t][s]
  BY <1>1, <1>2 DEF IInv, TypeOK
<1>5. TypeOK'
  BY <1>1, <1>3, <1>4 DEF IInv, TypeOK, list
<1>6. Ahead'
  <2>1. \A t \in Team : pc'[t] = "f2" <=> pc[t] = "f2"
    BY <1>1, <1>3, MasterInTeam
  <2> QED BY <1>1, <1>3, <2>1 DEF IInv, Ahead
<1>7. Held'
  <2>1. \A t \in Threads, s \in owned : var'[t][s] = var[t][s]
    BY <1>2, <1>4 DEF IInv, TypeOK
  <2>2. pc'[Master] \in {"m1", "take", "m2"} => pc[Master] \in {"m1", "take", "m2"}
    BY <1>1, <1>3
  <2>3. ASSUME NEW t \in Team, pc'[t] = "m2"
        PROVE  var'[t][op(t).s] = return_malloc_ptr
    <3>1. CASE t = th
      BY <1>4, <3>1
    <3>2. CASE t # th
      <4>1. pc[t] = "m2" /\ t \in Threads /\ op(t) \in Ops /\ op(t).kind = "malloc"
        BY <1>3, <2>3, <3>2, MasterInTeam, OpInOps DEF IInv, Phases
      <4>2. op(t).s \in Slots
        BY <4>1, OpFields
      <4> QED BY <1>4, <3>2, <4>1, <4>2 DEF IInv, Held
    <3> QED BY <3>1, <3>2
  <2>4. \A t \in Team : t \in Threads
    BY MasterInTeam
  <2> QED BY <1>1, <1>3, <2>1, <2>2, <2>3, <2>4 DEF IInv, Held, list
<1>8. Flags'
  <2>1. ASSUME NEW t \in Team, pc'[t] \in {"v1", "v2"}
        PROVE  pc[t] = pc'[t] /\ var'[t][op(t).s] = var[t][op(t).s]
    <3>1. t # th /\ t \in Threads /\ pc[t] = pc'[t] /\ ip[t] <= nops /\ op(t).kind = "flag"
      BY <1>3, <2>1, MasterInTeam DEF IInv, Phases
    <3>2. op(t).s \in Slots
      BY <3>1, OpInOps, OpFields DEF IInv, Using
    <3> QED BY <1>4, <3>1, <3>2
  <2>2. \A t \in Team : op(t)' = op(t)
    BY <1>3, MasterInTeam
  <2> QED BY <1>1, <1>3, <2>1, <2>2 DEF IInv, Flags
<1>9. ListLinked'
  BY <1>1 DEF IInv, ListLinked, list
<1> QED BY <1>3, <1>5, <1>6, <1>7, <1>8, <1>9 DEF IInv

\* The vector that is detached leaves the links of the others in order.
LEMMA DetachList ==
  ASSUME TypeOK, ListLinked, NEW vect \in live,
         next' = [next EXCEPT ![prev[vect]] = next[vect]],
         prev' = IF next[vect] # Null
                 THEN [prev EXCEPT ![next[vect]] = prev[vect]] ELSE prev,
         last_vect' = IF next[vect] = Null THEN prev[vect] ELSE last_vect,
         live' = live \ {vect}
  PROVE  /\ ListLinked'
         /\ last_vect' \in live' \cup {MainVect}
         /\ next' \in [Addrs \cup {MainVect} -> Addrs \cup {Null}]
         /\ prev' \in [Addrs \cup {MainVect} -> Addrs \cup {MainVect, Null}]
<1> DEFINE p == prev[vect]
           n == next[vect]
           Nodes == Addrs \cup {MainVect}
<1>1. /\ live \subseteq Addrs /\ vect \in Addrs /\ p \in live \cup {MainVect}
      /\ next[p] = vect /\ p \in Nodes /\ vect # Null /\ vect # MainVect
      /\ last_vect \in live \cup {MainVect}
  BY DEF TypeOK, ListLinked
<1>2. n # Null => n \in live /\ prev[n] = vect /\ n \in Addrs /\ n # MainVect
  BY <1>1 DEF ListLinked
<1>3. /\ next' \in [Addrs \cup {MainVect} -> Addrs \cup {Null}]
      /\ next'[p] = n
      /\ \A a \in Nodes : a # p => next'[a] = next[a]
  BY <1>1 DEF TypeOK
<1>4. /\ prev' \in [Addrs \cup {MainVect} -> Addrs \cup {MainVect, Null}]
      /\ n # Null => prev'[n] = p
      /\ \A a \in Nodes : a # n => prev'[a] = prev[a]
  <2>1. CASE n = Null
    BY <2>1 DEF TypeOK
  <2>2. CASE n # Null
    BY <1>1, <1>2, <2>2 DEF TypeOK
  <2> QED BY <2>1, <2>2
\* A vector linked to itself would not be the last one.
<1>5. n = Null => p # vect /\ vect = last_vect
  BY <1>1, <1>2 DEF ListLinked
<1>6. /\ last_vect' \in live' \cup {MainVect}
      /\ n # Null => last_vect' # vect
  BY <1>1, <1>2, <1>5 DEF ListLinked
<1>7. prev'[MainVect] = Null
  BY <1>2, <1>4 DEF ListLinked
<1>8. next'[last_vect'] = Null
  <2>1. CASE n = Null
    BY <1>3, <2>1
  <2>2. CASE n # Null
    BY <1>1, <1>3, <2>2 DEF ListLinked
  <2> QED BY <2>1, <2>2
<1>9. ASSUME NEW a \in live' \cup {MainVect}
      PROVE  /\ next'[a] = Null => a = last_vect'
             /\ next'[a] # Null => next'[a] \in live' /\ prev'[next'[a]] = a
  <2>1. a \in live \cup {MainVect} /\ a # vect /\ a \in Nodes
    BY <1>1, <1>9
  <2>2. CASE a = p
    <3>1. CASE n = Null
      BY <1>3, <2>2, <3>1
    <3>2. CASE n # Null
      <4>1. n # vect
        BY <1>1, <1>2, <2>1, <2>2, <3>2
      <4> QED BY <1>2, <1>3, <1>4, <2>2, <3>2, <4>1
    <3> QED BY <3>1, <3>2
  <2>3. CASE a # p
    <3>1. next'[a] = next[a]
      BY <1>3, <2>1, <2>3
    <3>2. next[a] = Null => a = last_vect /\ a = last_vect'
      BY <1>5, <2>1 DEF ListLinked
    <3>3. next[a] # Null => next[a] \in live /\ prev[next[a]] = a
      BY <2>1 DEF ListLinked
    <3>4. next[a] # Null => next[a] # vect
      BY <2>3, <3>3
    <3>5. next[a] # Null => next[a] # n
      BY <1>2, <2>1, <3>3
    <3>6. next[a] # Null => prev'[next[a]] = a
      BY <1>1, <1>4, <3>3, <3>5
    <3> QED BY <3>1, <3>2, <3>3, <3>4, <3>6
  <2> QED BY <2>2, <2>3
<1>10. ASSUME NEW a \in live'
       PROVE  prev'[a] \in live' \cup {MainVect} /\ next'[prev'[a]] = a
  <2>1. a \in live /\ a # vect /\ a \in Addrs
    BY <1>1, <1>10
  <2>2. prev[a] \in live \cup {MainVect} /\ next[prev[a]] = a /\ prev[a] \in Nodes
    BY <1>1, <2>1 DEF ListLinked
  <2>3. CASE a = n
    <3>1. n # Null /\ p # vect
      BY <1>1, <1>2, <2>1, <2>3
    <3> QED BY <1>1, <1>3, <1>4, <2>3, <3>1
  <2>4. CASE a # n
    <3>1. prev'[a] = prev[a]
      BY <1>4, <2>1, <2>4
    <3>2. prev[a] # vect
      BY <2>2, <2>4
    <3>3. prev[a] # p
      BY <1>1, <2>1, <2>2
    <3>4. next'[prev[a]] = a
      BY <1>3, <2>2, <3>3
    <3> QED BY <2>2, <3>1, <3>2, <3>4
  <2> QED BY <2>3, <2>4
<1> QED BY <1>3, <1>4, <1>6, <1>7, <1>8, <1>9, <1>10 DEF ListLinked

\* The master unlinks a vector when all threads have come to free it.
LEMMA DetachStep == IInv /\ Detach => IInv'
<1> SUFFICES ASSUME IInv, Detach PROVE IInv'
  OBVIOUS
<1> DEFINE s0 == op(Master).s
           vect == var[Master][s0]
<1>1. /\ pc[Master] = "detach"
      /\ next' = [next EXCEPT ![prev[vect]] = next[vect]]
      /\ prev' = IF next[vect] # Null
                 THEN [prev EXCEPT ![next[vect]] = prev[vect]] ELSE prev
      /\ last_vect' = IF next[vect] = Null THEN prev[vect] ELSE last_vect
      /\ required_memory' = required_memory - size[vect]
      /\ live' = live \ {vect}
      /\ var' = [var EXCEPT ![Master][s0] = Null]
      /\ owned' = owned \ {s0}
      /\ pc' = [pc EXCEPT ![Master] = "f2"]
      /\ UNCHANGED <<prog, nops, thread_pool_locked, ip, size,
                     max_required_memory, return_malloc_ptr, flag>>
  BY DEF Detach
<1>2. /\ Team' = Team /\ pc' \in [Threads -> PCs] /\ pc'[Master] = "f2"
      /\ \A t \in Threads : op(t)' = op(t)
      /\ \A t \in Threads : t # Master => pc'[t] = pc[t]
      /\ Phases' /\ Together'
  BY <1>1, WithinOp, MasterInTeam DEF PCs, Waiting
<1>3. op(Master).kind = "free" /\ ip[Master] <= nops
  BY <1>1, MasterInTeam DEF IInv, Phases
<1>4. /\ s0 \in owned /\ vect \in live /\ s0 \in Slots /\ ip[Master] = nops
  <2>1. op(Master).kind \in Using
    BY <1>3 DEF Using
  <2> QED BY <1>1, <1>3, <2>1, UsesHeld, OpAhead, MasterInTeam DEF IInv, TypeOK
<1>5. /\ ListLinked'
      /\ last_vect' \in live' \cup {MainVect}
      /\ next' \in [Addrs \cup {MainVect} -> Addrs \cup {Null}]
      /\ prev' \in [Addrs \cup {MainVect} -> Addrs \cup {MainVect, Null}]
  BY <1>1, <1>4, DetachList DEF IInv
<1>6. /\ var' \in [Threads -> [Slots -> Addrs \cup {Null}]]
      /\ \A t \in Threads, s \in Slots : t # Master \/ s # s0 => var'[t][s] = var[t][s]
  BY <1>1, <1>4, MasterInTeam DEF IInv, TypeOK
<1>7. TypeOK'
  <2>1. size[vect] \in Nat
    BY <1>4 DEF IInv, TypeOK
  <2>2. required_memory' \in Int
    BY <1>1, <2>1 DEF IInv, TypeOK
  <2> QED BY <1>1, <1>2, <1>5, <1>6, <2>2 DEF IInv, TypeOK
\* All the others are at the barrier that ends it.
<1>8. \A t \in Team : pc'[t] = "f2" /\ ip[t] = nops
  <2>1. SUFFICES ASSUME NEW t \in Team, t # Master PROVE pc[t] = "f2" /\ ip[t] = nops
    BY <1>2, <1>4, MasterInTeam
  <2>2. ip[t] = ip[Master] /\ pc[t] \in Later \cup {"v2"}
    BY <1>1, LaterTogether, MasterInTeam DEF IInv, Later
  <2>3. op(t).kind = "free"
    BY <1>3, <2>2 DEF op
  <2> QED BY <1>4, <2>1, <2>2, <2>3, MasterInTeam DEF IInv, Phases, Later
<1>9. Ahead'
  <2>1. ASSUME NEW t \in Team, NEW i \in 1 .. nops, ip[t] <= i
        PROVE  i = nops /\ ip[t] = i /\ prog[i].kind = "free"
    <3>1. i = nops
      BY <1>8, <2>1 DEF IInv, TypeOK
    <3> QED BY <1>3, <1>4, <1>8, <3>1 DEF op
  <2> QED BY <1>1, <1>2, <1>8, <2>1 DEF Ahead
<1>10. Held'
  <2>1. \A s \in owned' : /\ s \in owned /\ s # s0 /\ var[Master][s] # vect
                          /\ \A t \in Threads : var'[t][s] = var[t][s]
    BY <1>1, <1>4, <1>6 DEF IInv, Held, TypeOK
  <2> QED BY <1>1, <1>2, <1>8, <2>1, MasterInTeam DEF IInv, Held
<1>11. Flags'
  BY <1>2, <1>8 DEF Flags
<1> QED BY <1>2, <1>5, <1>7, <1>9, <1>10, <1>11 DEF IInv

\* A thread that is past the first barrier of an operation on flags or of a
\* copy writes a flag that nobody tests or has tested otherwise.
LEMMA WorkStep ==
  ASSUME IInv, NEW th \in Team, NEW l \in PCs,
         pc' = [pc EXCEPT ![th] = l],
         UNCHANGED <<prog, nops, thread_pool_locked, ip, var, list,
                     return_malloc_ptr, owned>>,
         \/ pc[th] = "memset" /\ l = "r2"
         \/ pc[th] = "copying" /\ l = "c2"
         \/ pc[th] = "test" /\ l \in {"v1", "v2"}
         \/ pc[th] = "setflag" /\ l = "v2"
  PROVE  /\ Team' = Team /\ pc' \in [Threads -> PCs]
         /\ th \in Threads /\ pc'[th] = l
         /\ \A t \in Threads : op(t)' = op(t)
         /\ \A t \in Threads : t # th => pc'[t] = pc[t]
         /\ Phases' /\ Together' /\ Ahead' /\ Held' /\ ListLinked'
         /\ flag' \in [Addrs -> BOOLEAN] => TypeOK'
<1>1. /\ Team' = Team /\ pc' \in [Threads -> PCs]
      /\ th \in Threads /\ pc'[th] = l
      /\ \A t \in Threads : op(t)' = op(t)
      /\ \A t \in Threads : t # th => pc'[t] = pc[t]
      /\ Phases' /\ Together'
  BY WithinOp
<1>2. Ahead'
  <2>1. \A t \in Team : pc'[t] = "f2" <=> pc[t] = "f2"
    BY <1>1, MasterInTeam
  <2> QED BY <1>1, <2>1 DEF IInv, Ahead
<1>3. Held'
  <2>1. pc'[Master] \in {"m1", "take", "m2"} => pc[Master] \in {"m1", "take", "m2"}
    BY <1>1, MasterInTeam
  <2>2. \A t \in Team : pc'[t] = "m2" => pc[t] = "m2"
    BY <1>1, MasterInTeam
  <2>3. \A t \in Team : op(t)' = op(t)
    BY <1>1, MasterInTeam
  <2> QED BY <1>1, <2>1, <2>2, <2>3 DEF IInv, Held, list
<1>4. ListLinked'
  BY DEF IInv, ListLinked, list
<1>5. flag' \in [Addrs -> BOOLEAN] => TypeOK'
  BY <1>1 DEF IInv, TypeOK, list
<1> QED BY <1>1, <1>2, <1>3, <1>4, <1>5

\* The master clears the data of a vector while the others wait.
LEMMA MemsetStep == IInv /\ Memset => IInv'
<1> SUFFICES ASSUME IInv, Memset PROVE IInv'
  OBVIOUS
<1>1. /\ Team' = Team /\ pc'[Master] = "r2" /\ flag' = flag
      /\ \A t \in Threads : op(t)' = op(t)
      /\ \A t \in Threads : t # Master => pc'[t] = pc[t]
      /\ Phases' /\ Together' /\ Ahead' /\ Held' /\ ListLinked'
      /\ flag' \in [Addrs -> BOOLEAN] => TypeOK'
      /\ UNCHANGED var
  BY WorkStep, MasterInTeam DEF Memset, PCs, Waiting
<1>2. Flags'
  BY <1>1, MasterInTeam DEF IInv, Flags
<1> QED BY <1>1, <1>2 DEF IInv, TypeOK

\* A copy concerns two live vectors, the same for all threads.
LEMMA CopyStep == ASSUME IInv, NEW th \in Threads, Copy(th) PROVE IInv'
<1> DEFINE a == var[th][op(th).s]
           b == var[th][op(th).from]
<1>1. /\ pc[th] = "copying" /\ th \in Team
      /\ pc' = [pc EXCEPT ![th] = "c2"]
      /\ flag' = [flag EXCEPT ![a] = flag[b]]
      /\ UNCHANGED <<prog, nops, thread_pool_locked, ip, var, list,
                     return_malloc_ptr, owned>>
  BY DEF Copy, IInv, Phases
<1>2. /\ Team' = Team /\ pc'[th] = "c2"
      /\ \A t \in Threads : op(t)' = op(t)
      /\ \A t \in Threads : t # th => pc'[t] = pc[t]
      /\ Phases' /\ Together' /\ Ahead' /\ Held' /\ ListLinked'
      /\ flag' \in [Addrs -> BOOLEAN] => TypeOK'
  BY <1>1, WorkStep DEF PCs, Waiting
<1>3. op(th).kind = "copy" /\ ip[th] <= nops
  BY <1>1 DEF IInv, Phases
<1>4. a \in live /\ b \in live
  BY <1>1, <1>3, UsesHeld, OpAhead DEF IInv, Held, Using
<1>5. flag' \in [Addrs -> BOOLEAN]
  BY <1>1, <1>4 DEF IInv, TypeOK
<1>6. \A t \in Team : pc'[t] \notin {"v1", "v2"}
  <2>1. SUFFICES ASSUME NEW t \in Team, pc[t] \in {"v1", "v2"} PROVE FALSE
    BY <1>2, MasterInTeam
  <2>2. ip[t] = ip[th]
    BY <1>1, LaterTogether DEF IInv, Later
  <2> QED BY <1>3, <2>1, <2>2 DEF IInv, Phases, op
<1>7. Flags'
  BY <1>2, <1>6 DEF Flags
<1> QED BY <1>2, <1>5, <1>7 DEF IInv

\* Threads that test a flag, between two barriers, all find the same.
LEMMA TestStep == ASSUME IInv, NEW th \in Threads, Test(th) PROVE IInv'
<1> DEFINE v == var[th][op(th).s]
           l == IF flag[v] # op(th).to THEN "v1" ELSE "v2"
<1>1. /\ pc[th] = "test" /\ th \in Team
      /\ pc' = [pc EXCEPT ![th] = l]
      /\ UNCHANGED <<prog, nops, thread_pool_locked, ip, var, list,
                     return_malloc_ptr, flag, owned>>
  BY MasterInTeam DEF Test, IInv, Phases
<1>2. /\ Team' = Team /\ pc'[th] = l
      /\ \A t \in Threads : op(t)' = op(t)
      /\ \A t \in Threads : t # th => pc'[t] = pc[t]
      /\ Phases' /\ Together' /\ Ahead' /\ Held' /\ ListLinked'
      /\ flag' \in [Addrs -> BOOLEAN] => TypeOK'
  BY <1>1, WorkStep DEF PCs, Waiting
<1>3. Flags'
  <2>1. l = "v1" => flag[v] # op(th).to
    OBVIOUS
  <2>2. l = "v2" => flag[v] = op(th).to
    OBVIOUS
  <2>3. \A t \in Team : op(t)' = op(t)
    BY <1>2, MasterInTeam
  <2> QED BY <1>1, <1>2, <2>1, <2>2, <2>3, MasterInTeam DEF IInv, Flags
<1> QED BY <1>1, <1>2, <1>3 DEF IInv, TypeOK

\* A flag is set, by all threads to the same value, after all have tested it.
LEMMA SetFlagStep == ASSUME IInv, NEW th \in Threads, SetFlag(th) PROVE IInv'
<1> DEFINE v == var[th][op(th).s]
<1>1. /\ pc[th] = "setflag" /\ th \in Team
      /\ pc' = [pc EXCEPT ![th] = "v2"]
      /\ flag' = [flag EXCEPT ![v] = op(th).to]
      /\ UNCHANGED <<prog, nops, thread_pool_locked, ip, var, list,
                     return_malloc_ptr, owned>>
  BY DEF SetFlag, IInv, Phases
<1>2. /\ Team' = Team /\ pc'[th] = "v2"
      /\ \A t \in Threads : op(t)' = op(t)
      /\ \A t \in Threads : t # th => pc'[t] = pc[t]
      /\ Phases' /\ Together' /\ Ahead' /\ Held' /\ ListLinked'
      /\ flag' \in [Addrs -> BOOLEAN] => TypeOK'
  BY <1>1, WorkStep DEF PCs, Waiting
<1>3. /\ op(th).kind = "flag" /\ ip[th] <= nops /\ op(th) \in Ops
      /\ op(th).to \in BOOLEAN
  BY <1>1, OpInOps, OpFields DEF IInv, Phases
<1>4. op(th).s \in owned /\ v = var[Master][op(th).s] /\ v \in live /\ v \in Addrs
  BY <1>1, <1>3, UsesHeld DEF IInv, TypeOK, Using
<1>5. flag' \in [Addrs -> BOOLEAN] /\ flag'[v] = op(th).to
  BY <1>1, <1>3, <1>4 DEF IInv, TypeOK
<1>6. ASSUME NEW t \in Team, pc'[t] \in {"v1", "v2"}
      PROVE  /\ pc'[t] = "v2" /\ op(t) = op(th)
             /\ var[t][op(t).s] = v
  <2>1. ip[t] = ip[th] /\ pc[t] \in Later \cup {"v2"}
    BY <1>1, LaterTogether DEF IInv, Later
  <2>2. op(t) = op(th)
    BY <2>1 DEF op
  <2>3. pc'[t] = "v2"
    BY <1>2, <1>6, <2>1, MasterInTeam DEF Later
  <2> QED BY <1>4, <2>2, <2>3 DEF IInv, Held
<1>7. Flags'
  <2>1. \A t \in Team : op(t)' = op(t)
    BY <1>2, MasterInTeam
  <2> QED BY <1>1, <1>2, <1>5, <1>6, <2>1 DEF Flags
<1> QED BY <1>2, <1>5, <1>7 DEF IInv

\* All threads leave one barrier together.
LEMMA BarrierStep == IInv /\ Barrier => IInv'
<1> SUFFICES ASSUME IInv, Barrier PROVE IInv'
  OBVIOUS
<1> DEFINE b == pc[Master]
           o == op(Master)
<1>1. /\ \A t \in Team : pc[t] \in Waiting
      /\ pc' = [t \in Threads |-> IF t \in Team THEN After(t) ELSE pc[t]]
      /\ ip' = [t \in Threads |-> IF t \in Team /\ pc[t] \in LastBarriers
                                  THEN ip[t] + 1 ELSE ip[t]]
      /\ thread_pool_locked' = (thread_pool_locked \/ b = "e1")
      /\ owned' = IF b = "m2" THEN owned \cup {o.s} ELSE owned
      /\ UNCHANGED <<prog, nops, var, list, return_malloc_ptr, flag>>
  BY DEF Barrier
<1>2. /\ b \in Waiting /\ ip[Master] <= nops /\ o.kind # "loop"
      /\ o \in Ops /\ ip[Master] \in 1 .. MaxOps
  BY <1>1, MasterInTeam, OpInOps DEF IInv, Phases, Waiting
<1>3. ip[Master] = nops /\ nops \in 1 .. MaxOps
  BY <1>2, OpAhead, MasterInTeam DEF IInv
<1>4. \A t \in Team : pc[t] = b /\ ip[t] = nops /\ op(t) = o
  <2>1. \A t \in Team : pc[t] = b /\ ip[t] = ip[Master]
    BY <1>1, AllAtOneBarrier, MasterInTeam
  <2> QED BY <1>3, <2>1 DEF op
<1>5. /\ b \in {"m1", "m2"} => o.kind = "malloc"
      /\ b \in {"f1", "f2"} => o.kind = "free"
      /\ b \in {"r1", "r2"} => o.kind = "reset"
      /\ b \in {"c1", "c2"} => o.kind = "copy"
      /\ b \in {"v1", "v2"} => o.kind = "flag"
      /\ b = "e1" => o.kind = "end"
  BY MasterInTeam DEF IInv, Phases
<1>6. o.kind \in {"malloc"} \cup Using => o.s \in Slots
  BY <1>2, OpFields
<1>7. thread_pool_locked' \in BOOLEAN /\ owned' \subseteq Slots
  BY <1>1, <1>5, <1>6 DEF IInv, TypeOK
<1>8. CASE b \in LastBarriers \ {"e1"}
  <2>1. /\ Team' = Team
        /\ \A t \in Team : pc'[t] = "next" /\ ip'[t] = nops + 1
        /\ \A t \in Threads \ Team : pc'[t] = pc[t] /\ ip'[t] = ip[t]
    BY <1>1, <1>4, <1>8, MasterInTeam DEF Team, After, LastBarriers
  <2>2. TypeOK'
    <3>0. \A t \in Threads : ip'[t] \in 1 .. MaxOps + 1
      BY <1>3, <2>1 DEF IInv, TypeOK
    <3>1. ip' \in [Threads -> 1 .. MaxOps + 1]
      BY <1>1, <3>0
    <3>2. \A t \in Threads : pc'[t] \in PCs
      BY <2>1 DEF IInv, TypeOK, PCs
    <3>3. pc' \in [Threads -> PCs]
      BY <1>1, <3>2
    <3> QED BY <1>1, <1>7, <3>1, <3>3 DEF IInv, TypeOK, list
  <2>3. Phases'
    <3>1. \A t \in Threads : pc'[t] = "pool" <=> t \notin Team
      BY <2>1 DEF IInv, Phases
    <3>2. \A t \in Threads : pc'[t] \in {"alloc", "detach", "memset"} => t = Master
      BY <2>1 DEF IInv, Phases
    <3> QED BY <1>1, <1>3, <2>1, <3>1, <3>2 DEF Phases
  <2>4. Together' /\ Flags'
    <3>1. Together'
      BY <1>3, <2>1 DEF Together, Later
    <3>2. Flags'
      BY <2>1 DEF Flags
    <3> QED BY <3>1, <3>2
  <2>5. Ahead'
    BY <1>1, <1>3, <2>1 DEF Ahead
  <2>6. Held'
    <3>1. CASE b = "m2"
      <4>1. /\ \A t \in Team : var[t][o.s] = return_malloc_ptr
            /\ return_malloc_ptr \in live
            /\ \A s \in owned : var[Master][s] # return_malloc_ptr
        BY <1>4, <3>1, MasterInTeam DEF IInv, Held
      <4>2. owned' = owned \cup {o.s}
        BY <1>1, <3>1
      <4>3. \A s \in owned' : /\ var[Master][s] \in live
                              /\ \A t \in Team : var[t][s] = var[Master][s]
        BY <4>1, <4>2, MasterInTeam DEF IInv, Held
      <4>4. \A s, r \in owned' : var[Master][r] = var[Master][s] => r = s
        BY <4>1, <4>2, MasterInTeam DEF IInv, Held
      <4>5. pc'[Master] = "next" /\ \A t \in Team : pc'[t] # "m2"
        BY <2>1, MasterInTeam
      <4> QED BY <1>1, <2>1, <4>3, <4>4, <4>5 DEF Held, list
    <3>2. CASE b # "m2"
      BY <1>1, <2>1, <3>2, MasterInTeam DEF IInv, Held, list
    <3> QED BY <3>1, <3>2
  <2>7. ListLinked'
    BY <1>1 DEF IInv, ListLinked, list
  <2> QED BY <2>2, <2>3, <2>4, <2>5, <2>6, <2>7 DEF IInv
<1>9. CASE b = "e1"
  <2>1. Team = Threads /\ Team' = {Master} /\ thread_pool_locked'
    <3>1. ~ thread_pool_locked
      BY <1>2, <1>5, <1>9, OpAhead, MasterInTeam DEF IInv
    <3> QED BY <1>1, <1>9, <3>1 DEF Team
  <2>2. /\ pc'[Master] = "next" /\ ip'[Master] = nops + 1
        /\ \A t \in Threads \ {Master} : pc'[t] = "pool"
        /\ \A t \in Threads : ip'[t] = nops + 1
    BY <1>1, <1>4, <1>9, <2>1 DEF After, LastBarriers
  <2>3. TypeOK'
    <3>1. ip' \in [Threads -> 1 .. MaxOps + 1]
      BY <1>1, <1>3, <2>2 DEF IInv, TypeOK
    <3>2. \A t \in Threads : pc'[t] \in PCs
      BY <2>2 DEF PCs
    <3>3. pc' \in [Threads -> PCs]
      BY <1>1, <3>2
    <3> QED BY <1>1, <1>7, <3>1, <3>3 DEF IInv, TypeOK, list
  <2>4. Phases'
    BY <1>1, <1>3, <2>1, <2>2 DEF Phases
  <2>5. Together' /\ Flags'
    <3>1. Together'
      BY <1>3, <2>1, <2>2 DEF Together, Later
    <3>2. Flags'
      BY <2>1, <2>2 DEF Flags
    <3> QED BY <3>1, <3>2
  <2>6. Ahead'
    BY <1>1, <1>3, <2>1, <2>2 DEF Ahead
  <2>7. Held'
    BY <1>1, <1>9, <2>1, <2>2 DEF IInv, Held, list
  <2>8. ListLinked'
    BY <1>1 DEF IInv, ListLinked, list
  <2> QED BY <2>3, <2>4, <2>5, <2>6, <2>7, <2>8 DEF IInv
<1>10. CASE b \in {"m1", "f1", "r1", "c1", "v1"}
  <2>1. /\ Team' = Team /\ owned' = owned
        /\ \A t \in Threads : ip'[t] = ip[t] /\ op(t)' = op(t)
        /\ \A t \in Threads \ Team : pc'[t] = pc[t]
        /\ \A t \in Team : pc'[t] = CASE b = "m1" -> "take"
                                      [] b = "f1" -> IF t = Master THEN "detach" ELSE "f2"
                                      [] b = "r1" -> IF t = Master THEN "memset" ELSE "r2"
                                      [] b = "c1" -> "copying"
                                      [] b = "v1" -> "setflag"
    BY <1>1, <1>4, <1>10, MasterInTeam DEF Team, After, LastBarriers, op
  <2>2. \A t \in Team : /\ pc'[t] \in Later
                        /\ b = "m1" => pc'[t] = "take"
                        /\ b = "f1" => pc'[t] \in {"detach", "f2"}
                        /\ b = "r1" => pc'[t] \in {"memset", "r2"}
                        /\ b = "c1" => pc'[t] = "copying"
                        /\ b = "v1" => pc'[t] = "setflag"
                        /\ pc'[t] \in {"detach", "memset"} => t = Master
    BY <1>10, <2>1 DEF Later
  <2>3. TypeOK'
    <3>1. \A t \in Threads : pc'[t] \in PCs
      BY <2>1, <2>2 DEF IInv, TypeOK, PCs, Working, Waiting, Later
    <3>2. pc' \in [Threads -> PCs]
      BY <1>1, <3>1
    <3>3. ip' = ip
      BY <1>1, <2>1 DEF IInv, TypeOK
    <3> QED BY <1>1, <1>7, <3>2, <3>3 DEF IInv, TypeOK, list
  <2>4. Phases'
    <3>1. \A t \in Threads : pc'[t] = "pool" <=> t \notin Team
      BY <2>1, <2>2 DEF IInv, Phases, Later
    <3>2. \A t \in Threads : pc'[t] \in {"alloc", "detach", "memset"} => t = Master
      BY <2>1, <2>2 DEF IInv, Phases, Later
    <3> QED BY <1>1, <1>4, <1>5, <1>10, <2>1, <2>2, <3>1, <3>2, MasterInTeam DEF IInv, Phases, Later
  <2>5. Together'
    BY <1>1, <1>3, <1>4, <2>1, <2>2, MasterInTeam DEF Together
  <2>6. Ahead'
    <3>1. thread_pool_locked' = thread_pool_locked
      BY <1>1, <1>7, <1>10 DEF IInv, TypeOK
    <3>2. \A t \in Team : pc[t] # "f2" /\ ip'[t] = ip[t]
      BY <1>4, <1>10, <2>1, MasterInTeam
    <3>3. ASSUME NEW t \in Team, NEW i \in 1 .. nops, ip[t] <= i
          PROVE  /\ prog[i].kind # "loop" => i = nops
                 /\ prog[i].kind = "begin" => thread_pool_locked
                 /\ prog[i].kind = "end" => ~ thread_pool_locked
                 /\ prog[i].kind = "malloc" => prog[i].s \notin owned
                 /\ prog[i].kind \in Using => prog[i].s \in owned
                 /\ prog[i].kind = "copy" => prog[i].from \in owned
      BY <3>2, <3>3 DEF IInv, Ahead
    <3>4. \A t \in Team : ip'[t] = ip[t]
      BY <2>1, MasterInTeam
    <3> QED BY <1>1, <2>1, <3>1, <3>3, <3>4 DEF Ahead
  <2>7. Held'
    <3>1. pc'[Master] \in {"m1", "take", "m2"} => b = "m1"
      BY <1>10, <2>2, MasterInTeam
    <3>2. \A t \in Team : pc'[t] # "m2"
      BY <1>10, <2>2
    <3> QED BY <1>1, <2>1, <3>1, <3>2 DEF IInv, Held, list
  <2>8. Flags'
    BY <2>1, <2>2 DEF Flags, Later
  <2>9. ListLinked'
    BY <1>1 DEF IInv, ListLinked, list
  <2> QED BY <2>3, <2>4, <2>5, <2>6, <2>7, <2>8, <2>9 DEF IInv
<1> QED BY <1>2, <1>8, <1>9, <1>10 DEF Waiting, LastBarriers

-----------------------------------------------------------------------------
\* The invariant is kept by every step.
LEMMA NextIInv == IInv /\ [Next]_vars => IInv'
<1> SUFFICES ASSUME IInv, [Next]_vars PROVE IInv'
  OBVIOUS
<1>1. CASE Choose
  BY <1>1, ChooseStep
<1>2. CASE Fork
  BY <1>2, ForkStep
<1>3. CASE Barrier
  BY <1>3, BarrierStep
<1>4. CASE Alloc
  BY <1>4, AllocStep
<1>5. CASE Detach
  BY <1>5, DetachStep
<1>6. CASE Memset
  BY <1>6, MemsetStep
<1>7. ASSUME NEW t \in Threads, ThreadStep(t) PROVE IInv'
  BY <1>7, BeginStep, TakeStep, LoopStep, CopyStep, TestStep, SetFlagStep DEF ThreadStep
<1>8. CASE UNCHANGED vars
  <2>1. Team' = Team /\ \A t \in Threads : op(t)' = op(t)
    BY <1>8 DEF vars, Team, op
  <2>2. TypeOK' /\ ListLinked'
    BY <1>8 DEF IInv, TypeOK, ListLinked, vars, list
  <2>3. Phases' /\ Flags'
    BY <1>8, <2>1, MasterInTeam DEF IInv, Phases, Flags, vars
  <2>4. Together' /\ Ahead'
    BY <1>8, <2>1 DEF IInv, Together, Ahead, vars
  <2>5. Held'
    BY <1>8, <2>1, MasterInTeam DEF IInv, Held, vars, list
  <2> QED BY <2>2, <2>3, <2>4, <2>5 DEF IInv
<1> QED BY <1>1, <1>2, <1>3, <1>4, <1>5, <1>6, <1>7, <1>8 DEF Next

\* The invariant of the manager of vectors, on which the others rest.
THEOREM Inductive == Spec => []IInv
BY InitIInv, NextIInv, PTL DEF Spec

\* The variables have their types, for any number of threads and vectors.
THEOREM VectorsTypeOK == Spec => []TypeOK
<1>1. IInv => TypeOK
  BY DEF IInv
<1> QED BY <1>1, Inductive, PTL

\* The list of vectors stays linked both ways (internal_nissa_malloc and
\* internal_nissa_free of vectors.cpp), in whatever order vectors come and go.
THEOREM VectorsLinked == Spec => []ListLinked
<1>1. IInv => ListLinked
  BY DEF IInv
<1> QED BY <1>1, Inductive, PTL

\* Two barriers around the reading of return_malloc_ptr are enough for all
\* threads to work on the same vector.
THEOREM VectorsSame == Spec => []SameVector
<1>1. IInv => SameVector
  <2> SUFFICES ASSUME IInv, NEW t \in Team, NEW u \in Team,
                      pc[t] \in Working, pc[u] \in Working, ip[t] = ip[u]
               PROVE  /\ var[t][op(t).s] = var[u][op(t).s]
                      /\ op(t).kind = "copy" => var[t][op(t).from] = var[u][op(t).from]
    BY DEF SameVector
  <2>1. /\ ip[t] <= nops /\ op(t).kind \in Using /\ pc[t] # "f2"
    BY DEF IInv, Phases, Working, Using
  <2>2. op(t).s \in owned /\ (op(t).kind = "copy" => op(t).from \in owned)
    BY <2>1, OpAhead DEF IInv
  <2> QED BY <2>2 DEF IInv, Held
<1> QED BY <1>1, Inductive, PTL

\* No thread works on a vector that internal_nissa_free has given back.
THEOREM VectorsUse == Spec => []NoUseAfterFree
<1>1. IInv => NoUseAfterFree
  <2> SUFFICES ASSUME IInv, NEW t \in Team, pc[t] \in Working
               PROVE  /\ var[t][op(t).s] \in live
                      /\ op(t).kind = "copy" => var[t][op(t).from] \in live
    BY DEF NoUseAfterFree
  <2>1. ip[t] <= nops /\ op(t).kind \in Using /\ pc[t] # "f2"
    BY DEF IInv, Phases, Working, Using
  <2>2. op(t).s \in owned /\ (op(t).kind = "copy" => op(t).from \in owned)
    BY <2>1, OpAhead DEF IInv
  <2> QED BY <2>2 DEF IInv, Held
<1> QED BY <1>1, Inductive, PTL

\* The first barriers of vector_reset and of internal_nissa_free keep the
\* master from the data that other threads are still at.
THEOREM VectorsAlone == Spec => []MasterAlone
<1>1. IInv => MasterAlone
  <2> SUFFICES ASSUME IInv, pc[Master] \in {"memset", "detach"},
                      NEW t \in Team, t # Master
               PROVE  pc[t] \notin Working
    BY DEF MasterAlone
  <2>1. ip[t] = ip[Master] /\ pc[t] \in Later \cup {"v2"}
    BY LaterTogether, MasterInTeam DEF IInv, Later
  <2>2. op(t) = op(Master) /\ op(t).kind \in {"reset", "free"}
    BY <2>1, MasterInTeam DEF IInv, Phases, op
  <2> QED BY <2>1, <2>2, MasterInTeam DEF IInv, Phases, Later, Working
<1> QED BY <1>1, Inductive, PTL

\* Threads never wait at different barriers, though set_vect_flag and
\* unset_vect_flag have one only if the flag is to change.
THEOREM VectorsBarriers == Spec => []SameBarrier
<1>1. IInv => SameBarrier
  BY AllAtOneBarrier DEF SameBarrier
<1> QED BY <1>1, Inductive, PTL

-----------------------------------------------------------------------------
\* A set of numbers has a smallest one.
LEMMA SmallestOf ==
  ASSUME NEW T \in SUBSET Nat, T # {}
  PROVE  \E n \in T : \A m \in T : n <= m
<1> DEFINE Less == OpToRel(<, Nat)
<1>1. \A x, y \in Nat : <<y, x>> \in Less <=> y < x
  BY DEF OpToRel
<1>2. IsWellFoundedOn(Less, Nat)
  BY NatLessThanWellFounded
<1> HIDE DEF Less
<1>3. PICK x \in T : \A y \in T : ~ (<<y, x>> \in Less)
  BY <1>2, WFMin
<1>4. ASSUME NEW y \in T PROVE x <= y
  <2>1. x \in Nat /\ y \in Nat
    OBVIOUS
  <2>2. ~ (y < x)
    BY <1>1, <1>3, <2>1
  <2> QED BY <2>1, <2>2
<1> QED BY <1>4

\* A set that has 0, and with a number the next one, has all numbers.
LEMMA Induction ==
  ASSUME NEW S, 0 \in S, \A n \in Nat : n \in S => n + 1 \in S
  PROVE  \A n \in Nat : n \in S
<1> DEFINE T == Nat \ S
<1>1. SUFFICES ASSUME T # {} PROVE FALSE
  OBVIOUS
<1>2. PICK n \in T : \A m \in T : n <= m
  BY <1>1, SmallestOf
<1> QED BY <1>2

-----------------------------------------------------------------------------
\* What compute_vect_memory_usage adds up.
TotalOf(w) == FoldSeq(LAMBDA v, tot : tot + v.size, 0, w)

Entries == [addr : Addrs, size : Nat]

\* The first of the indices that are left is added last.
First(s) == CHOOSE x \in s : TRUE
Added(w, g, S) ==
  g = [s \in S |-> IF s = {} THEN 0 ELSE g[s \ {First(s)}] + w[First(s)].size]

\* The sum over a set is that over the rest of it and one more.
LEMMA AddedUpTo ==
  ASSUME NEW w \in Seq(Entries), NEW n \in Nat
  PROVE  \E g : Added(w, g, {s \in SUBSET DOMAIN w : Cardinality(s) <= n})
<1> DEFINE D(k) == {s \in SUBSET DOMAIN w : Cardinality(s) <= k}
           P == {k \in Nat : \E g : Added(w, g, D(k))}
<1>0. /\ \A s \in SUBSET DOMAIN w : IsFiniteSet(s) /\ Cardinality(s) \in Nat
      /\ \A s \in SUBSET DOMAIN w : s # {} =>
           /\ First(s) \in s /\ s \ {First(s)} \in SUBSET DOMAIN w
           /\ Cardinality(s \ {First(s)}) = Cardinality(s) - 1
      /\ \A s \in SUBSET DOMAIN w : Cardinality(s) = 0 => s = {}
  <2>1. DOMAIN w = 1 .. Len(w) /\ Len(w) \in Nat
    BY LenProperties
  <2>2. IsFiniteSet(DOMAIN w)
    BY <2>1, FS_Interval
  <2>3. \A s \in SUBSET DOMAIN w : IsFiniteSet(s)
    BY <2>2, FS_Subset
  <2> QED BY <2>3, FS_CardinalityType, FS_RemoveElement, FS_EmptySet DEF First
<1>1. 0 \in P
  <2>1. Added(w, [s \in D(0) |-> 0], D(0))
    BY <1>0 DEF Added
  <2> QED BY <2>1
<1>2. ASSUME NEW k \in Nat, k \in P PROVE k + 1 \in P
  <2>1. PICK g : Added(w, g, D(k))
    BY <1>2
  <2> DEFINE h == [s \in D(k + 1) |-> IF s = {} THEN 0 ELSE g[s \ {First(s)}] + w[First(s)].size]
  <2>2. \A s \in D(k) : s \in D(k + 1) /\ h[s] = g[s]
    <3>1. \A s \in D(k) : s \in D(k + 1)
      BY <1>0
    <3>2. \A s \in D(k) : g[s] = IF s = {} THEN 0 ELSE g[s \ {First(s)}] + w[First(s)].size
      <4> HIDE DEF D
      <4> QED BY <2>1 DEF Added
    <3> QED BY <3>1, <3>2
  <2>3. \A s \in D(k + 1) : s # {} => s \ {First(s)} \in D(k)
    BY <1>0
  <2>4. \A s \in D(k + 1) : s # {} => h[s \ {First(s)}] = g[s \ {First(s)}]
    BY <2>2, <2>3
  <2>5. Added(w, h, D(k + 1))
    BY <2>4 DEF Added
  <2> QED
    <3> HIDE DEF h, D
    <3> QED BY <2>5
<1>3. n \in P
  <2> HIDE DEF P
  <2> QED BY <1>1, <1>2, Induction
<1> QED BY <1>3

\* So the sum is well defined.
LEMMA TotalAdded ==
  ASSUME NEW w \in Seq(Entries)
  PROVE  \E g : Added(w, g, SUBSET DOMAIN w) /\ TotalOf(w) = g[DOMAIN w]
<1>1. DOMAIN w = 1 .. Len(w) /\ Len(w) \in Nat /\ IsFiniteSet(DOMAIN w)
  BY LenProperties, FS_Interval
<1>2. \A s \in SUBSET DOMAIN w : Cardinality(s) <= Cardinality(DOMAIN w)
  BY <1>1, FS_Subset
<1>3. {s \in SUBSET DOMAIN w : Cardinality(s) <= Cardinality(DOMAIN w)} = SUBSET DOMAIN w
  BY <1>2
<1>4. \E g : Added(w, g, SUBSET DOMAIN w)
  <2>1. Cardinality(DOMAIN w) \in Nat
    BY <1>1, FS_CardinalityType
  <2>2. \E g : Added(w, g, {s \in SUBSET DOMAIN w : Cardinality(s) <= Cardinality(DOMAIN w)})
    BY <2>1, AddedUpTo
  <2> QED BY <1>3, <2>2
<1> QED BY <1>4 DEF Added, First, TotalOf, FoldSeq, FoldFunction, FoldFunctionOnSet, MapThenFoldSet

\* And it does not matter which one is added last.
LEMMA AddedAny ==
  ASSUME NEW w \in Seq(Entries), NEW g, Added(w, g, SUBSET DOMAIN w)
  PROVE  /\ g[{}] = 0
         /\ \A s \in SUBSET DOMAIN w : g[s] \in Int
         /\ \A s \in SUBSET DOMAIN w : \A x \in s : g[s] = g[s \ {x}] + w[x].size
<1> DEFINE Fine(s) == g[s] \in Int /\ \A x \in s : g[s] = g[s \ {x}] + w[x].size
           P == {k \in Nat : \A s \in SUBSET DOMAIN w : Cardinality(s) <= k => Fine(s)}
<1>0. /\ \A s \in SUBSET DOMAIN w : IsFiniteSet(s) /\ Cardinality(s) \in Nat
      /\ \A s \in SUBSET DOMAIN w : \A x \in s :
           /\ s \ {x} \in SUBSET DOMAIN w
           /\ Cardinality(s \ {x}) = Cardinality(s) - 1
      /\ \A s \in SUBSET DOMAIN w : Cardinality(s) = 0 => s = {}
  <2>1. DOMAIN w = 1 .. Len(w) /\ Len(w) \in Nat
    BY LenProperties
  <2>2. IsFiniteSet(DOMAIN w)
    BY <2>1, FS_Interval
  <2>3. \A s \in SUBSET DOMAIN w : IsFiniteSet(s)
    BY <2>2, FS_Subset
  <2> QED BY <2>3, FS_CardinalityType, FS_RemoveElement, FS_EmptySet
<1>1. /\ g[{}] = 0
      /\ \A s \in SUBSET DOMAIN w : s # {} =>
           First(s) \in s /\ g[s] = g[s \ {First(s)}] + w[First(s)].size
  BY DEF Added, First
<1>2. \A x \in DOMAIN w : w[x].size \in Nat
  <2>1. \A x \in DOMAIN w : w[x] \in Entries
    BY LenProperties
  <2> QED BY <2>1 DEF Entries
<1>3. 0 \in P
  <2>1. \A s \in SUBSET DOMAIN w : Cardinality(s) <= 0 => s = {}
    BY <1>0
  <2>2. Fine({})
    BY <1>1
  <2> QED BY <2>1, <2>2
<1>4. ASSUME NEW k \in Nat, k \in P PROVE k + 1 \in P
  <2> SUFFICES ASSUME NEW s \in SUBSET DOMAIN w, Cardinality(s) <= k + 1, s # {}
               PROVE  Fine(s)
    <3>1. \A s \in SUBSET DOMAIN w : s = {} => Fine(s)
      BY <1>1
    <3>2. k + 1 \in Nat
      OBVIOUS
    <3> HIDE DEF Fine
    <3> QED BY <3>1, <3>2
  <2>1. \A t \in SUBSET DOMAIN w : Cardinality(t) <= k => Fine(t)
    BY <1>4
  <2> DEFINE c == First(s)
  <2>2. c \in s /\ g[s] = g[s \ {c}] + w[c].size /\ Fine(s \ {c})
    <3>1. c \in s /\ g[s] = g[s \ {c}] + w[c].size
      BY <1>1
    <3>2. s \ {c} \in SUBSET DOMAIN w /\ Cardinality(s \ {c}) <= k
      BY <1>0, <3>1
    <3> HIDE DEF Fine
    <3> QED BY <2>1, <3>1, <3>2
  <2>3. g[s] \in Int
    BY <1>2, <2>2
  <2>4. ASSUME NEW x \in s, x # c PROVE g[s] = g[s \ {x}] + w[x].size
    <3>1. /\ s \ {x} \in SUBSET DOMAIN w /\ Fine(s \ {x})
          /\ x \in s \ {c} /\ c \in s \ {x}
      <4>1. s \ {x} \in SUBSET DOMAIN w /\ Cardinality(s \ {x}) <= k
        BY <1>0
      <4> HIDE DEF Fine, c
      <4> QED BY <2>1, <2>2, <2>4, <4>1
    <3>2. (s \ {c}) \ {x} = (s \ {x}) \ {c}
      OBVIOUS
    <3>3. g[s \ {c}] = g[(s \ {x}) \ {c}] + w[x].size
      BY <2>2, <3>1, <3>2
    <3>4. g[s \ {x}] = g[(s \ {x}) \ {c}] + w[c].size
      BY <3>1
    <3>5. (s \ {x}) \ {c} \in SUBSET DOMAIN w /\ Fine((s \ {x}) \ {c})
      <4>1. /\ Cardinality(s \ {x}) \in Nat /\ Cardinality(s \ {x}) = Cardinality(s) - 1
            /\ Cardinality(s) \in Nat
        BY <1>0, <3>1
      <4>2. /\ (s \ {x}) \ {c} \in SUBSET DOMAIN w
            /\ Cardinality((s \ {x}) \ {c}) = Cardinality(s \ {x}) - 1
        <5> HIDE DEF c
        <5> QED BY <1>0, <3>1
      <4>3. Cardinality((s \ {x}) \ {c}) <= k
        <5> HIDE DEF c
        <5> QED BY <4>1, <4>2
      <4> HIDE DEF Fine, c
      <4> QED BY <2>1, <4>2, <4>3
    <3>6. g[(s \ {x}) \ {c}] \in Int /\ w[x].size \in Nat /\ w[c].size \in Nat
      BY <1>2, <2>2, <3>5
    <3> HIDE DEF Fine, c
    <3> QED BY <2>2, <3>3, <3>4, <3>6
  <2> QED BY <2>2, <2>3, <2>4
<1>5. \A k \in Nat : k \in P
  <2> HIDE DEF P
  <2> QED BY <1>3, <1>4, Induction
<1>6. \A s \in SUBSET DOMAIN w : Fine(s)
  <2> TAKE s \in SUBSET DOMAIN w
  <2>1. Cardinality(s) \in Nat /\ Cardinality(s) <= Cardinality(s)
    BY <1>0
  <2>2. Cardinality(s) \in P
    <3> HIDE DEF P
    <3> QED BY <1>5, <2>1
  <2> HIDE DEF Fine
  <2> QED BY <2>1, <2>2
<1> QED BY <1>1, <1>6

\* The total of a list, entry by entry.
LEMMA TotalOfPrefixes ==
  ASSUME NEW w \in Seq(Entries)
  PROVE  \E q \in [0 .. Len(w) -> Int] :
           /\ q[0] = 0 /\ \A j \in 1 .. Len(w) : q[j] = q[j - 1] + w[j].size
           /\ TotalOf(w) = q[Len(w)]
<1>1. DOMAIN w = 1 .. Len(w) /\ Len(w) \in Nat
  BY LenProperties
<1>2. PICK g : Added(w, g, SUBSET DOMAIN w) /\ TotalOf(w) = g[DOMAIN w]
  BY TotalAdded
<1>3. /\ g[{}] = 0
      /\ \A s \in SUBSET DOMAIN w : g[s] \in Int
      /\ \A s \in SUBSET DOMAIN w : \A x \in s : g[s] = g[s \ {x}] + w[x].size
  <2>1. Added(w, g, SUBSET DOMAIN w)
    BY <1>2
  <2> QED BY <2>1, AddedAny
<1> DEFINE q == [j \in 0 .. Len(w) |-> g[1 .. j]]
<1>4. \A j \in 0 .. Len(w) : 1 .. j \in SUBSET DOMAIN w
  BY <1>1
<1>5. q \in [0 .. Len(w) -> Int]
  BY <1>3, <1>4
<1>6. q[0] = 0
  <2>1. 1 .. 0 = {}
    OBVIOUS
  <2> QED BY <1>1, <1>3, <2>1
<1>7. ASSUME NEW j \in 1 .. Len(w) PROVE q[j] = q[j - 1] + w[j].size
  <2>1. (1 .. j) \ {j} = 1 .. j - 1 /\ j \in 1 .. j
    BY <1>1
  <2>2. g[1 .. j] = g[(1 .. j) \ {j}] + w[j].size
    <3>1. 1 .. j \in SUBSET DOMAIN w
      BY <1>1, <1>4
    <3> QED BY <1>3, <2>1, <3>1
  <2>3. j \in 0 .. Len(w) /\ j - 1 \in 0 .. Len(w)
    BY <1>1
  <2>4. q[j] = g[1 .. j] /\ q[j - 1] = g[1 .. j - 1]
    BY <2>3
  <2> HIDE DEF q
  <2> QED BY <2>1, <2>2, <2>4
<1>8. TotalOf(w) = q[Len(w)]
  BY <1>1, <1>2
<1> HIDE DEF q
<1> QED BY <1>5, <1>6, <1>7, <1>8

\* s has the sums of e, up to that of m numbers.
Sums(s, e, m) ==
  /\ \A j \in 0 .. m : s[j] \in Int
  /\ \A j \in 1 .. m : e[j] \in Int /\ s[j] = s[j - 1] + e[j]

\* The same numbers make the same sum, whatever it starts from.
LEMMA SamePrefixes ==
  ASSUME NEW m \in Nat, NEW p, NEW q, NEW e, Sums(p, e, m), Sums(q, e, m)
  PROVE  p[m] - p[0] = q[m] - q[0]
<1> DEFINE P == {k \in Nat : k <= m => p[k] - p[0] = q[k] - q[0]}
<1>1. 0 \in P
  BY 0 \in 0 .. m DEF Sums
<1>2. ASSUME NEW k \in Nat, k \in P PROVE k + 1 \in P
  <2> SUFFICES ASSUME k + 1 <= m PROVE p[k + 1] - p[0] = q[k + 1] - q[0]
    OBVIOUS
  <2>1. /\ p[k] \in Int /\ q[k] \in Int /\ p[0] \in Int /\ q[0] \in Int
        /\ p[k] - p[0] = q[k] - q[0]
        /\ e[k + 1] \in Int /\ p[k + 1] = p[k] + e[k + 1] /\ q[k + 1] = q[k] + e[k + 1]
    <3>1. k + 1 \in 1 .. m /\ k \in 0 .. m /\ 0 \in 0 .. m /\ (k + 1) - 1 = k
      OBVIOUS
    <3> QED BY <1>2, <3>1 DEF Sums
  <2> QED BY <2>1
<1>3. m \in P
  <2> HIDE DEF P
  <2> QED BY <1>1, <1>2, Induction
<1> QED BY <1>3

\* A new entry adds its size.
LEMMA TotalOfAppend ==
  ASSUME NEW w \in Seq(Entries), NEW v \in Entries
  PROVE  TotalOf(Append(w, v)) = TotalOf(w) + v.size
<1> DEFINE x == Append(w, v)
<1>1. /\ x \in Seq(Entries) /\ Len(w) \in Nat /\ Len(x) = Len(w) + 1 /\ x[Len(w) + 1] = v
      /\ \A i \in 1 .. Len(w) : x[i] = w[i]
  BY AppendProperties, LenProperties
<1>2. /\ v.size \in Int
      /\ \A i \in 1 .. Len(w) : w[i].size \in Int
  <2>1. \A i \in 1 .. Len(w) : w[i] \in Entries
    BY ElementOfSeq
  <2> QED BY <2>1 DEF Entries
<1> HIDE DEF x
<1>3. PICK p \in [0 .. Len(x) -> Int] :
        /\ p[0] = 0 /\ \A j \in 1 .. Len(x) : p[j] = p[j - 1] + x[j].size
        /\ TotalOf(x) = p[Len(x)]
  BY <1>1, TotalOfPrefixes
<1>4. PICK q \in [0 .. Len(w) -> Int] :
        /\ q[0] = 0 /\ \A j \in 1 .. Len(w) : q[j] = q[j - 1] + w[j].size
        /\ TotalOf(w) = q[Len(w)]
  BY TotalOfPrefixes
<1>5. p[Len(w)] - p[0] = q[Len(w)] - q[0]
  <2> DEFINE e == [j \in 1 .. Len(w) |-> w[j].size]
  <2>1. ASSUME NEW j \in 0 .. Len(w) PROVE p[j] \in Int /\ q[j] \in Int
    <3>1. j \in 0 .. Len(x)
      BY <1>1
    <3> QED BY <1>3, <1>4, <3>1
  <2>2. ASSUME NEW j \in 1 .. Len(w)
        PROVE  e[j] \in Int /\ p[j] = p[j - 1] + e[j] /\ q[j] = q[j - 1] + e[j]
    <3>1. j \in 1 .. Len(x) /\ e[j] = w[j].size /\ x[j] = w[j]
      BY <1>1
    <3> HIDE DEF e
    <3> QED BY <1>2, <1>3, <1>4, <3>1
  <2>3. Sums(p, e, Len(w)) /\ Sums(q, e, Len(w))
    <3> HIDE DEF e
    <3> QED BY <2>1, <2>2 DEF Sums
  <2> HIDE DEF e
  <2> QED BY <1>1, <2>3, SamePrefixes
<1>6. p[Len(w) + 1] = p[Len(w)] + v.size
  <2>1. Len(w) + 1 \in 1 .. Len(x) /\ (Len(w) + 1) - 1 = Len(w)
    BY <1>1
  <2> QED BY <1>1, <1>3, <2>1
<1>7. q[Len(w)] \in Int /\ p[Len(w)] \in Int
  BY <1>1, <1>3, <1>4
<1> QED BY <1>1, <1>2, <1>3, <1>4, <1>5, <1>6, <1>7 DEF x

\* The list without its k-th entry.
LEMMA RemoveAtProperties ==
  ASSUME NEW S, NEW w \in Seq(S), NEW k \in 1 .. Len(w)
  PROVE  /\ RemoveAt(w, k) \in Seq(S) /\ Len(w) \in Nat /\ Len(RemoveAt(w, k)) = Len(w) - 1
         /\ \A i \in 1 .. Len(w) - 1 : RemoveAt(w, k)[i] = IF i < k THEN w[i] ELSE w[i + 1]
<1> DEFINE a == SubSeq(w, 1, k - 1)
           b == SubSeq(w, k + 1, Len(w))
<1>1. Len(w) \in Nat /\ \A i \in 1 .. Len(w) : w[i] \in S
  BY LenProperties, ElementOfSeq
<1>2. /\ a \in Seq(S) /\ Len(a) = k - 1 /\ \A i \in 1 .. k - 1 : a[i] = w[i]
  <2>1. \A i \in 1 .. k - 1 : w[i] \in S
    BY <1>1
  <2>2. 1 \in Int /\ k - 1 \in Int
    OBVIOUS
  <2>3. /\ SubSeq(w, 1, k - 1) \in Seq(S)
        /\ Len(SubSeq(w, 1, k - 1)) = IF 1 <= k - 1 THEN (k - 1) - 1 + 1 ELSE 0
        /\ \A i \in 1 .. (k - 1) - 1 + 1 : SubSeq(w, 1, k - 1)[i] = w[1 + i - 1]
    BY <2>1, <2>2, SubSeqProperties
  <2> HIDE DEF a
  <2> QED BY <2>3 DEF a
<1>3. /\ b \in Seq(S) /\ Len(b) = Len(w) - k /\ \A i \in 1 .. Len(w) - k : b[i] = w[k + i]
  <2>1. \A i \in k + 1 .. Len(w) : w[i] \in S
    BY <1>1
  <2>2. k + 1 \in Int /\ Len(w) \in Int
    BY <1>1
  <2>3. /\ SubSeq(w, k + 1, Len(w)) \in Seq(S)
        /\ Len(SubSeq(w, k + 1, Len(w))) = IF k + 1 <= Len(w) THEN Len(w) - (k + 1) + 1 ELSE 0
        /\ \A i \in 1 .. Len(w) - (k + 1) + 1 : SubSeq(w, k + 1, Len(w))[i] = w[(k + 1) + i - 1]
    BY <2>1, <2>2, SubSeqProperties
  <2>4. \A i \in Int : (k + 1) + i - 1 = k + i
    OBVIOUS
  <2>5. Len(w) - (k + 1) + 1 = Len(w) - k
    BY <1>1
  <2> HIDE DEF b
  <2>6. Len(b) = Len(w) - k
    <3>1. Len(b) = IF k + 1 <= Len(w) THEN Len(w) - (k + 1) + 1 ELSE 0
      BY <2>3 DEF b
    <3>2. k + 1 <= Len(w) \/ Len(w) - k = 0
      BY <1>1
    <3> QED BY <2>5, <3>1, <3>2
  <2>7. \A i \in 1 .. Len(w) - k : b[i] = w[(k + 1) + i - 1]
    BY <2>3, <2>5 DEF b
  <2> QED BY <2>3, <2>4, <2>6, <2>7 DEF b
<1>4. RemoveAt(w, k) = a \o b
  BY DEF RemoveAt
<1> HIDE DEF a, b
<1>5. /\ a \o b \in Seq(S) /\ Len(a \o b) = Len(a) + Len(b)
      /\ \A i \in 1 .. Len(a) + Len(b) : (a \o b)[i] = IF i <= Len(a) THEN a[i] ELSE b[i - Len(a)]
  BY <1>2, <1>3, ConcatProperties
<1>6. ASSUME NEW i \in 1 .. Len(w) - 1 PROVE (a \o b)[i] = IF i < k THEN w[i] ELSE w[i + 1]
  <2>1. i \in 1 .. Len(a) + Len(b) /\ (i <= Len(a) <=> i < k) /\ i - Len(a) = i - k + 1
    BY <1>1, <1>2, <1>3
  <2>2. CASE i < k
    BY <1>2, <1>5, <2>1, <2>2
  <2>3. CASE ~ (i < k)
    <3>1. i - k + 1 \in 1 .. Len(w) - k /\ k + (i - k + 1) = i + 1
      BY <1>1, <2>3
    <3>2. (a \o b)[i] = b[i - k + 1]
      BY <1>5, <2>1, <2>3
    <3>3. b[i - k + 1] = w[i + 1]
      BY <1>3, <3>1
    <3> QED BY <2>3, <3>2, <3>3
  <2> QED BY <2>2, <2>3
<1> QED BY <1>1, <1>2, <1>3, <1>4, <1>5, <1>6

\* An entry that goes takes its size off the total.
LEMMA TotalOfRemoveAt ==
  ASSUME NEW w \in Seq(Entries), NEW k \in 1 .. Len(w)
  PROVE  TotalOf(RemoveAt(w, k)) = TotalOf(w) - w[k].size
<1> DEFINE y == RemoveAt(w, k)
           L == Len(w)
<1>1. /\ y \in Seq(Entries) /\ L \in Nat /\ Len(y) = L - 1
      /\ \A i \in 1 .. L - 1 : y[i] = IF i < k THEN w[i] ELSE w[i + 1]
  BY RemoveAtProperties
<1>2. \A i \in 1 .. L : w[i].size \in Int
  <2>1. \A i \in 1 .. Len(w) : w[i] \in Entries
    BY ElementOfSeq
  <2> QED BY <2>1 DEF Entries
<1> HIDE DEF y, L
<1>3. PICK p \in [0 .. Len(y) -> Int] :
        /\ p[0] = 0 /\ \A j \in 1 .. Len(y) : p[j] = p[j - 1] + y[j].size
        /\ TotalOf(y) = p[Len(y)]
  BY <1>1, TotalOfPrefixes
<1>4. PICK q \in [0 .. L -> Int] :
        /\ q[0] = 0 /\ \A j \in 1 .. L : q[j] = q[j - 1] + w[j].size
        /\ TotalOf(w) = q[L]
  BY TotalOfPrefixes DEF L
<1>5. k \in 1 .. L
  BY DEF L
<1>6. /\ \A j \in 0 .. L - 1 : p[j] \in Int
      /\ \A j \in 1 .. L - 1 : p[j] = p[j - 1] + y[j].size
      /\ \A j \in 0 .. L : q[j] \in Int
  BY <1>1, <1>3, <1>4
<1>7. p[k - 1] - p[0] = q[k - 1] - q[0]
  <2> DEFINE e == [j \in 1 .. k - 1 |-> w[j].size]
  <2>1. ASSUME NEW j \in 1 .. k - 1
        PROVE  e[j] \in Int /\ p[j] = p[j - 1] + e[j] /\ q[j] = q[j - 1] + e[j]
    <3>0. e[j] = w[j].size
      OBVIOUS
    <3>1. j \in 1 .. L - 1 /\ j \in 1 .. L /\ j < k /\ e[j] = w[j].size
      <4> HIDE DEF e
      <4> QED BY <1>1, <1>5, <3>0
    <3>2. y[j] = w[j]
      BY <1>1, <3>1
    <3> HIDE DEF e
    <3> QED BY <1>2, <1>4, <1>6, <3>1, <3>2
  <2>2. \A j \in 0 .. k - 1 : p[j] \in Int /\ q[j] \in Int
    BY <1>1, <1>5, <1>6
  <2> HIDE DEF e
  <2>3. Sums(p, e, k - 1) /\ Sums(q, e, k - 1)
    BY <2>1, <2>2 DEF Sums
  <2> QED BY <1>5, <2>3, SamePrefixes
<1>8. p[L - 1] - p[k - 1] = q[L] - q[k]
  <2> DEFINE m == L - k
             e == [j \in 1 .. m |-> w[j + k].size]
             s == [j \in 0 .. m |-> p[j + k - 1]]
             t == [j \in 0 .. m |-> q[j + k]]
  <2>1. m \in Nat /\ k \in Nat
    BY <1>1, <1>5
  <2>2. ASSUME NEW j \in 0 .. m PROVE s[j] \in Int /\ t[j] \in Int
    <3>1. j + k - 1 \in 0 .. L - 1 /\ j + k \in 0 .. L
      BY <1>1, <1>5
    <3> QED BY <1>6, <3>1
  <2>3. ASSUME NEW j \in 1 .. m
        PROVE  e[j] \in Int /\ s[j] = s[j - 1] + e[j] /\ t[j] = t[j - 1] + e[j]
    <3>1. /\ j + k - 1 \in 1 .. L - 1 /\ j + k \in 1 .. L /\ ~ (j + k - 1 < k)
          /\ j \in 0 .. m /\ j - 1 \in 0 .. m
          /\ (j - 1) + k - 1 = (j + k - 1) - 1 /\ (j - 1) + k = (j + k) - 1
          /\ (j + k - 1) + 1 = j + k
      BY <1>1, <1>5
    <3>2. y[j + k - 1] = w[j + k]
      BY <1>1, <3>1
    <3>3. /\ e[j] = w[j + k].size /\ s[j] = p[j + k - 1] /\ s[j - 1] = p[(j + k - 1) - 1]
          /\ t[j] = q[j + k] /\ t[j - 1] = q[(j + k) - 1]
      BY <3>1
    <3> HIDE DEF e, s, t
    <3> QED BY <1>2, <1>4, <1>6, <3>1, <3>2, <3>3
  <2>4. /\ s[0] = p[k - 1] /\ s[m] = p[L - 1] /\ t[0] = q[k] /\ t[m] = q[L]
    <3>1. 0 + k - 1 = k - 1 /\ m + k - 1 = L - 1 /\ 0 + k = k /\ m + k = L /\ 0 \in 0 .. m /\ m \in 0 .. m
      BY <1>1, <2>1
    <3> QED BY <3>1
  <2> HIDE DEF e, s, t, m
  <2>5. Sums(s, e, m) /\ Sums(t, e, m)
    BY <2>2, <2>3 DEF Sums
  <2>6. s[m] - s[0] = t[m] - t[0]
    BY <2>1, <2>5, SamePrefixes
  <2> QED BY <2>4, <2>6
<1>9. q[k] = q[k - 1] + w[k].size
  BY <1>4, <1>5
<1>10. /\ p[L - 1] \in Int /\ p[k - 1] \in Int /\ q[L] \in Int /\ q[k] \in Int /\ q[k - 1] \in Int
       /\ w[k].size \in Int
  BY <1>1, <1>2, <1>5, <1>6
<1>11. TotalOf(y) = q[L] - w[k].size
  <2> DEFINE a == p[L - 1]  b == p[k - 1]  c == q[L]  d == q[k]  e == q[k - 1]
             v == w[k].size
  <2>1. TotalOf(y) = a /\ p[0] = 0 /\ q[0] = 0
    BY <1>1, <1>3, <1>4
  <2>2. b - p[0] = e - q[0] /\ a - b = c - d /\ d = e + v
    BY <1>7, <1>8, <1>9
  <2>3. a \in Int /\ b \in Int /\ c \in Int /\ d \in Int /\ e \in Int /\ v \in Int
    BY <1>10
  <2> HIDE DEF a, b, c, d, e, v
  <2>4. a = c - v
    BY <2>1, <2>2, <2>3
  <2> QED BY <2>1, <2>4 DEF c, v
<1> QED BY <1>4, <1>11 DEF y

-----------------------------------------------------------------------------
\* The nodes of a list, main_vect before the first entry.
Node(w, i) == IF i = 0 THEN MainVect ELSE w[i].addr

\* w is what one gets by walking from main_vect.
IsWalk(w, nx, sz) ==
  /\ w \in Seq(Entries)
  /\ \A i \in 1 .. Len(w) : w[i] = [addr |-> w[i].addr, size |-> sz[w[i].addr]]
  /\ \A i, j \in 1 .. Len(w) : w[i].addr = w[j].addr => i = j
  /\ \A i \in 0 .. Len(w) : nx[Node(w, i)] = IF i = Len(w) THEN Null ELSE w[i + 1].addr

\* Walk, of what the links and the sizes are.
Onward(f, n, nx, sz) ==
  IF n = 0 THEN <<>>
  ELSE LET w == f[n - 1]
           a == nx[IF w = <<>> THEN MainVect ELSE w[Len(w)].addr]
       IN IF Len(w) < n - 1 \/ a = Null THEN w
          ELSE Append(w, [addr |-> a, size |-> sz[a]])
IsOnward(f, nx, sz) == f = [n \in 0 .. Cardinality(Addrs) |-> Onward(f, n, nx, sz)]
WalkOf(nx, sz) == (CHOOSE f : IsOnward(f, nx, sz))[Cardinality(Addrs)]

\* The list is no longer than there are addresses.
LEMMA WalkFits ==
  ASSUME NEW nx, NEW sz, NEW w, IsWalk(w, nx, sz)
  PROVE  Len(w) \in Nat /\ Cardinality(Addrs) \in Nat /\ Len(w) <= Cardinality(Addrs)
<1>1. Len(w) \in Nat /\ Cardinality(Addrs) \in Nat
  BY AddrsAssumption, LenProperties, FS_CardinalityType DEF IsWalk
<1>2. IsFiniteSet(1 .. Len(w)) /\ Cardinality(1 .. Len(w)) = Len(w)
  <2>1. 1 \in Int /\ Len(w) \in Int
    BY <1>1
  <2>2. /\ IsFiniteSet(1 .. Len(w))
        /\ Cardinality(1 .. Len(w)) = IF 1 > Len(w) THEN 0 ELSE Len(w) - 1 + 1
    BY <2>1, FS_Interval
  <2> QED BY <1>1, <2>2
<1> DEFINE f == [i \in 1 .. Len(w) |-> w[i].addr]
<1>3. f \in [1 .. Len(w) -> Addrs]
  <2>1. \A i \in 1 .. Len(w) : w[i] \in Entries
    BY ElementOfSeq DEF IsWalk
  <2> QED BY <2>1 DEF Entries
<1>4. \A i, j \in 1 .. Len(w) : f[i] = f[j] => i = j
  BY DEF IsWalk
<1> HIDE DEF f
<1>5. ~ (Cardinality(Addrs) < Cardinality(1 .. Len(w)))
  BY AddrsAssumption, <1>2, <1>3, <1>4, FS_PigeonHole
<1> QED BY <1>1, <1>2, <1>5

\* A step of the walk.
LEMMA OnwardStep ==
  ASSUME NEW nx, NEW sz, NEW w, IsWalk(w, nx, sz), NEW f, NEW n \in Nat,
         IF n <= Len(w) THEN f[n] = SubSeq(w, 1, n) ELSE f[n] = w
  PROVE  IF n + 1 <= Len(w) THEN Onward(f, n + 1, nx, sz) = SubSeq(w, 1, n + 1)
         ELSE Onward(f, n + 1, nx, sz) = w
<1>1. /\ Len(w) \in Nat /\ w \in Seq(Entries) /\ \A i \in 1 .. Len(w) : w[i] \in Entries
  BY LenProperties, ElementOfSeq DEF IsWalk
<1>2. (n + 1) - 1 = n /\ n + 1 # 0
  OBVIOUS
<1>3. CASE n < Len(w)
  <2> DEFINE v == SubSeq(w, 1, n)
  <2>1. v \in Seq(Entries) /\ Len(v) = n /\ \A i \in 1 .. n : v[i] = w[i]
    <3>1. \A i \in 1 .. n : w[i] \in Entries
      BY <1>1, <1>3
    <3>2. /\ SubSeq(w, 1, n) \in Seq(Entries)
          /\ Len(SubSeq(w, 1, n)) = IF 1 <= n THEN n - 1 + 1 ELSE 0
          /\ \A i \in 1 .. n - 1 + 1 : SubSeq(w, 1, n)[i] = w[1 + i - 1]
      BY <3>1, SubSeqProperties
    <3> HIDE DEF v
    <3> QED BY <3>2 DEF v
  <2>2. f[n] = v
    BY <1>3
  <2> HIDE DEF v
  <2>3. nx[IF v = <<>> THEN MainVect ELSE v[Len(v)].addr] = w[n + 1].addr
    <3>1. (IF v = <<>> THEN MainVect ELSE v[Len(v)].addr) = Node(w, n)
      <4>1. CASE n = 0
        BY <2>1, <4>1, EmptySeq DEF Node
      <4>2. CASE n # 0
        <5>1. v # <<>> /\ v[Len(v)] = w[n]
          BY <2>1, <4>2, EmptySeq
        <5> QED BY <4>2, <5>1 DEF Node
      <4> QED BY <4>1, <4>2
    <3>2. n \in 0 .. Len(w)
      BY <1>1, <1>3
    <3> QED BY <1>3, <3>1, <3>2 DEF IsWalk
  <2>4. w[n + 1].addr # Null /\ w[n + 1] = [addr |-> w[n + 1].addr, size |-> sz[w[n + 1].addr]]
    <3>1. n + 1 \in 1 .. Len(w)
      BY <1>1, <1>3
    <3> QED BY <1>1, <3>1 DEF IsWalk, Entries
  <2>5. Onward(f, n + 1, nx, sz) = Append(v, w[n + 1])
    BY <1>2, <2>1, <2>2, <2>3, <2>4 DEF Onward
  <2>6. SubSeq(w, 1, n + 1) = Append(v, w[n + 1])
    <3>1. 1 \in 1 .. Len(w) /\ n + 1 \in 1 .. Len(w) /\ w[n + 1] \in Entries
      BY <1>1, <1>3
    <3>2. SubSeq(w, 1, n + 1) = SubSeq(w, 1, n) \o <<w[n + 1]>>
      BY <1>1, <1>2, <3>1, SubSeqRecursiveSecond
    <3>3. Append(v, w[n + 1]) = v \o <<w[n + 1]>>
      BY <2>1, <3>1, AppendIsConcat
    <3> QED BY <3>2, <3>3 DEF v
  <2>7. n + 1 <= Len(w)
    BY <1>1, <1>3
  <2> QED BY <2>5, <2>6, <2>7
<1>4. CASE ~ (n < Len(w))
  <2>1. f[n] = w
    BY <1>1, <1>4, SubSeqFull
  <2>2. (IF w = <<>> THEN MainVect ELSE w[Len(w)].addr) = Node(w, Len(w))
    BY <1>1, EmptySeq DEF Node
  <2>3. nx[Node(w, Len(w))] = Null
    BY <1>1 DEF IsWalk
  <2>4. Onward(f, n + 1, nx, sz) = w
    BY <1>2, <2>1, <2>2, <2>3 DEF Onward
  <2> QED BY <1>1, <1>4, <2>4
<1> QED BY <1>1, <1>3, <1>4

\* Walking gives the list there is.
LEMMA WalkIs ==
  ASSUME NEW nx, NEW sz, NEW w, IsWalk(w, nx, sz)
  PROVE  WalkOf(nx, sz) = w
<1> DEFINE N == Cardinality(Addrs)
           v(n) == IF n <= Len(w) THEN SubSeq(w, 1, n) ELSE w
           g == [n \in 0 .. N |-> v(n)]
<1>1. Len(w) \in Nat /\ N \in Nat /\ Len(w) <= N /\ w \in Seq(Entries)
  BY WalkFits DEF IsWalk
<1>2. ASSUME NEW f, NEW n \in Nat, f[n] = v(n)
      PROVE  Onward(f, n + 1, nx, sz) = v(n + 1)
  <2>1. IF n <= Len(w) THEN f[n] = SubSeq(w, 1, n) ELSE f[n] = w
    BY <1>2
  <2>2. IF n + 1 <= Len(w) THEN Onward(f, n + 1, nx, sz) = SubSeq(w, 1, n + 1)
        ELSE Onward(f, n + 1, nx, sz) = w
    BY <2>1, OnwardStep
  <2> QED BY <2>2
<1>3. v(0) = <<>> /\ v(N) = w /\ \A f : Onward(f, 0, nx, sz) = <<>>
  <2>1. v(0) = <<>>
    BY <1>1, SubSeqEmpty
  <2>2. v(N) = w
    BY <1>1, SubSeqFull
  <2> QED BY <2>1, <2>2 DEF Onward
<1> HIDE DEF v, N
<1>4. \E f : IsOnward(f, nx, sz)
  <2>1. ASSUME NEW n \in 0 .. N PROVE v(n) = Onward(g, n, nx, sz)
    <3>1. CASE n = 0
      BY <1>3, <3>1
    <3>2. CASE n # 0
      <4>1. n - 1 \in Nat /\ n - 1 \in 0 .. N /\ (n - 1) + 1 = n
        BY <1>1, <3>2
      <4>2. g[n - 1] = v(n - 1)
        BY <4>1
      <4> HIDE DEF g
      <4>3. Onward(g, (n - 1) + 1, nx, sz) = v((n - 1) + 1)
        BY <1>2, <4>1, <4>2
      <4> QED BY <4>1, <4>3
    <3> QED BY <3>1, <3>2
  <2>2. g = [n \in 0 .. N |-> Onward(g, n, nx, sz)]
    BY <2>1
  <2> HIDE DEF g
  <2> QED BY <2>2 DEF IsOnward, N
<1> DEFINE f == CHOOSE f : IsOnward(f, nx, sz)
<1>5. IsOnward(f, nx, sz)
  BY <1>4
<1>6. WalkOf(nx, sz) = f[N]
  BY DEF WalkOf, N
<1> HIDE DEF f, g
<1>7. \A n \in 0 .. N : f[n] = Onward(f, n, nx, sz)
  BY <1>5 DEF IsOnward, N
<1> DEFINE P == {n \in Nat : n <= N => f[n] = v(n)}
<1>8. 0 \in P
  BY <1>1, <1>3, <1>7
<1>9. ASSUME NEW n \in Nat, n \in P PROVE n + 1 \in P
  <2> SUFFICES ASSUME n + 1 <= N PROVE f[n + 1] = v(n + 1)
    OBVIOUS
  <2>1. f[n] = v(n) /\ n + 1 \in 0 .. N
    BY <1>1, <1>9
  <2> QED BY <1>2, <1>7, <2>1
<1>10. N \in P
  <2> HIDE DEF P
  <2> QED BY <1>1, <1>8, <1>9, Induction
<1> QED BY <1>1, <1>3, <1>6, <1>10

-----------------------------------------------------------------------------
\* Walk depends on the links and on the sizes.
LEMMA WalkFromLinks == Walk = WalkOf(next, size)
BY DEF Walk, WalkOf, IsOnward, Onward

\* w is the list: its nodes are the vectors that are live, and the memory in
\* use is theirs.
Listing(w) ==
  /\ IsWalk(w, next, size)
  /\ live = {w[i].addr : i \in 1 .. Len(w)}
  /\ last_vect = Node(w, Len(w))
  /\ required_memory = TotalOf(w)
  /\ required_memory <= max_required_memory

\* There is a list.
Listed == \E w : Listing(w)

\* At the start it is empty.
LEMMA InitListed == Init => Listing(<<>>)
<1> SUFFICES ASSUME Init PROVE Listing(<<>>)
  OBVIOUS
<1>1. /\ live = {} /\ last_vect = MainVect /\ next[MainVect] = Null
      /\ required_memory = 0 /\ max_required_memory = 0
  BY DEF Init
<1>2. <<>> \in Seq(Entries) /\ Len(<<>>) = 0
  OBVIOUS
<1>3. TotalOf(<<>>) = 0
  <2>1. PICK q \in [0 .. Len(<<>>) -> Int] : q[0] = 0 /\ TotalOf(<<>>) = q[Len(<<>>)]
    BY <1>2, TotalOfPrefixes
  <2> QED BY <1>2, <2>1
<1>4. 1 .. 0 = {} /\ 0 .. 0 = {0}
  OBVIOUS
<1>5. IsWalk(<<>>, next, size)
  BY <1>1, <1>2, <1>4 DEF IsWalk, Node
<1>6. {<<>>[i].addr : i \in 1 .. Len(<<>>)} = {}
  BY <1>2, <1>4
<1> QED BY <1>1, <1>2, <1>3, <1>5, <1>6 DEF Listing, Node

\* The entries of the list.
LEMMA ListingFacts ==
  ASSUME NEW w, Listing(w)
  PROVE  /\ w \in Seq(Entries) /\ Len(w) \in Nat
         /\ \A i \in 1 .. Len(w) : /\ w[i] \in Entries /\ w[i].addr \in Addrs
                                  /\ w[i].addr \in live /\ w[i].size \in Nat
                                  /\ w[i].size = size[w[i].addr]
                                  /\ w[i] = [addr |-> w[i].addr, size |-> size[w[i].addr]]
         /\ \A i \in 0 .. Len(w) : Node(w, i) \in live \cup {MainVect}
         /\ \A i, j \in 0 .. Len(w) : Node(w, i) = Node(w, j) => i = j
<1>1. w \in Seq(Entries) /\ Len(w) \in Nat /\ \A i \in 1 .. Len(w) : w[i] \in Entries
  BY LenProperties, ElementOfSeq DEF Listing, IsWalk
<1>2. \A i \in 1 .. Len(w) : w[i].addr \in Addrs /\ w[i].size \in Nat
  BY <1>1 DEF Entries
<1>3. /\ \A i \in 1 .. Len(w) : w[i].addr \in live
      /\ \A i \in 1 .. Len(w) : w[i] = [addr |-> w[i].addr, size |-> size[w[i].addr]]
      /\ \A i, j \in 1 .. Len(w) : w[i].addr = w[j].addr => i = j
  BY DEF Listing, IsWalk
<1>4. ASSUME NEW i \in 1 .. Len(w) PROVE w[i].size = size[w[i].addr]
  <2> DEFINE a == w[i].addr
  <2>1. w[i] = [addr |-> a, size |-> size[a]]
    BY <1>3
  <2> HIDE DEF a
  <2>2. w[i].size = size[a]
    BY <2>1
  <2> QED BY <2>2 DEF a
<1>5. \A i \in 0 .. Len(w) : i = 0 \/ i \in 1 .. Len(w)
  BY <1>1
<1>6. \A i \in 0 .. Len(w) : Node(w, i) \in live \cup {MainVect}
  BY <1>3, <1>5 DEF Node
<1>7. ASSUME NEW i \in 0 .. Len(w), NEW j \in 0 .. Len(w), Node(w, i) = Node(w, j)
      PROVE  i = j
  <2>1. CASE i = 0 /\ j # 0
    BY <1>2, <1>5, <1>7, <2>1 DEF Node
  <2>2. CASE j = 0 /\ i # 0
    BY <1>2, <1>5, <1>7, <2>2 DEF Node
  <2>3. CASE i # 0 /\ j # 0
    BY <1>3, <1>5, <1>7, <2>3 DEF Node
  <2> QED BY <2>1, <2>2, <2>3
<1> QED BY <1>1, <1>2, <1>3, <1>4, <1>6, <1>7

\* internal_nissa_malloc appends a vector to the list.
LEMMA AllocListed ==
  ASSUME IInv, Alloc, NEW w, Listing(w)
  PROVE  \E nv \in Addrs \ live, n \in Sizes :
           /\ Listing(Append(w, [addr |-> nv, size |-> n]))'
           /\ required_memory' = required_memory + n
<1>1. PICK nv \in Addrs \ live :
       /\ live' = live \cup {nv}
       /\ size' = [size EXCEPT ![nv] = op(Master).nel]
       /\ next' = [next EXCEPT ![last_vect] = nv, ![nv] = Null]
       /\ last_vect' = nv
  BY DEF Alloc
<1>0. PICK n : n = op(Master).nel
  OBVIOUS
<1> DEFINE e == [addr |-> nv, size |-> n]
           x == Append(w, e)
           L == Len(w)
<1>2. /\ required_memory' = required_memory + n
      /\ max_required_memory' = IF required_memory' > max_required_memory
                                THEN required_memory' ELSE max_required_memory
      /\ n \in Sizes /\ n \in Nat
  <2>1. op(Master) \in Ops /\ op(Master).kind = "malloc"
    BY OpInOps, MasterInTeam DEF IInv, Phases, Alloc
  <2> QED BY <1>0, <2>1, OpFields DEF Alloc
<1>3. e \in Entries /\ e.addr = nv /\ e.size = n
  BY <1>2 DEF Entries
<1> HIDE DEF e
<1>4. /\ w \in Seq(Entries) /\ L \in Nat
      /\ \A i \in 1 .. L : /\ w[i] \in Entries /\ w[i].addr \in live /\ w[i].addr # nv
                          /\ w[i].addr # MainVect
                          /\ w[i] = [addr |-> w[i].addr, size |-> size[w[i].addr]]
      /\ \A i, j \in 0 .. L : Node(w, i) = Node(w, j) => i = j
      /\ \A i, j \in 1 .. L : w[i].addr = w[j].addr => i = j
  BY ListingFacts DEF Listing, IsWalk
<1>5. /\ x \in Seq(Entries) /\ Len(x) = L + 1 /\ x[L + 1] = e
      /\ \A i \in 1 .. L : x[i] = w[i]
  BY <1>3, <1>4, AppendProperties
<1> HIDE DEF x
<1>6. /\ \A i \in 1 .. L : size'[w[i].addr] = size[w[i].addr]
      /\ size'[nv] = n
  BY <1>0, <1>1, <1>4 DEF IInv, TypeOK
<1>7. /\ \A i \in 0 .. L : Node(x, i) = Node(w, i)
      /\ Node(x, L + 1) = nv
  BY <1>3, <1>4, <1>5 DEF Node
<1>8. \A i \in 1 .. L + 1 : i \in 1 .. L \/ i = L + 1
  BY <1>4
<1>9. \A i \in 1 .. Len(x) : x[i] = [addr |-> x[i].addr, size |-> size'[x[i].addr]]
  <2>1. ASSUME NEW i \in 1 .. L
        PROVE  x[i] = [addr |-> x[i].addr, size |-> size'[x[i].addr]]
    BY <1>4, <1>5, <1>6
  <2>2. x[L + 1] = [addr |-> x[L + 1].addr, size |-> size'[x[L + 1].addr]]
    BY <1>3, <1>5, <1>6 DEF e
  <2> QED BY <1>5, <1>8, <2>1, <2>2
<1>10. \A i, j \in 1 .. Len(x) : x[i].addr = x[j].addr => i = j
  BY <1>3, <1>4, <1>5, <1>8
<1>11. ASSUME NEW i \in 0 .. Len(x)
       PROVE  next'[Node(x, i)] = IF i = Len(x) THEN Null ELSE x[i + 1].addr
  <2>0. /\ next \in [Addrs \cup {MainVect} -> Addrs \cup {Null}] /\ live \subseteq Addrs
        /\ last_vect \in live \cup {MainVect} /\ last_vect = Node(w, L)
    BY DEF IInv, TypeOK, Listing
  <2>1. CASE i = L + 1
    BY <1>1, <1>5, <1>7, <2>0, <2>1
  <2>2. CASE i = L
    BY <1>1, <1>3, <1>4, <1>5, <1>7, <2>0, <2>2
  <2>3. CASE i < L
    <3>1. i \in 0 .. L /\ i + 1 \in 1 .. L /\ i # Len(x) /\ i # L
      BY <1>4, <1>5, <2>3
    <3>2. Node(w, i) # last_vect /\ Node(w, i) \in live \cup {MainVect}
      BY <1>4, <2>0, <3>1, ListingFacts
    <3>3. next'[Node(w, i)] = next[Node(w, i)]
      BY <1>1, <2>0, <3>2
    <3>4. next[Node(w, i)] = w[i + 1].addr
      BY <3>1 DEF Listing, IsWalk
    <3> QED BY <1>5, <1>7, <3>1, <3>3, <3>4
  <2> QED BY <1>4, <1>5, <2>1, <2>2, <2>3
<1>12. IsWalk(x, next', size')
  BY <1>5, <1>9, <1>10, <1>11 DEF IsWalk
<1>13. live' = {x[i].addr : i \in 1 .. Len(x)}
  <2>1. live = {w[i].addr : i \in 1 .. L}
    BY DEF Listing
  <2>2. \A i \in 1 .. L : i \in 1 .. Len(x) /\ x[i].addr = w[i].addr
    BY <1>4, <1>5
  <2>3. L + 1 \in 1 .. Len(x) /\ x[L + 1].addr = nv
    BY <1>3, <1>4, <1>5
  <2> QED BY <1>1, <1>5, <1>8, <2>1, <2>2, <2>3
<1>14. required_memory' = TotalOf(x)
  BY <1>2, <1>3, <1>4, TotalOfAppend DEF x, Listing
<1>15. required_memory' <= max_required_memory'
  BY <1>2 DEF IInv, TypeOK
<1>16. Listing(x)'
  BY <1>1, <1>5, <1>7, <1>12, <1>13, <1>14, <1>15 DEF Listing
<1> QED BY <1>2, <1>16 DEF x, e

\* internal_nissa_free takes a vector out of the list.
LEMMA DetachListed ==
  ASSUME IInv, Detach, NEW w, Listing(w)
  PROVE  \E k \in 1 .. Len(w) : /\ Listing(RemoveAt(w, k))'
                               /\ required_memory' = required_memory - w[k].size
<1> DEFINE vect == var[Master][op(Master).s]
           L == Len(w)
<1>1. /\ next' = [next EXCEPT ![prev[vect]] = next[vect]]
      /\ last_vect' = IF next[vect] = Null THEN prev[vect] ELSE last_vect
      /\ required_memory' = required_memory - size[vect]
      /\ live' = live \ {vect}
      /\ size' = size /\ max_required_memory' = max_required_memory
  BY DEF Detach
<1>2. vect \in live
  <2>1. op(Master).kind \in Using /\ ip[Master] <= nops /\ pc[Master] = "detach"
    BY MasterInTeam DEF IInv, Phases, Detach, Using
  <2> QED BY <2>1, UsesHeld, MasterInTeam
<1> HIDE DEF vect
<1>3. /\ w \in Seq(Entries) /\ L \in Nat
      /\ \A i \in 1 .. L : /\ w[i].addr \in live /\ w[i].size \in Nat
                          /\ w[i].size = size[w[i].addr]
                          /\ w[i] = [addr |-> w[i].addr, size |-> size[w[i].addr]]
      /\ \A i, j \in 0 .. L : Node(w, i) = Node(w, j) => i = j
      /\ \A i, j \in 1 .. L : w[i].addr = w[j].addr => i = j
      /\ \A i \in 0 .. L : Node(w, i) \in live \cup {MainVect}
  BY ListingFacts DEF Listing, IsWalk
<1>4. PICK k \in 1 .. L : w[k].addr = vect
  BY <1>2 DEF Listing
<1> DEFINE y == RemoveAt(w, k)
<1>5. /\ y \in Seq(Entries) /\ Len(y) = L - 1 /\ L - 1 \in Nat
      /\ \A i \in 1 .. L - 1 : y[i] = IF i < k THEN w[i] ELSE w[i + 1]
  BY <1>3, <1>4, RemoveAtProperties
<1> HIDE DEF y
<1>6. /\ \A i \in 0 .. L : next[Node(w, i)] = IF i = L THEN Null ELSE w[i + 1].addr
      /\ next \in [Addrs \cup {MainVect} -> Addrs \cup {Null}]
      /\ live \subseteq Addrs
  BY DEF Listing, IsWalk, IInv, TypeOK
<1>7. /\ k \in 0 .. L /\ k - 1 \in 0 .. L /\ (k - 1) + 1 = k /\ k # 0 /\ k - 1 # L
      /\ Node(w, k) = vect
  BY <1>3, <1>4 DEF Node
<1>8. prev[vect] = Node(w, k - 1)
  <2>1. next[Node(w, k - 1)] = vect
    BY <1>4, <1>6, <1>7
  <2>2. vect # Null
    BY <1>2, <1>6
  <2>3. Node(w, k - 1) \in live \cup {MainVect}
    BY <1>3, <1>7
  <2> QED BY <2>1, <2>2, <2>3 DEF IInv, ListLinked
<1>9. \A i \in 0 .. L - 1 : Node(y, i) = Node(w, IF i < k THEN i ELSE i + 1)
  <2> TAKE i \in 0 .. L - 1
  <2>1. i = 0 \/ i \in 1 .. L - 1
    BY <1>5
  <2>2. CASE i = 0
    BY <1>4, <2>2 DEF Node
  <2>3. CASE i # 0
    <3>1. i + 1 # 0
      BY <2>1, <2>3
    <3> QED BY <1>5, <2>1, <2>3, <3>1 DEF Node
  <2> QED BY <2>2, <2>3
<1>10. \A i \in 1 .. Len(y) : y[i] = [addr |-> y[i].addr, size |-> size[y[i].addr]]
  <2> TAKE i \in 1 .. Len(y)
  <2>1. i \in 1 .. L - 1 /\ i \in 1 .. L /\ i + 1 \in 1 .. L
    BY <1>3, <1>5
  <2> QED BY <1>3, <1>5, <2>1
<1>11. \A i, j \in 1 .. Len(y) : y[i].addr = y[j].addr => i = j
  <2> TAKE i, j \in 1 .. Len(y)
  <2>1. i \in 1 .. L - 1 /\ i \in 1 .. L /\ i + 1 \in 1 .. L
    BY <1>3, <1>5
  <2>2. j \in 1 .. L - 1 /\ j \in 1 .. L /\ j + 1 \in 1 .. L
    BY <1>3, <1>5
  <2> DEFINE p(a) == IF a < k THEN a ELSE a + 1
  <2>3. y[i] = w[p(i)] /\ y[j] = w[p(j)] /\ p(i) \in 1 .. L /\ p(j) \in 1 .. L
    BY <1>5, <2>1, <2>2
  <2>4. p(i) = p(j) => i = j
    BY <1>4, <2>1, <2>2
  <2> HIDE DEF p
  <2> QED BY <1>3, <2>3, <2>4
<1>12. ASSUME NEW i \in 0 .. Len(y)
       PROVE  next'[Node(y, i)] = IF i = Len(y) THEN Null ELSE y[i + 1].addr
  <2> DEFINE p == IF i < k THEN i ELSE i + 1
  <2>0. p \in 0 .. L /\ p # k /\ Node(y, i) = Node(w, p) /\ (p = k - 1 <=> i = k - 1)
    BY <1>4, <1>5, <1>9
  <2>1. Node(w, p) \in Addrs \cup {MainVect}
    BY <1>3, <1>6, <2>0
  <2>2. CASE i = k - 1
    <3>1. next'[Node(y, i)] = next[vect]
      BY <1>1, <1>6, <1>8, <2>0, <2>1, <2>2
    <3>2. next[vect] = IF k = L THEN Null ELSE w[k + 1].addr
      BY <1>6, <1>7
    <3>3. i = Len(y) <=> k = L
      BY <1>3, <1>5, <1>7, <2>2
    <3>4. k # L => y[i + 1] = w[k + 1]
      <4>1. k # L => k \in 1 .. L - 1 /\ i + 1 = k /\ ~ (k < k)
        BY <1>3, <1>4, <2>2
      <4> QED BY <1>5, <4>1
    <3> QED BY <3>1, <3>2, <3>3, <3>4
  <2>3. CASE i # k - 1
    <3>1. Node(w, p) # prev[vect]
      BY <1>3, <1>7, <1>8, <2>0, <2>3
    <3>2. next'[Node(y, i)] = next[Node(w, p)]
      BY <1>1, <1>6, <2>0, <2>1, <3>1
    <3>3. next[Node(w, p)] = IF p = L THEN Null ELSE w[p + 1].addr
      BY <1>6, <2>0
    <3>4. i = Len(y) <=> p = L
      BY <1>3, <1>4, <1>5, <2>3
    <3>5. i # Len(y) => y[i + 1] = w[p + 1]
      <4>1. i # Len(y) => /\ i + 1 \in 1 .. L - 1
                          /\ p + 1 = IF i + 1 < k THEN i + 1 ELSE (i + 1) + 1
        BY <1>3, <1>4, <1>5, <2>3
      <4> HIDE DEF p
      <4> QED BY <1>5, <4>1
    <3> HIDE DEF p
    <3> QED BY <3>2, <3>3, <3>4, <3>5
  <2> QED BY <2>2, <2>3
<1>13. IsWalk(y, next', size')
  BY <1>1, <1>5, <1>10, <1>11, <1>12 DEF IsWalk
<1>14. live' = {y[i].addr : i \in 1 .. Len(y)}
  <2>1. live = {w[i].addr : i \in 1 .. L}
    BY DEF Listing
  <2>2. ASSUME NEW i \in 1 .. Len(y) PROVE y[i].addr \in live'
    <3> DEFINE p == IF i < k THEN i ELSE i + 1
    <3>1. p \in 1 .. L /\ p # k /\ y[i] = w[p]
      BY <1>3, <1>4, <1>5
    <3> HIDE DEF p
    <3> QED BY <1>1, <1>3, <1>4, <3>1
  <2>3. ASSUME NEW a \in live' PROVE \E i \in 1 .. Len(y) : a = y[i].addr
    <3>1. PICK j \in 1 .. L : a = w[j].addr
      BY <1>1, <2>1, <2>3
    <3>2. j # k
      BY <1>1, <1>4, <2>3, <3>1
    <3> DEFINE i == IF j < k THEN j ELSE j - 1
    <3>3. i \in 1 .. L - 1 /\ j = IF i < k THEN i ELSE i + 1
      BY <1>3, <1>4, <3>2
    <3> HIDE DEF i
    <3>4. y[i] = w[j]
      BY <1>5, <3>3
    <3> QED BY <1>5, <3>1, <3>3, <3>4
  <2> QED BY <2>2, <2>3
<1>15. last_vect' = Node(y, Len(y))
  <2>1. next[vect] = IF k = L THEN Null ELSE w[k + 1].addr
    BY <1>6, <1>7
  <2>2. k # L => w[k + 1].addr # Null
    <3>1. k # L => k + 1 \in 1 .. L
      BY <1>3, <1>4
    <3> QED BY <1>3, <1>6, <3>1
  <2>3. L - 1 \in 0 .. L - 1 /\ (L - 1 < k <=> k = L) /\ (L - 1) + 1 = L
    BY <1>3, <1>4, <1>5
  <2>4. Node(y, Len(y)) = Node(w, IF k = L THEN L - 1 ELSE L)
    BY <1>5, <1>9, <2>3
  <2>5. last_vect = Node(w, L)
    BY DEF Listing
  <2> QED BY <1>1, <1>8, <2>1, <2>2, <2>4, <2>5
<1>16. required_memory' = TotalOf(y) /\ required_memory' = required_memory - w[k].size
  <2>1. required_memory = TotalOf(w)
    BY DEF Listing
  <2>2. TotalOf(y) = TotalOf(w) - w[k].size
    BY <1>3, <1>4, TotalOfRemoveAt DEF y
  <2>3. w[k].size = size[vect]
    BY <1>3, <1>4
  <2> QED BY <1>1, <2>1, <2>2, <2>3
<1>17. required_memory' <= max_required_memory'
  <2>1. required_memory <= max_required_memory /\ w[k].size \in Nat
    BY <1>3, <1>4 DEF Listing
  <2>2. required_memory \in Int /\ max_required_memory \in Int
    BY DEF IInv, TypeOK
  <2> QED BY <1>1, <1>16, <2>1, <2>2
<1>18. Listing(y)'
  BY <1>13, <1>14, <1>15, <1>16, <1>17 DEF Listing
<1> QED BY <1>16, <1>18 DEF y

\* What does not touch the list leaves it as it is.
LEMMA KeepsListed ==
  ASSUME NEW w, Listing(w), UNCHANGED list
  PROVE  Listing(w)'
BY DEF Listing, list

\* Every step takes a list to a list.
LEMMA NextListed ==
  ASSUME IInv, [Next]_vars, NEW w, Listing(w)
  PROVE  \/ \E nv \in Addrs \ live, n \in Sizes :
              /\ Listing(Append(w, [addr |-> nv, size |-> n]))'
              /\ required_memory' = required_memory + n
         \/ \E k \in 1 .. Len(w) : /\ Listing(RemoveAt(w, k))'
                                  /\ required_memory' = required_memory - w[k].size
         \/ Listing(w)' /\ required_memory' = required_memory
<1>1. CASE Alloc
  BY <1>1, AllocListed
<1>2. CASE Detach
  BY <1>2, DetachListed
<1>3. ASSUME UNCHANGED list PROVE Listing(w)' /\ required_memory' = required_memory
  BY <1>3, KeepsListed DEF list
<1>4. CASE Choose \/ Fork \/ Barrier \/ Memset \/ UNCHANGED vars
  <2>1. UNCHANGED list
    BY <1>4 DEF Choose, Fork, Barrier, Memset, vars
  <2> QED BY <1>3, <2>1
<1>5. ASSUME NEW t \in Threads, ThreadStep(t)
      PROVE  Listing(w)' /\ required_memory' = required_memory
  <2>1. UNCHANGED list
    BY <1>5 DEF ThreadStep, Begin, Take, Loop, Copy, Test, SetFlag
  <2> QED BY <1>3, <2>1
<1> QED BY <1>1, <1>2, <1>4, <1>5 DEF Next

\* There is a list in every state.
LEMMA AlwaysListed == Spec => []Listed
<1>1. Init => Listed
  BY InitListed DEF Listed
<1>2. IInv /\ Listed /\ [Next]_vars => Listed'
  BY NextListed DEF Listed
<1> QED BY <1>1, <1>2, Inductive, PTL DEF Spec

\* The memory that nissa says is in use is what compute_vect_memory_usage adds
\* up by walking the list, and the maximum is no less.
THEOREM MemoryHolds == Spec => []MemoryAccounted
<1>1. Listed => MemoryAccounted
  <2> SUFFICES ASSUME NEW w, Listing(w) PROVE MemoryAccounted
    BY DEF Listed
  <2>1. Walk = w
    BY WalkFromLinks, WalkIs DEF Listing
  <2>2. compute_vect_memory_usage = TotalOf(w)
    BY <2>1 DEF compute_vect_memory_usage, TotalOf
  <2> QED BY <2>2 DEF Listing, MemoryAccounted
<1> QED BY <1>1, AlwaysListed, PTL

\* A step of the manager of vectors is one of the abstract list, or none.
LEMMA Simulates ==
  ASSUME IInv, Listed, [Next]_vars
  PROVE  [Abstract!Next]_<<Walk, required_memory>>
<1>1. PICK w : Listing(w)
  BY DEF Listed
<1>2. Walk = w /\ Len(w) \in Nat /\ live = {w[i].addr : i \in DOMAIN w} /\ DOMAIN w = 1 .. Len(w)
  <2>1. w \in Seq(Entries)
    BY <1>1, ListingFacts
  <2>2. DOMAIN w = 1 .. Len(w) /\ Len(w) \in Nat
    BY <2>1, LenProperties
  <2> QED BY <1>1, <2>2, WalkFromLinks, WalkIs DEF Listing
<1>3. ASSUME NEW x, Listing(x)' PROVE Walk' = x
  <2>1. IsWalk(x, next', size')
    BY <1>3 DEF Listing
  <2>2. WalkOf(next', size') = x
    BY <2>1, WalkIs
  <2>3. Walk' = WalkOf(next', size')
    BY DEF Walk, WalkOf, IsOnward, Onward
  <2> QED BY <2>2, <2>3
<1>4. CASE \E nv \in Addrs \ live, n \in Sizes :
             /\ Listing(Append(w, [addr |-> nv, size |-> n]))'
             /\ required_memory' = required_memory + n
  <2>1. PICK nv \in Addrs \ live, n \in Sizes :
          /\ Listing(Append(w, [addr |-> nv, size |-> n]))'
          /\ required_memory' = required_memory + n
    BY <1>4
  <2>2. Walk' = Append(Walk, [addr |-> nv, size |-> n])
    BY <1>2, <1>3, <2>1
  <2>3. nv \in Addrs \ {Walk[i].addr : i \in DOMAIN Walk}
    BY <1>2
  <2>4. Abstract!Allocate
    BY <2>1, <2>2, <2>3 DEF Abstract!Allocate
  <2> QED BY <2>4 DEF Abstract!Next
<1>5. CASE \E k \in 1 .. Len(w) : /\ Listing(RemoveAt(w, k))'
                                 /\ required_memory' = required_memory - w[k].size
  <2>1. PICK k \in 1 .. Len(w) : /\ Listing(RemoveAt(w, k))'
                               /\ required_memory' = required_memory - w[k].size
    BY <1>5
  <2>2. Walk' = RemoveAt(Walk, k) /\ k \in DOMAIN Walk
    BY <1>2, <1>3, <2>1
  <2>3. Abstract!Release
    BY <1>2, <2>1, <2>2 DEF Abstract!Release, Abstract!RemoveAt, RemoveAt
  <2> QED BY <2>3 DEF Abstract!Next
<1>6. CASE Listing(w)' /\ required_memory' = required_memory
  BY <1>2, <1>3, <1>6
<1> QED BY <1>1, <1>4, <1>5, <1>6, NextListed

\* The linked list does what the abstract list does: vectors in the order of
\* their allocation, any of which may go, and their memory.
THEOREM VectorsImplementList == Spec => ImplementsVectorList
<1>1. Init => Abstract!Init
  <2> SUFFICES ASSUME Init PROVE Abstract!Init
    OBVIOUS
  <2>1. Listing(<<>>)
    BY InitListed
  <2>2. Walk = <<>>
    BY <2>1, WalkFromLinks, WalkIs DEF Listing
  <2> QED BY <2>2 DEF Init, Abstract!Init
<1>2. IInv /\ Listed /\ [Next]_vars => [Abstract!Next]_<<Walk, required_memory>>
  BY Simulates
<1> QED BY <1>1, <1>2, Inductive, AlwaysListed, PTL DEF Spec, ImplementsVectorList, Abstract!Spec
=============================================================================
