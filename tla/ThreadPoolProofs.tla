-------------------------- MODULE ThreadPoolProofs --------------------------
(***************************************************************************)
(* Proofs about ThreadPool for any number of threads, any functions and    *)
(* any THREAD_DEBUG.  The inductive invariant says that the threads are    *)
(* always in the same phase of the same call: since they cross internal    *)
(* barriers together, the barrier each of them has crossed last is the     *)
(* same for all, and what each does up to the next one is known.           *)
(* The last part is the refinement: every step of the pool is a step of     *)
(* ForkJoin or leaves its variables alone.                                  *)
(***************************************************************************)
EXTENDS ThreadPool, TLAPS

\* THREAD_BARRIERs of the function posted, as every thread counts them.
Length == IF threaded_function_ptr = Sanity THEN nthreads + 1
          ELSE NBars[threaded_function_ptr]

Posted == threaded_function_ptr # NULL

\* t is about to execute the call in progress, or executes it, properly.
Working(t) == Posted /\ mine[t] = [f |-> threaded_function_ptr, n |-> ncalls]

Delayed(t) == debug = 2 /\ delayed_thread_barrier[t] = 1

\* Between two calls: from the last barrier of thread_pool_lock to the
\* barrier of thread_pool_unlock.
Out(t) ==
  /\ pc[t] \in {"start", "seq", "unlock", "locked", "exit"}
  /\ pc[t] = "seq" => t = 0
  /\ ~ Delayed(t)

\* After the barrier of thread_pool_unlock (k = 0) or the last barrier of the
\* k-th THREAD_BARRIER, before the next barrier of any kind.
Ready(k, t) ==
  \/ pc[t] \in {"unlocked", "fetch"} /\ k = 0 /\ ~ Delayed(t)
  \/ pc[t] = "compare" /\ debug >= 1 /\ step[t] + 1 = k /\ Working(t)
  \/ pc[t] = "leave" /\ step[t] + 1 = k /\ Working(t)
  \/ pc[t] = "body" /\ step[t] = k /\ ~ Delayed(t) /\ Working(t)
  \/ pc[t] = "barr" /\ step[t] = k /\ ~ Delayed(t) /\ Working(t) /\ k < Length
  \/ pc[t] = "wait" /\ debug = 2 /\ step[t] = k /\ ~ Delayed(t) /\ Working(t)
       /\ k < Length
  \/ pc[t] = "true" /\ debug < 2 /\ step[t] = k /\ Working(t) /\ k < Length
  \/ pc[t] = "delay" /\ Delayed(t) /\ step[t] = k /\ Working(t)
  \/ pc[t] = "lwait" /\ debug = 2 /\ ~ Delayed(t)
       /\ (Posted => Working(t) /\ k >= Length)
  \/ pc[t] = "lock" /\ debug < 2 /\ (Posted => Working(t) /\ k >= Length)

\* After the barrier that lets the delayed threads catch up.
Late(k, t) ==
  /\ debug = 2
  /\ \/ pc[t] = "body" /\ step[t] = k /\ Delayed(t) /\ Working(t)
     \/ pc[t] = "barr" /\ step[t] = k /\ Delayed(t) /\ Working(t) /\ k < Length
     \/ pc[t] = "true" /\ step[t] = k /\ Working(t) /\ k < Length
     \/ pc[t] = "lock" /\ ~ Delayed(t) /\ (Posted => Working(t) /\ k >= Length)

\* Inside check_barrier of the k-th barrier of the body.
Checking(k, t) ==
  /\ debug >= 1 /\ pc[t] \in {"note", "check"} /\ step[t] = k /\ Working(t)
  /\ k < Length

In(ph, k, t) ==
  \/ ph = "out" /\ Out(t)
  \/ ph = "ready" /\ Ready(k, t)
  \/ ph = "late" /\ Late(k, t)
  \/ ph = "check" /\ Checking(k, t)

Phases == {"out", "ready", "late", "check"}

\* The flag: its last writers are known from where the threads are.
FlagAt(t) ==
  /\ pc[t] \in {"seq", "unlock", "exit"} => thread_pool_locked
  /\ pc[t] \in Inside \cup {"fetch", "lwait", "lock"} => ~ thread_pool_locked

FlagInv == \A t \in Threads : FlagAt(t)

\* The order in progress, once posted, has its argument exported.
OrderInv ==
  Posted /\ pc[0] # "seq" => extArg[threaded_function_ptr] = ncalls

\* The line the master has noted is the one the others are to compare.
LineOf(k) == [f |-> threaded_function_ptr, step |-> k, branch |-> "all"]

LineAt(t) ==
  /\ pc[t] = "compare" => glb_barr_line = LineOf(step[t])
  /\ pc[0] = "check" /\ pc[t] \in {"note", "check"}
       => glb_barr_line = LineOf(step[t])

LineInv == \A t \in Threads : LineAt(t)

PhaseInv ==
  \E ph \in Phases, k \in Nat : \A t \in Threads : In(ph, k, t)

\* thread_sanity_check: what the counter holds before and after a turn.
SanityAt(t) ==
  /\ t > 0 /\ \/ pc[t] \in {"body", "delay"} /\ step[t] = t
              \/ pc[t] \in {"compare", "leave"} /\ step[t] + 1 = t
       => broadcast_ptr = t - 1
  /\ pc[t] \in {"barr", "wait", "true", "note", "check"} /\ step[t] = t
       => broadcast_ptr = t
  /\ t = 0 /\ \/ pc[t] \in {"body", "delay"} /\ step[t] = nthreads
              \/ pc[t] \in {"compare", "leave"} /\ step[t] + 1 = nthreads
       => broadcast_ptr = nthreads - 1

SanityInv ==
  threaded_function_ptr = Sanity => \A t \in Threads : SanityAt(t)

\* A thread of rank 0 that compared different lines has aborted the program.
DivergenceAt(t) ==
  pc[t] \in Inside /\ mine[t].f \in Divergent
    => step[t] = 0 /\ (pc[t] = "leave" => crashed)

DivergenceInv ==
  debug >= 1 /\ onRank0 => \A t \in Threads \ {0} : DivergenceAt(t)

IInv ==
  /\ TypeOK
  /\ PhaseInv
  /\ FlagInv
  /\ OrderInv
  /\ LineInv
  /\ SanityInv
  /\ NoFalseAlarm
  /\ DivergenceInv

-----------------------------------------------------------------------------
USE ConstantsAssumption

\* The initial states have the type.
LEMMA InitType == Init => TypeOK
<1> SUFFICES ASSUME Init PROVE TypeOK
  OBVIOUS
<1>1. glb_barr_line \in [f : AllFuncs \cup {NULL}, step : Nat,
                         branch : {"all", "slave"}]
  BY DEF Init, NoLine
<1>2. mine \in [Threads -> [f : AllFuncs \cup {NULL}, n : Nat]]
  BY DEF Init
<1>3. pc \in [Threads -> PCs] /\ step \in [Threads -> Nat]
  BY DEF Init, PCs
<1>4. QED
  BY <1>1, <1>2, <1>3 DEF Init, TypeOK

\* Every step keeps the type.
LEMMA TypeStep == TypeOK /\ [Next]_vars => TypeOK'
<1> SUFFICES ASSUME TypeOK, [Next]_vars PROVE TypeOK'
  OBVIOUS
<1> USE DEF TypeOK, Threads, env, Goto
<1>1. CASE UNCHANGED vars
  BY <1>1 DEF vars
<1>2. ASSUME NEW f \in AllFuncs, CallPool(f) PROVE TypeOK'
  <2>1. pc' \in [Threads -> PCs]
    BY <1>2 DEF CallPool, PCs, Waiting, Inside
  <2>2. extArg' \in [AllFuncs -> Nat]
    BY <1>2 DEF CallPool
  <2>3. QED
    BY <1>2, <2>1, <2>2 DEF CallPool
<1>3. ASSUME NEW f \in AllFuncs, CallDirect(f) PROVE TypeOK'
  <2>1. broadcast_ptr' \in Nat /\ ncalls' \in Nat
    BY <1>3 DEF CallDirect
  <2>2. QED
    BY <1>3, <2>1 DEF CallDirect
<1>4. CASE Stop
  <2>1. pc' \in [Threads -> PCs]
    BY <1>4 DEF Stop, PCs, Waiting, Inside
  <2>2. QED
    BY <1>4, <2>1 DEF Stop
<1>5. CASE Barrier
  <2>1. pc' \in [Threads -> PCs]
    BY <1>5 DEF Barrier, Past, PCs, Waiting, Inside
  <2>2. QED
    BY <1>5, <2>1 DEF Barrier
<1>6. ASSUME NEW t \in Threads, ThreadStart(t) PROVE TypeOK'
  <2>1. pc' \in [Threads -> PCs]
    BY <1>6 DEF ThreadStart, PCs, Waiting, Inside
  <2>2. QED
    BY <1>6, <2>1 DEF ThreadStart
<1>7. ASSUME NEW t \in Threads, WriteUnlocked(t) PROVE TypeOK'
  <2>1. pc' \in [Threads -> PCs]
    BY <1>7 DEF WriteUnlocked, PCs, Waiting, Inside
  <2>2. QED
    BY <1>7, <2>1 DEF WriteUnlocked
<1>8. ASSUME NEW t \in Threads, Fetch(t) PROVE TypeOK'
  <2>1. pc' \in [Threads -> PCs]
    <3>1. pc' = [pc EXCEPT ![t] = "body"] \/ pc' = [pc EXCEPT ![t] = "lock"]
          \/ pc' = [pc EXCEPT ![t] = "lwait"]
      BY <1>8 DEF Fetch, LockEntry
    <3>2. QED
      BY <3>1 DEF PCs, Waiting, Inside
  <2>2. CASE threaded_function_ptr = NULL
    <3>1. mine' = mine /\ step' = step
      BY <1>8, <2>2 DEF Fetch
    <3>2. staying' \in [Threads -> BOOLEAN]
      BY <1>8, <2>2 DEF Fetch
    <3>3. delayed_thread_barrier' \in [Threads -> {0, 1}]
      BY <1>8, <2>2 DEF Fetch
    <3>4. QED
      BY <1>8, <2>1, <3>1, <3>2, <3>3 DEF Fetch
  <2>3. CASE threaded_function_ptr # NULL
    <3> DEFINE new == [f |-> threaded_function_ptr,
                       n |-> extArg[threaded_function_ptr]]
    <3>1. new \in [f : AllFuncs \cup {NULL}, n : Nat]
      BY <2>3
    <3>2. mine' = [mine EXCEPT ![t] = new] /\ step' = [step EXCEPT ![t] = 0]
          /\ staying' = staying
          /\ delayed_thread_barrier' = delayed_thread_barrier
      BY <1>8, <2>3 DEF Fetch
    <3> HIDE DEF new
    <3>3. mine' \in [Threads -> [f : AllFuncs \cup {NULL}, n : Nat]]
      BY <3>1, <3>2
    <3>4. step' \in [Threads -> Nat]
      BY <3>2
    <3>5. QED
      BY <1>8, <2>1, <3>2, <3>3, <3>4 DEF Fetch
  <2>4. QED
    BY <2>2, <2>3
<1>9. ASSUME NEW t \in Threads, Work(t) PROVE TypeOK'
  <2>1. pc' \in [Threads -> PCs]
    BY <1>9 DEF Work, PCs, Waiting, Inside
  <2>2. broadcast_ptr' \in Nat /\ crashed' \in BOOLEAN
    BY <1>9 DEF Work, SanityWork, Crash
  <2>3. QED
    BY <1>9, <2>1, <2>2 DEF Work
<1>10. ASSUME NEW t \in Threads, EnterBarrier(t) PROVE TypeOK'
  <2>1. pc' \in [Threads -> PCs]
    BY <1>10 DEF EnterBarrier, BarrEntry, PCs, Waiting, Inside
  <2>2. QED
    BY <1>10, <2>1 DEF EnterBarrier
<1>11. ASSUME NEW t \in Threads, Note(t) PROVE TypeOK'
  <2>1. pc' \in [Threads -> PCs]
    BY <1>11 DEF Note, PCs, Waiting, Inside
  <2>2. BarrLine(t) \in [f : AllFuncs \cup {NULL}, step : Nat,
                         branch : {"all", "slave"}]
    BY DEF BarrLine
  <2>3. QED
    BY <1>11, <2>1, <2>2 DEF Note
<1>12. ASSUME NEW t \in Threads, Compare(t) PROVE TypeOK'
  <2>1. pc' \in [Threads -> PCs]
    BY <1>12 DEF Compare, PCs, Waiting, Inside
  <2>2. QED
    BY <1>12, <2>1 DEF Compare, Crash
<1>13. ASSUME NEW t \in Threads, Leave(t) PROVE TypeOK'
  <2>1. PICK d \in {0, 1} :
          /\ delayed_thread_barrier' = [delayed_thread_barrier EXCEPT ![t] = d]
          /\ pc' = [pc EXCEPT ![t] =
                      IF debug >= 2 /\ ~ thread_pool_locked /\ d = 1
                      THEN "delay" ELSE "body"]
    BY <1>13 DEF Leave, Delays
  <2>2. pc' \in [Threads -> PCs]
    BY <2>1 DEF PCs, Waiting, Inside
  <2>3. delayed_thread_barrier' \in [Threads -> {0, 1}]
    BY <2>1
  <2>4. step' \in [Threads -> Nat]
    <3>1. step' = [step EXCEPT ![t] = step[t] + 1] /\ step[t] + 1 \in Nat
      BY <1>13 DEF Leave
    <3>2. QED
      BY <3>1
  <2>5. QED
    BY <1>13, <2>2, <2>3, <2>4 DEF Leave
<1>14. ASSUME NEW t \in Threads, Finish(t) PROVE TypeOK'
  <2>1. pc' \in [Threads -> PCs]
    BY <1>14 DEF Finish, LockEntry, PCs, Waiting, Inside
  <2>2. QED
    BY <1>14, <2>1 DEF Finish
<1>15. ASSUME NEW t \in Threads, WriteLocked(t) PROVE TypeOK'
  <2>1. pc' \in [Threads -> PCs]
    BY <1>15 DEF WriteLocked, PCs, Waiting, Inside
  <2>2. QED
    BY <1>15, <2>1 DEF WriteLocked
<1> QED
  BY <1>1, <1>2, <1>3, <1>4, <1>5, <1>6, <1>7, <1>8, <1>9, <1>10, <1>11,
     <1>12, <1>13, <1>14, <1>15
  DEF Next, Progress, Program, Advance, Terminated

\* Type correctness of the pool.
THEOREM TypeCorrect == Spec => []TypeOK
  BY InitType, TypeStep, PTL DEF Spec

-----------------------------------------------------------------------------
\* A step of thread t alone keeps the threads together if t stays in its phase.
LEMMA OneThread ==
  ASSUME TypeOK, NEW t \in Threads, NEW ph \in Phases, NEW k \in Nat,
         \A u \in Threads : In(ph, k, u),
         UNCHANGED <<env, threaded_function_ptr, ncalls>>,
         \A u \in Threads \ {t} :
           /\ pc'[u] = pc[u] /\ step'[u] = step[u] /\ mine'[u] = mine[u]
           /\ delayed_thread_barrier'[u] = delayed_thread_barrier[u],
         In(ph, k, t)'
  PROVE  PhaseInv'
<1>1. ASSUME NEW u \in Threads', u # t PROVE In(ph, k, u)'
  BY <1>1 DEF In, Out, Ready, Late, Checking, Working, Delayed, Posted, Length,
     Threads, env
<1>2. \A u \in Threads' : In(ph, k, u)'
  BY <1>1
<1>3. QED
  BY <1>2 DEF PhaseInv

\* What the phases say of two threads at once.
LEMMA Together ==
  ASSUME TypeOK, PhaseInv, NEW t \in Threads, NEW u \in Threads
  PROVE  /\ pc[t] \in {"start", "seq", "unlock", "locked", "exit"}
              => pc[u] \in {"start", "seq", "unlock", "locked", "exit"}
         /\ pc[t] = "seq" => t = 0
         /\ pc[t] \in Inside => Working(t)
         /\ pc[t] \in {"note", "check"}
              => pc[u] \in {"note", "check"} /\ step[u] = step[t]
         /\ pc[t] \in {"body", "delay"} /\ pc[u] \in {"body", "delay"}
              => step[u] = step[t]
         /\ pc[t] \in {"body", "delay"} /\ pc[u] \in {"compare", "leave"}
              => step[u] + 1 = step[t]
         /\ pc[t] \in {"compare", "leave"} /\ pc[u] \in {"compare", "leave"}
              => step[u] = step[t]
         /\ pc[t] \in {"body", "delay"} /\ pc[u] \in {"barr", "wait", "true"}
              => step[u] = step[t]
         /\ pc[t] \in {"barr", "wait", "true"} /\ pc[u] \in {"barr", "wait", "true"}
              => step[u] = step[t]
<1>1. PICK ph \in Phases, k \in Nat : \A v \in Threads : In(ph, k, v)
  BY DEF PhaseInv
<1>2. In(ph, k, t) /\ In(ph, k, u)
  BY <1>1
<1>3. step[t] \in Nat /\ step[u] \in Nat
  BY DEF TypeOK
<1>4. QED
  BY <1>2, <1>3 DEF In, Out, Ready, Late, Checking, Inside

\* How many barriers a thread executing the call in progress counts.
LEMMA SameLength ==
  ASSUME TypeOK, FlagInv, NEW t \in Threads, pc[t] \in Inside, Working(t)
  PROVE  Barriers(t) = Length
BY DEF FlagInv, FlagAt, Working, Barriers, Length, NActive

\* A posted function has a number of barriers.
LEMMA LengthType == TypeOK /\ Posted => Length \in Nat
BY DEF TypeOK, Posted, Length, AllFuncs

\* The threads stay together.
LEMMA PhaseStep ==
  TypeOK /\ PhaseInv /\ FlagInv /\ OrderInv /\ [Next]_vars => PhaseInv'
<1> SUFFICES ASSUME TypeOK, PhaseInv, FlagInv, OrderInv, [Next]_vars
             PROVE  PhaseInv'
  OBVIOUS
<1>0. PICK ph \in Phases, k \in Nat : \A u \in Threads : In(ph, k, u)
  BY DEF PhaseInv
<1>1. CASE UNCHANGED vars
  <2>1. \A u \in Threads' : In(ph, k, u)'
    BY <1>0, <1>1 DEF vars, Length, Threads, env, In, Out, Ready, Late, Checking, Working,
       Delayed, Posted
  <2>2. QED
    BY <2>1 DEF PhaseInv
<1>2. ASSUME NEW f \in AllFuncs, CallPool(f) PROVE PhaseInv'
  <2>1. 0 \in Threads
    BY DEF TypeOK, Threads
  <2>2. ph = "out"
    BY <1>0, <1>2, <2>1 DEF CallPool, In, Out, Ready, Late, Checking, Working,
       Delayed, Posted
  <2>3. \A u \in Threads' : In("out", 0, u)'
    BY <1>0, <1>2, <2>2 DEF CallPool, TypeOK, Threads, env, Goto, In, Out, Ready, Late, Checking, Working,
       Delayed, Posted
  <2>4. QED
    BY <2>3 DEF PhaseInv, Phases
<1>3. ASSUME NEW f \in AllFuncs, CallDirect(f) PROVE PhaseInv'
  <2>1. 0 \in Threads
    BY DEF TypeOK, Threads
  <2>2. ph = "out"
    BY <1>0, <1>3, <2>1 DEF CallDirect, In, Out, Ready, Late, Checking, Working,
       Delayed, Posted
  <2>3. \A u \in Threads' : In("out", 0, u)'
    BY <1>0, <1>3, <2>2 DEF CallDirect, Threads, env, Goto, In, Out, Ready, Late, Checking, Working,
       Delayed, Posted
  <2>4. QED
    BY <2>3 DEF PhaseInv, Phases
<1>4. CASE Stop
  <2>1. 0 \in Threads
    BY DEF TypeOK, Threads
  <2>2. ph = "out"
    BY <1>0, <1>4, <2>1 DEF Stop, In, Out, Ready, Late, Checking, Working,
       Delayed, Posted
  <2>3. \A u \in Threads' : In("out", 0, u)'
    BY <1>0, <1>4, <2>2 DEF Stop, TypeOK, Threads, env, Goto, In, Out, Ready, Late, Checking, Working,
       Delayed, Posted
  <2>4. QED
    BY <2>3 DEF PhaseInv, Phases
<1>5. CASE Barrier
  <2>0. Threads' = Threads
    BY <1>5 DEF Barrier, Threads, env
  <2>1. CASE ph = "out"
    <3>1. \A u \in Threads' : In("ready", 0, u)'
      BY <1>0, <1>5, <2>0, <2>1
      DEF Barrier, Past, TypeOK, Waiting, Length, env, In, Out, Ready, Late, Checking, Working,
       Delayed, Posted
    <3>2. QED
      BY <3>1 DEF PhaseInv, Phases
  <2>2. CASE ph = "ready" /\ debug = 2
    <3>1. \A u \in Threads' : In("late", k, u)'
      BY <1>0, <1>5, <2>0, <2>2
      DEF Barrier, Past, TypeOK, Waiting, Length, env, In, Out, Ready, Late, Checking, Working,
       Delayed, Posted
    <3>2. QED
      BY <3>1 DEF PhaseInv, Phases
  <2>3. CASE ((ph = "ready" /\ debug < 2) \/ ph = "late") /\ \E u \in Threads : pc[u] = "lock"
    <3>1. \A u \in Threads' : In("out", 0, u)'
      BY <1>0, <1>5, <2>0, <2>3, LengthType
      DEF Barrier, Past, TypeOK, Waiting, Length, env, In, Out, Ready, Late, Checking, Working,
       Delayed, Posted
    <3>2. QED
      BY <3>1 DEF PhaseInv, Phases
  <2>4. CASE ((ph = "ready" /\ debug < 2) \/ ph = "late") /\ \A u \in Threads : pc[u] = "true"
    <3>1. CASE debug >= 1
      <4>1. \A u \in Threads' : In("check", k, u)'
        BY <1>0, <1>5, <2>0, <2>4, <3>1
      DEF Barrier, Past, TypeOK, Waiting, Length, env, In, Out, Ready, Late, Checking, Working,
       Delayed, Posted
      <4>2. QED
        BY <4>1, k + 1 \in Nat DEF PhaseInv, Phases
    <3>2. CASE ~ (debug >= 1)
      <4>1. \A u \in Threads' : In("ready", k + 1, u)'
        BY <1>0, <1>5, <2>0, <2>4, <3>2
      DEF Barrier, Past, TypeOK, Waiting, Length, env, In, Out, Ready, Late, Checking, Working,
       Delayed, Posted
      <4>2. QED
        BY <4>1, k + 1 \in Nat DEF PhaseInv, Phases
    <3>3. QED
      BY <3>1, <3>2
  <2>5. CASE ph = "check"
    <3>1. \A u \in Threads' : In("ready", k + 1, u)'
      BY <1>0, <1>5, <2>0, <2>5
      DEF Barrier, Past, TypeOK, Waiting, Length, env, In, Out, Ready, Late, Checking, Working,
       Delayed, Posted
    <3>2. QED
      BY <3>1, k + 1 \in Nat DEF PhaseInv, Phases
  <2>6. debug \in 0 .. 2
    BY DEF TypeOK
  <2>7. ASSUME (ph = "ready" /\ debug < 2) \/ ph = "late"
        PROVE  \A u \in Threads : pc[u] \in {"lock", "true"}
    BY <1>0, <1>5, <2>7 DEF Barrier, Waiting, In, Out, Ready, Late, Checking, Working,
       Delayed, Posted
  <2>8. QED
    BY <2>1, <2>2, <2>3, <2>4, <2>5, <2>6, <2>7 DEF Phases
<1>6. ASSUME NEW t \in Threads, ThreadStart(t) PROVE PhaseInv'
  <2>1. Threads' = Threads
    BY <1>6 DEF ThreadStart, Threads, env
  <2>2. In(ph, k, t)'
    BY <1>0, <1>6, SameLength
    DEF ThreadStart, TypeOK, Inside, FlagInv, FlagAt, Length, Delays, env, Goto,
       In, Out, Ready, Late, Checking, Working,
       Delayed, Posted
  <2>3. QED
    BY <1>0, <1>6, <2>2, OneThread DEF ThreadStart, TypeOK, env, Goto
<1>7. ASSUME NEW t \in Threads, WriteUnlocked(t) PROVE PhaseInv'
  <2>1. Threads' = Threads
    BY <1>7 DEF WriteUnlocked, Threads, env
  <2>2. In(ph, k, t)'
    BY <1>0, <1>7, SameLength
    DEF WriteUnlocked, TypeOK, Inside, FlagInv, FlagAt, Length, Delays, env, Goto,
       In, Out, Ready, Late, Checking, Working,
       Delayed, Posted
  <2>3. QED
    BY <1>0, <1>7, <2>2, OneThread DEF WriteUnlocked, TypeOK, env, Goto
<1>8. ASSUME NEW t \in Threads, Fetch(t) PROVE PhaseInv'
  <2>1. Threads' = Threads
    BY <1>8 DEF Fetch, Threads, env
  <2>2. ph = "ready" /\ k = 0 /\ ~ Delayed(t) /\ t \in Threads
    BY <1>0, <1>8 DEF Fetch, In, Out, Ready, Late, Checking, Working,
       Delayed, Posted
  <2>3. ASSUME threaded_function_ptr = NULL PROVE In(ph, k, t)'
    <3>1. pc'[t] = LockEntry(t) /\ delayed_thread_barrier'[t] = 0
      BY <1>8, <2>3 DEF Fetch, Goto, TypeOK
    <3>2. debug' = debug /\ threaded_function_ptr' = NULL /\ debug \in 0 .. 2
          /\ delayed_thread_barrier[t] \in {0, 1}
      BY <1>8, <2>3 DEF Fetch, env, TypeOK
    <3>3. debug = 2 => pc'[t] = "lwait"
      BY <2>2, <3>1, <3>2 DEF LockEntry, Delayed
    <3>4. debug < 2 => pc'[t] = "lock"
      BY <3>1, <3>2 DEF LockEntry
    <3>5. ~ Delayed(t)'
      BY <3>1 DEF Delayed
    <3>6. QED
      BY <2>2, <3>2, <3>3, <3>4, <3>5 DEF In, Out, Ready, Late, Checking, Working,
       Delayed, Posted
  <2>4. ASSUME threaded_function_ptr # NULL PROVE In(ph, k, t)'
    <3>1. pc'[t] = "body" /\ step'[t] = 0
          /\ delayed_thread_barrier'[t] = delayed_thread_barrier[t]
      BY <1>8, <2>4 DEF Fetch, Goto, TypeOK
    <3>2. mine'[t] = [f |-> threaded_function_ptr,
                      n |-> extArg[threaded_function_ptr]]
      BY <1>8, <2>4 DEF Fetch, TypeOK
    <3>3. UNCHANGED <<debug, threaded_function_ptr, ncalls>>
      BY <1>8 DEF Fetch, env
    <3>4. 0 \in Threads
      BY DEF TypeOK, Threads
    <3>5. pc[0] # "seq"
      BY <1>0, <2>2, <3>4 DEF In, Out, Ready, Late, Checking, Working,
       Delayed, Posted
    <3>6. QED
      BY <2>2, <2>4, <3>1, <3>2, <3>3, <3>5 DEF OrderInv, In, Out, Ready, Late, Checking, Working,
       Delayed, Posted
  <2>5. In(ph, k, t)'
    BY <2>3, <2>4
  <2>6. QED
    BY <1>0, <1>8, <2>5, OneThread DEF Fetch, TypeOK, env, Goto
<1>9. ASSUME NEW t \in Threads, Work(t) PROVE PhaseInv'
  <2>1. Threads' = Threads
    BY <1>9 DEF Work, Threads, env
  <2>2. In(ph, k, t)'
    BY <1>0, <1>9, SameLength
    DEF Work, TypeOK, Inside, FlagInv, FlagAt, Length, Delays, env, Goto,
       In, Out, Ready, Late, Checking, Working,
       Delayed, Posted
  <2>3. QED
    BY <1>0, <1>9, <2>2, OneThread DEF Work, TypeOK, env, Goto
<1>10. ASSUME NEW t \in Threads, EnterBarrier(t) PROVE PhaseInv'
  <2>1. Threads' = Threads
    BY <1>10 DEF EnterBarrier, Threads, env
  <2>2. In(ph, k, t)'
    BY <1>0, <1>10, SameLength
    DEF EnterBarrier, BarrEntry, TypeOK, Inside, FlagInv, FlagAt, Length, Delays, env, Goto,
       In, Out, Ready, Late, Checking, Working,
       Delayed, Posted
  <2>3. QED
    BY <1>0, <1>10, <2>2, OneThread DEF EnterBarrier, TypeOK, env, Goto
<1>11. ASSUME NEW t \in Threads, Note(t) PROVE PhaseInv'
  <2>1. Threads' = Threads
    BY <1>11 DEF Note, Threads, env
  <2>2. In(ph, k, t)'
    BY <1>0, <1>11, SameLength
    DEF Note, TypeOK, Inside, FlagInv, FlagAt, Length, Delays, env, Goto,
       In, Out, Ready, Late, Checking, Working,
       Delayed, Posted
  <2>3. QED
    BY <1>0, <1>11, <2>2, OneThread DEF Note, TypeOK, env, Goto
<1>12. ASSUME NEW t \in Threads, Compare(t) PROVE PhaseInv'
  <2>1. Threads' = Threads
    BY <1>12 DEF Compare, Threads, env
  <2>2. In(ph, k, t)'
    BY <1>0, <1>12, SameLength
    DEF Compare, TypeOK, Inside, FlagInv, FlagAt, Length, Delays, env, Goto,
       In, Out, Ready, Late, Checking, Working,
       Delayed, Posted
  <2>3. QED
    BY <1>0, <1>12, <2>2, OneThread DEF Compare, TypeOK, env, Goto
<1>13. ASSUME NEW t \in Threads, Leave(t) PROVE PhaseInv'
  <2>1. Threads' = Threads
    BY <1>13 DEF Leave, Threads, env
  <2>2. In(ph, k, t)'
    BY <1>0, <1>13, SameLength
    DEF Leave, TypeOK, Inside, FlagInv, FlagAt, Length, Delays, env, Goto,
       In, Out, Ready, Late, Checking, Working,
       Delayed, Posted
  <2>3. QED
    BY <1>0, <1>13, <2>2, OneThread DEF Leave, TypeOK, env, Goto
<1>14. ASSUME NEW t \in Threads, Finish(t) PROVE PhaseInv'
  <2>1. Threads' = Threads
    BY <1>14 DEF Finish, Threads, env
  <2>2. In(ph, k, t)'
    BY <1>0, <1>14, SameLength
    DEF Finish, LockEntry, TypeOK, Inside, FlagInv, FlagAt, Length, Delays, env, Goto,
       In, Out, Ready, Late, Checking, Working,
       Delayed, Posted
  <2>3. QED
    BY <1>0, <1>14, <2>2, OneThread DEF Finish, TypeOK, env, Goto
<1>15. ASSUME NEW t \in Threads, WriteLocked(t) PROVE PhaseInv'
  <2>1. Threads' = Threads
    BY <1>15 DEF WriteLocked, Threads, env
  <2>2. In(ph, k, t)'
    BY <1>0, <1>15, SameLength
    DEF WriteLocked, TypeOK, Inside, FlagInv, FlagAt, Length, Delays, env, Goto,
       In, Out, Ready, Late, Checking, Working,
       Delayed, Posted
  <2>3. QED
    BY <1>0, <1>15, <2>2, OneThread DEF WriteLocked, TypeOK, env, Goto
<1> QED
  BY <1>1, <1>2, <1>3, <1>4, <1>5, <1>6, <1>7, <1>8, <1>9, <1>10, <1>11, <1>12, <1>13, <1>14, <1>15
  DEF Next, Progress, Program, Advance, Terminated

\* A thread that moves on without writing the flag, to where the flag allows.
LEMMA FlagKept ==
  ASSUME TypeOK, FlagInv, NEW t \in Threads,
         UNCHANGED <<nthreads, thread_pool_locked>>,
         \A u \in Threads \ {t} : pc'[u] = pc[u],
         FlagAt(t)'
  PROVE  FlagInv'
<1>1. Threads' = Threads
  BY DEF Threads
<1>2. ASSUME NEW u \in Threads, u # t PROVE FlagAt(u)'
  <2>1. FlagAt(u)
    BY DEF FlagInv
  <2>2. QED
    BY <1>2, <2>1 DEF FlagAt
<1>3. QED
  BY <1>1, <1>2 DEF FlagInv

\* The flag keeps agreeing with where the threads are.
LEMMA FlagStep ==
  TypeOK /\ PhaseInv /\ FlagInv /\ [Next]_vars => FlagInv'
<1> SUFFICES ASSUME TypeOK, PhaseInv, FlagInv, [Next]_vars
             PROVE  FlagInv'
  OBVIOUS
<1>0. 0 \in Threads
  BY DEF TypeOK, Threads
<1>1. CASE UNCHANGED vars
  BY <1>1 DEF vars, env, FlagInv, FlagAt, Inside, Threads
<1>2. ASSUME NEW f \in AllFuncs, CallPool(f) PROVE FlagInv'
  BY <1>0, <1>2 DEF CallPool, env, Goto, TypeOK, Threads, FlagInv, FlagAt, Inside
<1>3. ASSUME NEW f \in AllFuncs, CallDirect(f) PROVE FlagInv'
  BY <1>0, <1>3 DEF CallDirect, env, Goto, TypeOK, Threads, FlagInv, FlagAt, Inside
<1>4. CASE Stop
  BY <1>0, <1>4 DEF Stop, env, Goto, TypeOK, Threads, FlagInv, FlagAt, Inside
<1>5. CASE Barrier
  BY <1>5 DEF Barrier, Past, Waiting, env, TypeOK, Threads, FlagInv, FlagAt, Inside
<1>6. ASSUME NEW t \in Threads, ThreadStart(t) PROVE FlagInv'
  <2> SUFFICES ASSUME NEW u \in Threads PROVE FlagAt(u)'
    BY <1>6 DEF FlagInv, ThreadStart, env, Threads
  <2>1. FlagAt(t) /\ FlagAt(u) /\ FlagAt(0)
    BY <1>0 DEF FlagInv
  <2>2. pc[u] \in {"start", "seq", "unlock", "locked", "exit"}
    BY <1>6, Together DEF ThreadStart
  <2>3. QED
    BY <1>0, <1>6, <2>1, <2>2 DEF FlagAt, ThreadStart, env, Goto, TypeOK, Inside
<1>7. ASSUME NEW t \in Threads, WriteUnlocked(t) PROVE FlagInv'
  <2> SUFFICES ASSUME NEW u \in Threads PROVE FlagAt(u)'
    BY <1>7 DEF FlagInv, WriteUnlocked, env, Threads
  <2>1. pc[u] \notin {"start", "seq", "unlock", "locked", "exit"}
    BY <1>7, Together DEF WriteUnlocked
  <2>2. thread_pool_locked' = FALSE /\ pc'[u] \notin {"seq", "unlock", "exit"}
    BY <1>7, <2>1 DEF WriteUnlocked, Goto, TypeOK
  <2>3. QED
    BY <2>2 DEF FlagAt
<1>8. ASSUME NEW t \in Threads, Fetch(t) PROVE FlagInv'
  <2>1. UNCHANGED <<nthreads, thread_pool_locked>>
    BY <1>8 DEF Fetch, env
  <2>2. \A u \in Threads \ {t} : pc'[u] = pc[u]
    BY <1>8 DEF Fetch, Goto, TypeOK
  <2>3. pc'[t] \in Inside \cup {"lwait", "lock"}
    BY <1>8 DEF Fetch, LockEntry, Inside, Goto, TypeOK
  <2>4. ~ thread_pool_locked
    BY <1>8 DEF Fetch, FlagInv, FlagAt, Inside
  <2>5. FlagAt(t)'
    BY <2>1, <2>3, <2>4 DEF FlagAt, Inside
  <2>6. QED
    BY <2>1, <2>2, <2>5, FlagKept
<1>9. ASSUME NEW t \in Threads, Work(t) PROVE FlagInv'
  <2>1. UNCHANGED <<nthreads, thread_pool_locked>>
    BY <1>9 DEF Work, env
  <2>2. \A u \in Threads \ {t} : pc'[u] = pc[u]
    BY <1>9 DEF Work, Goto, TypeOK
  <2>3. pc'[t] \in Inside \cup {"lwait", "lock"}
    BY <1>9 DEF Work, Inside, Goto, TypeOK
  <2>4. ~ thread_pool_locked
    BY <1>9 DEF Work, FlagInv, FlagAt, Inside
  <2>5. FlagAt(t)'
    BY <2>1, <2>3, <2>4 DEF FlagAt, Inside
  <2>6. QED
    BY <2>1, <2>2, <2>5, FlagKept
<1>10. ASSUME NEW t \in Threads, EnterBarrier(t) PROVE FlagInv'
  <2>1. UNCHANGED <<nthreads, thread_pool_locked>>
    BY <1>10 DEF EnterBarrier, env
  <2>2. \A u \in Threads \ {t} : pc'[u] = pc[u]
    BY <1>10 DEF EnterBarrier, Goto, TypeOK
  <2>3. pc'[t] \in Inside \cup {"lwait", "lock"}
    BY <1>10 DEF EnterBarrier, BarrEntry, Inside, Goto, TypeOK
  <2>4. ~ thread_pool_locked
    BY <1>10 DEF EnterBarrier, FlagInv, FlagAt, Inside
  <2>5. FlagAt(t)'
    BY <2>1, <2>3, <2>4 DEF FlagAt, Inside
  <2>6. QED
    BY <2>1, <2>2, <2>5, FlagKept
<1>11. ASSUME NEW t \in Threads, Note(t) PROVE FlagInv'
  <2>1. UNCHANGED <<nthreads, thread_pool_locked>>
    BY <1>11 DEF Note, env
  <2>2. \A u \in Threads \ {t} : pc'[u] = pc[u]
    BY <1>11 DEF Note, Goto, TypeOK
  <2>3. pc'[t] \in Inside \cup {"lwait", "lock"}
    BY <1>11 DEF Note, Inside, Goto, TypeOK
  <2>4. ~ thread_pool_locked
    BY <1>11 DEF Note, FlagInv, FlagAt, Inside
  <2>5. FlagAt(t)'
    BY <2>1, <2>3, <2>4 DEF FlagAt, Inside
  <2>6. QED
    BY <2>1, <2>2, <2>5, FlagKept
<1>12. ASSUME NEW t \in Threads, Compare(t) PROVE FlagInv'
  <2>1. UNCHANGED <<nthreads, thread_pool_locked>>
    BY <1>12 DEF Compare, env
  <2>2. \A u \in Threads \ {t} : pc'[u] = pc[u]
    BY <1>12 DEF Compare, Goto, TypeOK
  <2>3. pc'[t] \in Inside \cup {"lwait", "lock"}
    BY <1>12 DEF Compare, Inside, Goto, TypeOK
  <2>4. ~ thread_pool_locked
    BY <1>12 DEF Compare, FlagInv, FlagAt, Inside
  <2>5. FlagAt(t)'
    BY <2>1, <2>3, <2>4 DEF FlagAt, Inside
  <2>6. QED
    BY <2>1, <2>2, <2>5, FlagKept
<1>13. ASSUME NEW t \in Threads, Leave(t) PROVE FlagInv'
  <2>1. UNCHANGED <<nthreads, thread_pool_locked>>
    BY <1>13 DEF Leave, env
  <2>2. \A u \in Threads \ {t} : pc'[u] = pc[u]
    BY <1>13 DEF Leave, Goto, TypeOK
  <2>3. pc'[t] \in Inside \cup {"lwait", "lock"}
    BY <1>13 DEF Leave, Inside, Goto, TypeOK
  <2>4. ~ thread_pool_locked
    BY <1>13 DEF Leave, FlagInv, FlagAt, Inside
  <2>5. FlagAt(t)'
    BY <2>1, <2>3, <2>4 DEF FlagAt, Inside
  <2>6. QED
    BY <2>1, <2>2, <2>5, FlagKept
<1>14. ASSUME NEW t \in Threads, Finish(t) PROVE FlagInv'
  <2>1. UNCHANGED <<nthreads, thread_pool_locked>>
    BY <1>14 DEF Finish, env
  <2>2. \A u \in Threads \ {t} : pc'[u] = pc[u]
    BY <1>14 DEF Finish, Goto, TypeOK
  <2>3. pc'[t] \in Inside \cup {"lwait", "lock"}
    BY <1>14 DEF Finish, LockEntry, Inside, Goto, TypeOK
  <2>4. ~ thread_pool_locked
    BY <1>14 DEF Finish, FlagInv, FlagAt, Inside
  <2>5. FlagAt(t)'
    BY <2>1, <2>3, <2>4 DEF FlagAt, Inside
  <2>6. QED
    BY <2>1, <2>2, <2>5, FlagKept
<1>15. ASSUME NEW t \in Threads, WriteLocked(t) PROVE FlagInv'
  <2> SUFFICES ASSUME NEW u \in Threads PROVE FlagAt(u)'
    BY <1>15 DEF FlagInv, WriteLocked, env, Threads
  <2>1. FlagAt(t) /\ FlagAt(u) /\ FlagAt(0)
    BY <1>0 DEF FlagInv
  <2>2. pc[u] \in {"start", "seq", "unlock", "locked", "exit"}
    BY <1>15, Together DEF WriteLocked
  <2>3. QED
    BY <1>0, <1>15, <2>1, <2>2 DEF FlagAt, WriteLocked, env, Goto, TypeOK, Inside
<1>16. QED
  BY <1>1, <1>2, <1>3, <1>4, <1>5, <1>6, <1>7, <1>8, <1>9,
     <1>10, <1>11, <1>12, <1>13, <1>14, <1>15
  DEF Next, Progress, Program, Advance, Terminated

\* The argument of the order in progress stays exported.
LEMMA OrderStep ==
  TypeOK /\ PhaseInv /\ OrderInv /\ [Next]_vars => OrderInv'
<1> SUFFICES ASSUME TypeOK, PhaseInv, OrderInv, [Next]_vars
             PROVE  OrderInv'
  OBVIOUS
<1>0. 0 \in Threads
  BY DEF TypeOK, Threads
<1>1. CASE UNCHANGED vars
  BY <1>1 DEF vars, env, OrderInv, Posted, AllFuncs, Threads
<1>2. ASSUME NEW f \in AllFuncs, CallPool(f) PROVE OrderInv'
  BY <1>0, <1>2 DEF CallPool, env, Goto, TypeOK, Threads, OrderInv, Posted, AllFuncs
<1>3. ASSUME NEW f \in AllFuncs, CallDirect(f) PROVE OrderInv'
  BY <1>0, <1>3 DEF CallDirect, env, Goto, TypeOK, Threads, OrderInv, Posted, AllFuncs
<1>4. CASE Stop
  BY <1>0, <1>4 DEF Stop, env, Goto, TypeOK, Threads, OrderInv, Posted, AllFuncs
<1>5. CASE Barrier
  BY <1>0, <1>5 DEF Barrier, Past, Waiting, env, TypeOK, Threads, OrderInv, Posted
<1>6. ASSUME NEW t \in Threads, ThreadStart(t) PROVE OrderInv'
  BY <1>0, <1>6, Together DEF ThreadStart, env, Goto, TypeOK, Threads, OrderInv, Posted, AllFuncs
<1>7. ASSUME NEW t \in Threads, WriteUnlocked(t) PROVE OrderInv'
  BY <1>0, <1>7, Together DEF WriteUnlocked, env, Goto, TypeOK, Threads, OrderInv, Posted, AllFuncs
<1>8. ASSUME NEW t \in Threads, Fetch(t) PROVE OrderInv'
  BY <1>0, <1>8, Together DEF Fetch, LockEntry, env, Goto, TypeOK, Threads, OrderInv, Posted, AllFuncs
<1>9. ASSUME NEW t \in Threads, Work(t) PROVE OrderInv'
  BY <1>0, <1>9, Together DEF Work, env, Goto, TypeOK, Threads, OrderInv, Posted, AllFuncs
<1>10. ASSUME NEW t \in Threads, EnterBarrier(t) PROVE OrderInv'
  BY <1>0, <1>10, Together DEF EnterBarrier, BarrEntry, env, Goto, TypeOK, Threads, OrderInv, Posted, AllFuncs
<1>11. ASSUME NEW t \in Threads, Note(t) PROVE OrderInv'
  BY <1>0, <1>11, Together DEF Note, env, Goto, TypeOK, Threads, OrderInv, Posted, AllFuncs
<1>12. ASSUME NEW t \in Threads, Compare(t) PROVE OrderInv'
  BY <1>0, <1>12, Together DEF Compare, env, Goto, TypeOK, Threads, OrderInv, Posted, AllFuncs
<1>13. ASSUME NEW t \in Threads, Leave(t) PROVE OrderInv'
  BY <1>0, <1>13, Together DEF Leave, env, Goto, TypeOK, Threads, OrderInv, Posted, AllFuncs
<1>14. ASSUME NEW t \in Threads, Finish(t) PROVE OrderInv'
  BY <1>0, <1>14, Together DEF Finish, LockEntry, env, Goto, TypeOK, Threads, OrderInv, Posted, AllFuncs
<1>15. ASSUME NEW t \in Threads, WriteLocked(t) PROVE OrderInv'
  BY <1>0, <1>15, Together DEF WriteLocked, env, Goto, TypeOK, Threads, OrderInv, Posted, AllFuncs
<1>16. QED
  BY <1>1, <1>2, <1>3, <1>4, <1>5, <1>6, <1>7, <1>8, <1>9,
     <1>10, <1>11, <1>12, <1>13, <1>14, <1>15
  DEF Next, Progress, Program, Advance, Terminated

\* A thread that moves on outside check_barrier leaves the noted line in place.
LEMMA LineKept ==
  ASSUME TypeOK, LineInv, NEW t \in Threads,
         UNCHANGED <<nthreads, threaded_function_ptr, glb_barr_line>>,
         \A u \in Threads \ {t} : pc'[u] = pc[u] /\ step'[u] = step[u],
         pc'[t] \notin {"note", "check", "compare"}
  PROVE  LineInv'
<1>1. 0 \in Threads /\ Threads' = Threads
  BY DEF TypeOK, Threads
<1>2. ASSUME NEW u \in Threads PROVE LineAt(u)'
  <2>1. CASE u = t
    BY <2>1 DEF LineAt
  <2>2. CASE u # t
    <3>1. pc'[0] = "check" => pc[0] = "check"
      BY <1>1
    <3>2. LineAt(u)
      BY DEF LineInv
    <3>3. QED
      BY <2>2, <3>1, <3>2 DEF LineAt, LineOf
  <2>3. QED
    BY <2>1, <2>2
<1>3. QED
  BY <1>1, <1>2 DEF LineInv

\* The line noted by the master stays the one to compare.
LEMMA LineStep ==
  TypeOK /\ PhaseInv /\ FlagInv /\ LineInv /\ [Next]_vars => LineInv'
<1> SUFFICES ASSUME TypeOK, PhaseInv, FlagInv, LineInv, [Next]_vars
             PROVE  LineInv'
  OBVIOUS
<1>0. 0 \in Threads
  BY DEF TypeOK, Threads
<1>1. CASE UNCHANGED vars
  BY <1>1 DEF vars, env, LineInv, LineAt, LineOf, Inside, Threads
<1>2. ASSUME NEW f \in AllFuncs, CallPool(f) PROVE LineInv'
  <2> SUFFICES ASSUME NEW u \in Threads PROVE LineAt(u)'
    BY <1>2 DEF LineInv, CallPool, env, Threads
  <2>1. pc[u] \in {"start", "seq", "unlock", "locked", "exit"}
    BY <1>0, <1>2, Together DEF CallPool
  <2>2. QED
    BY <1>0, <1>2, <2>1 DEF LineAt, CallPool, env, Goto, TypeOK
<1>3. ASSUME NEW f \in AllFuncs, CallDirect(f) PROVE LineInv'
  BY <1>0, <1>3 DEF CallDirect, env, Goto, TypeOK, Threads, LineInv, LineAt, LineOf, Inside
<1>4. CASE Stop
  <2> SUFFICES ASSUME NEW u \in Threads PROVE LineAt(u)'
    BY <1>4 DEF LineInv, Stop, env, Threads
  <2>1. pc[u] \in {"start", "seq", "unlock", "locked", "exit"}
    BY <1>0, <1>4, Together DEF Stop
  <2>2. QED
    BY <1>0, <1>4, <2>1 DEF LineAt, Stop, env, Goto, TypeOK
<1>5. CASE Barrier
  <2> SUFFICES ASSUME NEW u \in Threads PROVE LineAt(u)'
    BY <1>5 DEF LineInv, Barrier, env, Threads
  <2>1. /\ pc[u] \in Waiting /\ pc[0] \in Waiting
        /\ pc'[u] = Past(pc[u]) /\ pc'[0] = Past(pc[0])
        /\ UNCHANGED <<step, threaded_function_ptr, glb_barr_line>>
    BY <1>0, <1>5 DEF Barrier
  <2>2. pc'[0] # "check"
    BY <2>1 DEF Past, Waiting
  <2>3. pc'[u] = "compare" => pc[u] = "check"
    BY <2>1 DEF Past, Waiting
  <2>4. pc[u] = "check" => pc[0] = "check"
    BY <1>0, <2>1, Together DEF Waiting
  <2>5. LineAt(u)
    BY DEF LineInv
  <2>6. QED
    BY <2>1, <2>2, <2>3, <2>4, <2>5 DEF LineAt, LineOf
<1>6. ASSUME NEW t \in Threads, ThreadStart(t) PROVE LineInv'
  <2>1. UNCHANGED <<nthreads, threaded_function_ptr, glb_barr_line>>
    BY <1>6 DEF ThreadStart, env
  <2>2. \A u \in Threads \ {t} : pc'[u] = pc[u] /\ step'[u] = step[u]
    BY <1>6 DEF ThreadStart, Goto, TypeOK
  <2>3. pc'[t] \notin {"note", "check", "compare"}
    BY <1>6 DEF ThreadStart, Goto, TypeOK
  <2>4. QED
    BY <2>1, <2>2, <2>3, LineKept
<1>7. ASSUME NEW t \in Threads, WriteUnlocked(t) PROVE LineInv'
  <2>1. UNCHANGED <<nthreads, threaded_function_ptr, glb_barr_line>>
    BY <1>7 DEF WriteUnlocked, env
  <2>2. \A u \in Threads \ {t} : pc'[u] = pc[u] /\ step'[u] = step[u]
    BY <1>7 DEF WriteUnlocked, Goto, TypeOK
  <2>3. pc'[t] \notin {"note", "check", "compare"}
    BY <1>7 DEF WriteUnlocked, Goto, TypeOK
  <2>4. QED
    BY <2>1, <2>2, <2>3, LineKept
<1>8. ASSUME NEW t \in Threads, Fetch(t) PROVE LineInv'
  <2>1. UNCHANGED <<nthreads, threaded_function_ptr, glb_barr_line>>
    BY <1>8 DEF Fetch, env
  <2>2. \A u \in Threads \ {t} : pc'[u] = pc[u] /\ step'[u] = step[u]
    BY <1>8 DEF Fetch, Goto, TypeOK
  <2>3. pc'[t] \notin {"note", "check", "compare"}
    BY <1>8 DEF Fetch, LockEntry, Goto, TypeOK
  <2>4. QED
    BY <2>1, <2>2, <2>3, LineKept
<1>9. ASSUME NEW t \in Threads, Work(t) PROVE LineInv'
  <2>1. UNCHANGED <<nthreads, threaded_function_ptr, glb_barr_line>>
    BY <1>9 DEF Work, env
  <2>2. \A u \in Threads \ {t} : pc'[u] = pc[u] /\ step'[u] = step[u]
    BY <1>9 DEF Work, Goto, TypeOK
  <2>3. pc'[t] \notin {"note", "check", "compare"}
    BY <1>9 DEF Work, Goto, TypeOK
  <2>4. QED
    BY <2>1, <2>2, <2>3, LineKept
<1>10. ASSUME NEW t \in Threads, EnterBarrier(t) PROVE LineInv'
  <2>1. UNCHANGED <<nthreads, threaded_function_ptr, glb_barr_line>>
    BY <1>10 DEF EnterBarrier, env
  <2>2. \A u \in Threads \ {t} : pc'[u] = pc[u] /\ step'[u] = step[u]
    BY <1>10 DEF EnterBarrier, Goto, TypeOK
  <2>3. pc'[t] \notin {"note", "check", "compare"}
    BY <1>10 DEF EnterBarrier, BarrEntry, Goto, TypeOK
  <2>4. QED
    BY <2>1, <2>2, <2>3, LineKept
<1>11. ASSUME NEW t \in Threads, Note(t) PROVE LineInv'
  <2> SUFFICES ASSUME NEW u \in Threads PROVE LineAt(u)'
    BY <1>11 DEF LineInv, Note, env, Threads
  <2>1. /\ pc[t] = "note" /\ pc'[t] = "check" /\ step' = step
        /\ UNCHANGED <<threaded_function_ptr, mine>>
        /\ \A v \in Threads \ {t} : pc'[v] = pc[v]
        /\ glb_barr_line' = IF t = 0 THEN BarrLine(t) ELSE glb_barr_line
    BY <1>11 DEF Note, Goto, TypeOK
  <2>2. pc[u] \in {"note", "check"} /\ step[u] = step[t]
    BY <2>1, Together
  <2>3. mine[t].f = threaded_function_ptr
    BY <2>1, Together DEF Working, Inside
  <2>4. CASE t = 0
    <3>1. glb_barr_line' = LineOf(step[t])'
      BY <2>1, <2>3, <2>4 DEF BarrLine, LineOf
    <3>2. pc'[u] # "compare"
      BY <2>1, <2>2
    <3>3. QED
      BY <2>1, <2>2, <3>1, <3>2 DEF LineAt, LineOf
  <2>5. CASE t # 0
    <3>1. LineAt(u) /\ LineAt(t)
      BY DEF LineInv
    <3>2. pc'[0] = pc[0] /\ glb_barr_line' = glb_barr_line
      BY <1>0, <2>1, <2>5
    <3>3. pc'[u] # "compare"
      BY <2>1, <2>2
    <3>4. QED
      BY <2>1, <2>2, <3>1, <3>2, <3>3 DEF LineAt, LineOf
  <2>6. QED
    BY <2>4, <2>5
<1>12. ASSUME NEW t \in Threads, Compare(t) PROVE LineInv'
  <2>1. UNCHANGED <<nthreads, threaded_function_ptr, glb_barr_line>>
    BY <1>12 DEF Compare, env
  <2>2. \A u \in Threads \ {t} : pc'[u] = pc[u] /\ step'[u] = step[u]
    BY <1>12 DEF Compare, Goto, TypeOK
  <2>3. pc'[t] \notin {"note", "check", "compare"}
    BY <1>12 DEF Compare, Goto, TypeOK
  <2>4. QED
    BY <2>1, <2>2, <2>3, LineKept
<1>13. ASSUME NEW t \in Threads, Leave(t) PROVE LineInv'
  <2>1. UNCHANGED <<nthreads, threaded_function_ptr, glb_barr_line>>
    BY <1>13 DEF Leave, env
  <2>2. \A u \in Threads \ {t} : pc'[u] = pc[u] /\ step'[u] = step[u]
    BY <1>13 DEF Leave, Goto, TypeOK
  <2>3. pc'[t] \notin {"note", "check", "compare"}
    BY <1>13 DEF Leave, Goto, TypeOK
  <2>4. QED
    BY <2>1, <2>2, <2>3, LineKept
<1>14. ASSUME NEW t \in Threads, Finish(t) PROVE LineInv'
  <2>1. UNCHANGED <<nthreads, threaded_function_ptr, glb_barr_line>>
    BY <1>14 DEF Finish, env
  <2>2. \A u \in Threads \ {t} : pc'[u] = pc[u] /\ step'[u] = step[u]
    BY <1>14 DEF Finish, Goto, TypeOK
  <2>3. pc'[t] \notin {"note", "check", "compare"}
    BY <1>14 DEF Finish, LockEntry, Goto, TypeOK
  <2>4. QED
    BY <2>1, <2>2, <2>3, LineKept
<1>15. ASSUME NEW t \in Threads, WriteLocked(t) PROVE LineInv'
  <2>1. UNCHANGED <<nthreads, threaded_function_ptr, glb_barr_line>>
    BY <1>15 DEF WriteLocked, env
  <2>2. \A u \in Threads \ {t} : pc'[u] = pc[u] /\ step'[u] = step[u]
    BY <1>15 DEF WriteLocked, Goto, TypeOK
  <2>3. pc'[t] \notin {"note", "check", "compare"}
    BY <1>15 DEF WriteLocked, Goto, TypeOK
  <2>4. QED
    BY <2>1, <2>2, <2>3, LineKept
<1>16. QED
  BY <1>1, <1>2, <1>3, <1>4, <1>5, <1>6, <1>7, <1>8, <1>9,
     <1>10, <1>11, <1>12, <1>13, <1>14, <1>15
  DEF Next, Progress, Program, Advance, Terminated

\* The counter of thread_sanity_check goes from hand to hand.
LEMMA SanityStep ==
  TypeOK /\ PhaseInv /\ FlagInv /\ SanityInv /\ [Next]_vars => SanityInv'
<1> SUFFICES ASSUME TypeOK, PhaseInv, FlagInv, SanityInv, [Next]_vars
             PROVE  SanityInv'
  OBVIOUS
<1>0. 0 \in Threads
  BY DEF TypeOK, Threads
<1>1. CASE UNCHANGED vars
  BY <1>1 DEF vars, env, SanityInv, SanityAt, Inside, Threads
<1>2. ASSUME NEW f \in AllFuncs, CallPool(f) PROVE SanityInv'
  <2> SUFFICES ASSUME NEW u \in Threads PROVE SanityAt(u)'
    BY <1>2 DEF SanityInv, CallPool, env, Threads
  <2>1. pc[u] \in {"start", "seq", "unlock", "locked", "exit"}
    BY <1>0, <1>2, Together DEF CallPool
  <2>2. QED
    BY <1>0, <1>2, <2>1 DEF SanityAt, CallPool, env, Goto, TypeOK
<1>3. ASSUME NEW f \in AllFuncs, CallDirect(f) PROVE SanityInv'
  <2> SUFFICES ASSUME NEW u \in Threads PROVE SanityAt(u)'
    BY <1>3 DEF SanityInv, CallDirect, env, Threads
  <2>1. pc[u] \in {"start", "seq", "unlock", "locked", "exit"}
    BY <1>0, <1>3, Together DEF CallDirect
  <2>2. QED
    BY <1>0, <1>3, <2>1 DEF SanityAt, CallDirect, env, Goto, TypeOK
<1>4. CASE Stop
  <2> SUFFICES ASSUME NEW u \in Threads PROVE SanityAt(u)'
    BY <1>4 DEF SanityInv, Stop, env, Threads
  <2>1. pc[u] \in {"start", "seq", "unlock", "locked", "exit"}
    BY <1>0, <1>4, Together DEF Stop
  <2>2. QED
    BY <1>0, <1>4, <2>1 DEF SanityAt, Stop, env, Goto, TypeOK
<1>5. CASE Barrier
  <2> SUFFICES ASSUME threaded_function_ptr = Sanity, NEW u \in Threads
               PROVE  SanityAt(u)'
    BY <1>5 DEF SanityInv, Barrier, env, Threads
  <2>1. /\ \A v \in Threads : SanityAt(v) /\ pc[v] \in Waiting /\ pc'[v] = Past(pc[v])
        /\ nthreads \in Nat \ {0} /\ step[u] \in Nat
        /\ UNCHANGED <<step, broadcast_ptr, nthreads, debug>>
    BY <1>5 DEF SanityInv, TypeOK, Barrier, env
  <2>2. ASSUME NEW v \in Threads, v = step[u], pc[u] \in {"true", "check"}
        PROVE  broadcast_ptr = v
    <3>1. pc[v] \in {"wait", "true", "check", "note", "barr"} /\ step[v] = step[u]
      <4>1. PICK ph \in Phases, k \in Nat : \A w \in Threads : In(ph, k, w)
        BY DEF PhaseInv
      <4>2. In(ph, k, u) /\ In(ph, k, v)
        BY <4>1
      <4>3. \/ ph = "check"
            \/ ph = "late" /\ pc[u] = "true"
            \/ ph = "ready" /\ debug < 2 /\ pc[u] = "true"
        BY <2>2, <4>2 DEF In, Out, Ready, Late, Checking
      <4>4. pc[v] \in Waiting
        BY <2>1
      <4>5. threaded_function_ptr # NULL
        BY ConstantsAssumption
      <4>6. k < Length /\ Length \in Nat /\ step[u] = k
        BY <2>2, <4>2, <4>3, <4>5, LengthType
        DEF In, Out, Ready, Late, Checking, Posted
      <4>7. CASE ph = "check"
        BY <4>2, <4>6, <4>7 DEF In, Checking
      <4>8. CASE ph = "late"
        BY <4>2, <4>4, <4>5, <4>6, <4>8 DEF In, Late, Waiting, Posted
      <4>9. CASE ph = "ready" /\ debug < 2
        BY <4>2, <4>4, <4>5, <4>6, <4>9 DEF In, Ready, Waiting, Posted, Delayed
      <4>10. QED
        BY <4>3, <4>7, <4>8, <4>9
    <3>2. QED
      BY <2>1, <2>2, <3>1 DEF SanityAt
  <2>3. CASE pc[u] \in {"true", "check"}
    <3>1. ASSUME u > 0, step[u] + 1 = u PROVE broadcast_ptr = u - 1
      <4>1. u - 1 \in Threads /\ u - 1 = step[u]
        BY <2>1, <3>1 DEF Threads
      <4>2. QED
        BY <2>2, <2>3, <4>1
    <3>2. ASSUME u = 0, step[u] + 1 = nthreads PROVE broadcast_ptr = nthreads - 1
      <4>1. nthreads - 1 \in Threads /\ nthreads - 1 = step[u]
        BY <2>1, <3>2 DEF Threads
      <4>2. QED
        BY <2>2, <2>3, <4>1
    <3>3. pc'[u] \in {"note", "leave", "compare"}
      BY <2>1, <2>3 DEF Past
    <3>4. pc[u] = "check" => pc'[u] = "compare"
      BY <2>1 DEF Past
    <3>5. step[u] = u => broadcast_ptr = u
      BY <2>2, <2>3
    <3>6. QED
      BY <2>1, <3>1, <3>2, <3>3, <3>5 DEF SanityAt, Threads
  <2>4. CASE pc[u] \notin {"true", "check"}
    BY <2>1, <2>4 DEF SanityAt, Past, Waiting
  <2>5. QED
    BY <2>3, <2>4
<1>6. ASSUME NEW t \in Threads, ThreadStart(t) PROVE SanityInv'
  <2> SUFFICES ASSUME threaded_function_ptr = Sanity, NEW u \in Threads
               PROVE  SanityAt(u)'
    BY <1>6 DEF SanityInv, ThreadStart, env, Threads
  <2>1. SanityAt(u) /\ nthreads \in Nat \ {0} /\ step[t] \in Nat /\ step[u] \in Nat
    BY DEF SanityInv, TypeOK
  <2>9. QED
    BY <1>0, <1>6, <2>1 DEF SanityAt, ThreadStart, env, Goto, TypeOK, Threads, Inside
<1>7. ASSUME NEW t \in Threads, WriteUnlocked(t) PROVE SanityInv'
  <2> SUFFICES ASSUME threaded_function_ptr = Sanity, NEW u \in Threads
               PROVE  SanityAt(u)'
    BY <1>7 DEF SanityInv, WriteUnlocked, env, Threads
  <2>1. SanityAt(u) /\ nthreads \in Nat \ {0} /\ step[t] \in Nat /\ step[u] \in Nat
    BY DEF SanityInv, TypeOK
  <2>9. QED
    BY <1>0, <1>7, <2>1 DEF SanityAt, WriteUnlocked, env, Goto, TypeOK, Threads, Inside
<1>8. ASSUME NEW t \in Threads, Fetch(t) PROVE SanityInv'
  <2> SUFFICES ASSUME threaded_function_ptr = Sanity, NEW u \in Threads
               PROVE  SanityAt(u)'
    BY <1>8 DEF SanityInv, Fetch, env, Threads
  <2>1. SanityAt(u) /\ nthreads \in Nat \ {0} /\ step[t] \in Nat /\ step[u] \in Nat
    BY DEF SanityInv, TypeOK
  <2>2. CASE u = t
    <3>1. pc'[t] \in {"lwait", "lock"} \/ (pc'[t] = "body" /\ step'[t] = 0)
      BY <1>8 DEF Fetch, LockEntry, Goto, TypeOK
    <3>2. QED
      BY <2>1, <2>2, <3>1, <1>8 DEF Fetch, SanityAt, env
  <2>3. CASE u # t
    BY <1>8, <2>1, <2>3 DEF Fetch, SanityAt, Goto, TypeOK, env
  <2>9. QED
    BY <2>2, <2>3
<1>9. ASSUME NEW t \in Threads, Work(t) PROVE SanityInv'
  <2> SUFFICES ASSUME threaded_function_ptr = Sanity, NEW u \in Threads
               PROVE  SanityAt(u)'
    BY <1>9 DEF SanityInv, Work, env, Threads
  <2>1. SanityAt(u) /\ nthreads \in Nat \ {0} /\ step[t] \in Nat /\ step[u] \in Nat
    BY DEF SanityInv, TypeOK
  <2>2. /\ pc[t] = "body" /\ pc'[t] = "barr" /\ step' = step /\ mine[t].f = Sanity
        /\ ~ thread_pool_locked /\ nthreads' = nthreads
        /\ \A v \in Threads \ {t} : pc'[v] = pc[v]
    BY <1>9, Together DEF Work, Working, Inside, FlagInv, FlagAt, Goto, TypeOK, env
  <2>3. broadcast_ptr' = IF step[t] < nthreads /\ t = step[t] THEN t ELSE broadcast_ptr
    BY <1>9, <2>2 DEF Work, SanityWork, NActive
  <2>4. CASE u = t
    BY <2>1, <2>2, <2>3, <2>4 DEF SanityAt, Threads
  <2>5. CASE u # t /\ broadcast_ptr' = broadcast_ptr
    BY <2>1, <2>2, <2>5 DEF SanityAt
  <2>6. CASE u # t /\ t = step[t]
    <3>1. /\ pc[u] \in {"body", "delay", "barr", "wait", "true"} => step[u] = t
          /\ pc[u] \in {"compare", "leave"} => step[u] + 1 = t
          /\ pc[u] \notin {"note", "check"}
      BY <2>2, <2>6, Together
    <3>2. QED
      BY <2>1, <2>2, <2>6, <3>1 DEF SanityAt, Threads
  <2>7. QED
    BY <2>3, <2>4, <2>5, <2>6
<1>10. ASSUME NEW t \in Threads, EnterBarrier(t) PROVE SanityInv'
  <2> SUFFICES ASSUME threaded_function_ptr = Sanity, NEW u \in Threads
               PROVE  SanityAt(u)'
    BY <1>10 DEF SanityInv, EnterBarrier, env, Threads
  <2>1. SanityAt(u) /\ nthreads \in Nat \ {0} /\ step[t] \in Nat /\ step[u] \in Nat
    BY DEF SanityInv, TypeOK
  <2>2. pc[t] = "barr" /\ ~ thread_pool_locked
    BY <1>10 DEF EnterBarrier, FlagInv, FlagAt, Inside
  <2>9. QED
    BY <1>0, <1>10, <2>1, <2>2 DEF SanityAt, EnterBarrier, BarrEntry, env, Goto, TypeOK, Threads, Inside
<1>11. ASSUME NEW t \in Threads, Note(t) PROVE SanityInv'
  <2> SUFFICES ASSUME threaded_function_ptr = Sanity, NEW u \in Threads
               PROVE  SanityAt(u)'
    BY <1>11 DEF SanityInv, Note, env, Threads
  <2>1. SanityAt(u) /\ nthreads \in Nat \ {0} /\ step[t] \in Nat /\ step[u] \in Nat
    BY DEF SanityInv, TypeOK
  <2>9. QED
    BY <1>0, <1>11, <2>1 DEF SanityAt, Note, env, Goto, TypeOK, Threads, Inside
<1>12. ASSUME NEW t \in Threads, Compare(t) PROVE SanityInv'
  <2> SUFFICES ASSUME threaded_function_ptr = Sanity, NEW u \in Threads
               PROVE  SanityAt(u)'
    BY <1>12 DEF SanityInv, Compare, env, Threads
  <2>1. SanityAt(u) /\ nthreads \in Nat \ {0} /\ step[t] \in Nat /\ step[u] \in Nat
    BY DEF SanityInv, TypeOK
  <2>9. QED
    BY <1>0, <1>12, <2>1 DEF SanityAt, Compare, env, Goto, TypeOK, Threads, Inside
<1>13. ASSUME NEW t \in Threads, Leave(t) PROVE SanityInv'
  <2> SUFFICES ASSUME threaded_function_ptr = Sanity, NEW u \in Threads
               PROVE  SanityAt(u)'
    BY <1>13 DEF SanityInv, Leave, env, Threads
  <2>1. SanityAt(u) /\ nthreads \in Nat \ {0} /\ step[t] \in Nat /\ step[u] \in Nat
    BY DEF SanityInv, TypeOK
  <2>2. /\ pc[t] = "leave" /\ pc'[t] \in {"body", "delay"} /\ step'[t] = step[t] + 1
        /\ u # t => pc'[u] = pc[u] /\ step'[u] = step[u]
        /\ UNCHANGED <<broadcast_ptr, nthreads>>
    BY <1>13 DEF Leave, Goto, TypeOK, env
  <2>9. QED
    BY <2>1, <2>2 DEF SanityAt
<1>14. ASSUME NEW t \in Threads, Finish(t) PROVE SanityInv'
  <2> SUFFICES ASSUME threaded_function_ptr = Sanity, NEW u \in Threads
               PROVE  SanityAt(u)'
    BY <1>14 DEF SanityInv, Finish, env, Threads
  <2>1. SanityAt(u) /\ nthreads \in Nat \ {0} /\ step[t] \in Nat /\ step[u] \in Nat
    BY DEF SanityInv, TypeOK
  <2>9. QED
    BY <1>0, <1>14, <2>1 DEF SanityAt, Finish, LockEntry, env, Goto, TypeOK, Threads, Inside
<1>15. ASSUME NEW t \in Threads, WriteLocked(t) PROVE SanityInv'
  <2> SUFFICES ASSUME threaded_function_ptr = Sanity, NEW u \in Threads
               PROVE  SanityAt(u)'
    BY <1>15 DEF SanityInv, WriteLocked, env, Threads
  <2>1. SanityAt(u) /\ nthreads \in Nat \ {0} /\ step[t] \in Nat /\ step[u] \in Nat
    BY DEF SanityInv, TypeOK
  <2>9. QED
    BY <1>0, <1>15, <2>1 DEF SanityAt, WriteLocked, env, Goto, TypeOK, Threads, Inside
<1>16. QED
  BY <1>1, <1>2, <1>3, <1>4, <1>5, <1>6, <1>7, <1>8, <1>9,
     <1>10, <1>11, <1>12, <1>13, <1>14, <1>15
  DEF Next, Progress, Program, Advance, Terminated

\* The turn checks of thread_sanity_check pass.
LEMMA SanityPasses ==
  ASSUME TypeOK, PhaseInv, FlagInv, SanityInv, ~ crashed,
         NEW t \in Threads, Work(t)
  PROVE  ~ crashed'
<1>1. CASE mine[t].f = Sanity
  <2>1. /\ pc[t] = "body" /\ threaded_function_ptr = Sanity
        /\ ~ thread_pool_locked /\ step[t] < nthreads + 1
    BY <1>1, Together DEF Work, Working, Inside, FlagInv, FlagAt, Barriers, NActive
  <2>2. SanityAt(t) /\ nthreads \in Nat \ {0} /\ step[t] \in Nat
    BY <2>1 DEF SanityInv, TypeOK
  <2>3. ~ (step[t] < nthreads /\ t = step[t] /\ t # 0 /\ broadcast_ptr # t - 1)
    BY <2>1, <2>2 DEF SanityAt, Threads
  <2>4. ~ (~ (step[t] < nthreads) /\ t = 0 /\ broadcast_ptr # nthreads - 1)
    BY <2>1, <2>2 DEF SanityAt
  <2>5. SanityWork(t)
    BY <1>1 DEF Work
  <2>6. QED
    BY <2>1, <2>3, <2>4, <2>5 DEF SanityWork, NActive
<1>2. CASE mine[t].f # Sanity
  BY <1>2 DEF Work
<1>3. QED
  BY <1>1, <1>2

\* A thread that finds another line than its own is in a divergent function.
LEMMA MismatchDiverges ==
  ASSUME TypeOK, PhaseInv, LineInv, NEW t \in Threads, t # 0, pc[t] = "compare"
  PROVE  glb_barr_line # BarrLine(t) <=> mine[t].f \in Divergent
<1>1. glb_barr_line = LineOf(step[t]) /\ mine[t].f = threaded_function_ptr
  BY Together DEF LineInv, LineAt, Working, Inside
<1>2. QED
  BY <1>1 DEF LineOf, BarrLine

\* No step raises a false alarm.
LEMMA AlarmStep ==
  TypeOK /\ PhaseInv /\ FlagInv /\ LineInv /\ SanityInv /\ NoFalseAlarm
    /\ [Next]_vars => NoFalseAlarm'
<1> SUFFICES ASSUME TypeOK, PhaseInv, FlagInv, LineInv, SanityInv, NoFalseAlarm,
                    [Next]_vars
             PROVE  NoFalseAlarm'
  OBVIOUS
<1>1. CASE UNCHANGED vars
  BY <1>1 DEF vars, env, NoFalseAlarm, Threads
<1>2. ASSUME ~ crashed, Progress PROVE NoFalseAlarm'
  <2>1. ASSUME NEW t \in Threads, Work(t) PROVE ~ crashed'
    BY <1>2, <2>1, SanityPasses
  <2>2. ASSUME NEW t \in Threads, Compare(t) PROVE NoFalseAlarm'
    <3>1. CASE t # 0 /\ glb_barr_line # BarrLine(t)
      <4>1. mine[t].f \in Divergent /\ pc'[t] = "leave" /\ mine' = mine
        BY <2>2, <3>1, MismatchDiverges DEF Compare, Goto, TypeOK
      <4>2. t \in Threads' /\ crashed' = onRank0 /\ onRank0' = onRank0
            /\ debug' = debug
        BY <2>2, <3>1 DEF Compare, Crash, env, Threads
      <4>3. pc[t] = "compare"
        BY <2>2 DEF Compare
      <4>4. debug >= 1
        <5>1. PICK ph \in Phases, k \in Nat : \A u \in Threads : In(ph, k, u)
          BY DEF PhaseInv
        <5>2. QED
          BY <4>3, <5>1 DEF In, Out, Ready, Late, Checking
      <4>5. pc'[t] \in Inside /\ mine'[t].f \in Divergent
        BY <4>1 DEF Inside
      <4>6. crashed' => onRank0'
        BY <4>2
      <4>7. debug' >= 1
        BY <4>2, <4>4
      <4>8. QED
        BY <4>2, <4>5, <4>6, <4>7 DEF NoFalseAlarm, Inside
    <3>2. CASE ~ (t # 0 /\ glb_barr_line # BarrLine(t))
      BY <1>2, <2>2, <3>2 DEF Compare, NoFalseAlarm
    <3>3. QED
      BY <3>1, <3>2
  <2>3. ASSUME ~ \E t \in Threads : Work(t) \/ Compare(t) PROVE ~ crashed'
    BY <1>2, <2>3 DEF Progress, Program, Advance, CallPool, CallDirect, Stop,
       Barrier, ThreadStart, WriteUnlocked, Fetch, EnterBarrier, Note, Leave,
       Finish, WriteLocked
  <2>4. QED
    BY <2>1, <2>2, <2>3 DEF NoFalseAlarm
<1>3. QED
  BY <1>1, <1>2 DEF Next, Terminated

\* No step lets a thread of rank 0 past a barrier it does not share.
LEMMA DivergenceStep ==
  TypeOK /\ PhaseInv /\ FlagInv /\ LineInv /\ DivergenceInv
    /\ [Next]_vars => DivergenceInv'
<1> SUFFICES ASSUME TypeOK, PhaseInv, FlagInv, LineInv, DivergenceInv,
                    [Next]_vars
             PROVE  DivergenceInv'
  OBVIOUS
<1>0. 0 \in Threads
  BY DEF TypeOK, Threads
<1>1. CASE UNCHANGED vars
  BY <1>1 DEF vars, env, DivergenceInv, DivergenceAt, Threads
<1>2. ASSUME ~ crashed, Progress PROVE DivergenceInv'
  <2> SUFFICES ASSUME debug >= 1, onRank0, NEW u \in Threads, u # 0
               PROVE  DivergenceAt(u)'
    BY <1>2 DEF DivergenceInv, Progress, Program, Advance, CallPool, CallDirect,
       Stop, Barrier, ThreadStart, WriteUnlocked, Fetch, EnterBarrier, Note,
       Leave, Finish, WriteLocked, Work, Compare, env, Threads
  <2>0. DivergenceAt(u) /\ ~ crashed
    BY <1>2 DEF DivergenceInv
  <2> USE DEF Goto, TypeOK, DivergenceAt
  <2>1. ASSUME NEW f \in AllFuncs, CallPool(f) PROVE DivergenceAt(u)'
    BY <1>0, <2>0, <2>1 DEF CallPool
  <2>2. ASSUME NEW f \in AllFuncs, CallDirect(f) PROVE DivergenceAt(u)'
    BY <2>0, <2>2 DEF CallDirect
  <2>3. CASE Stop
    BY <1>0, <2>0, <2>3 DEF Stop
  <2>4. CASE Barrier
    BY <2>0, <2>4 DEF Barrier, Past, Waiting, Inside
  <2>5. ASSUME NEW t \in Threads, ThreadStart(t) PROVE DivergenceAt(u)'
    BY <2>0, <2>5 DEF ThreadStart, Inside
  <2>6. ASSUME NEW t \in Threads, WriteUnlocked(t) PROVE DivergenceAt(u)'
    BY <2>0, <2>6 DEF WriteUnlocked, Inside
  <2>7. ASSUME NEW t \in Threads, Fetch(t) PROVE DivergenceAt(u)'
    <3>1. CASE u = t
      <4>1. pc'[t] \in {"lwait", "lock"} \/ (pc'[t] = "body" /\ step'[t] = 0)
        BY <2>7 DEF Fetch, LockEntry
      <4>2. QED
        BY <3>1, <4>1 DEF Inside
    <3>2. CASE u # t
      <4>1. pc'[u] = pc[u] /\ step'[u] = step[u] /\ mine'[u] = mine[u]
            /\ crashed' = crashed
        BY <2>7, <3>2 DEF Fetch
      <4>2. QED
        BY <2>0, <4>1
    <3>3. QED
      BY <3>1, <3>2
  <2>8. ASSUME NEW t \in Threads, Work(t) PROVE DivergenceAt(u)'
    <3>1. /\ pc[t] = "body" /\ pc'[t] = "barr" /\ step' = step /\ mine' = mine
          /\ \A v \in Threads \ {t} : pc'[v] = pc[v]
      BY <2>8 DEF Work
    <3>2. QED
      BY <2>0, <3>1 DEF Inside
  <2>9. ASSUME NEW t \in Threads, EnterBarrier(t) PROVE DivergenceAt(u)'
    <3>1. ~ thread_pool_locked
      BY <2>9 DEF EnterBarrier, FlagInv, FlagAt, Inside
    <3>2. QED
      BY <2>0, <2>9, <3>1 DEF EnterBarrier, BarrEntry, Inside
  <2>10. ASSUME NEW t \in Threads, Note(t) PROVE DivergenceAt(u)'
    BY <2>0, <2>10 DEF Note, Inside
  <2>11. ASSUME NEW t \in Threads, Compare(t) PROVE DivergenceAt(u)'
    <3>1. CASE u = t
      <4>1. mine[t].f \in Divergent => crashed'
        BY <2>11, <3>1, MismatchDiverges DEF Compare, Crash
      <4>2. QED
        BY <2>0, <2>11, <3>1, <4>1 DEF Compare, Inside
    <3>2. CASE u # t
      BY <2>0, <2>11, <3>2 DEF Compare
    <3>3. QED
      BY <3>1, <3>2
  <2>12. ASSUME NEW t \in Threads, Leave(t) PROVE DivergenceAt(u)'
    <3>1. CASE u = t
      <4>1. mine[t].f \notin Divergent /\ mine' = mine
        BY <2>0, <2>12, <3>1 DEF Leave, Inside
      <4>2. QED
        BY <3>1, <4>1
    <3>2. CASE u # t
      <4>1. pc'[u] = pc[u] /\ step'[u] = step[u] /\ mine'[u] = mine[u]
            /\ crashed' = crashed
        BY <2>12, <3>2 DEF Leave
      <4>2. QED
        BY <2>0, <4>1
    <3>3. QED
      BY <3>1, <3>2
  <2>13. ASSUME NEW t \in Threads, Finish(t) PROVE DivergenceAt(u)'
    BY <2>0, <2>13 DEF Finish, LockEntry, Inside
  <2>14. ASSUME NEW t \in Threads, WriteLocked(t) PROVE DivergenceAt(u)'
    BY <2>0, <2>14 DEF WriteLocked, Inside
  <2>15. QED
    BY <1>2, <2>1, <2>2, <2>3, <2>4, <2>5, <2>6, <2>7,
       <2>8, <2>9, <2>10, <2>11, <2>12, <2>13, <2>14
    DEF Progress, Program, Advance
<1>3. QED
  BY <1>1, <1>2 DEF Next, Terminated

\* The invariant holds initially.
LEMMA InitInv == Init => IInv
<1> SUFFICES ASSUME Init PROVE IInv
  OBVIOUS
<1>1. TypeOK
  BY InitType
<1>2. \A t \in Threads : pc[t] = "start" /\ ~ Delayed(t)
  BY DEF Init, Delayed
<1>3. PhaseInv
  <2>1. \A t \in Threads : In("out", 0, t)
    BY <1>2 DEF In, Out
  <2>2. QED
    BY <2>1 DEF PhaseInv, Phases
<1>4. FlagInv /\ DivergenceInv
  BY <1>2 DEF FlagInv, FlagAt, DivergenceInv, DivergenceAt, Inside
<1>5. OrderInv /\ SanityInv /\ NoFalseAlarm
  BY ConstantsAssumption DEF Init, OrderInv, Posted, SanityInv, NoFalseAlarm
<1>6. LineInv
  BY <1>2 DEF LineInv, LineAt
<1>7. QED
  BY <1>1, <1>3, <1>4, <1>5, <1>6 DEF IInv

\* Every step keeps the invariant.
LEMMA StepInv == IInv /\ [Next]_vars => IInv'
BY TypeStep, PhaseStep, FlagStep, OrderStep, LineStep, SanityStep, AlarmStep,
   DivergenceStep
DEF IInv

\* The inductive invariant of the pool.
THEOREM Invariant == Spec => []IInv
BY InitInv, StepInv, PTL DEF Spec

\* Threads in the body of a function execute the last call, whatever the
\* number of threads, the functions and the delays.
THEOREM JobsAgree == Spec => []JobAgreement
<1>1. IInv => JobAgreement
  <2> SUFFICES ASSUME IInv, NEW t \in Threads, pc[t] \in Inside
               PROVE  mine[t].f = threaded_function_ptr /\ mine[t].n = ncalls
    BY DEF JobAgreement
  <2>1. Working(t)
    BY Together DEF IInv
  <2>2. QED
    BY <2>1 DEF Working
<1>2. QED
  BY Invariant, <1>1, PTL

\* thread_pool_locked is never seen with the wrong value.
THEOREM FlagTrue == Spec => []LockFlagTrue
<1>1. IInv => LockFlagTrue
  BY DEF IInv, LockFlagTrue, FlagInv, FlagAt, TypeOK, Threads
<1>2. QED
  BY Invariant, <1>1, PTL

\* Work before a barrier is never concurrent with work after it.
THEOREM StepsSeparate == Spec => []BarriersSeparate
<1>1. IInv => BarriersSeparate
  <2> SUFFICES ASSUME IInv, NEW t \in Threads, NEW u \in Threads,
                      pc[t] = "body", pc[u] \in Inside
               PROVE  \/ step[u] = step[t]
                      \/ step[u] + 1 = step[t] /\ pc[u] \in {"compare", "leave"}
    BY DEF BarriersSeparate
  <2>1. TypeOK /\ PhaseInv
    BY DEF IInv
  <2>2. pc[u] \notin {"note", "check"}
    BY <2>1, Together
  <2>3. QED
    BY <2>1, <2>2, Together DEF Inside
<1>2. QED
  BY Invariant, <1>1, PTL

\* A crash of the checks is never a false alarm.
THEOREM AlarmsTrue == Spec => []NoFalseAlarm
<1>1. IInv => NoFalseAlarm
  BY DEF IInv
<1>2. QED
  BY Invariant, <1>1, PTL

\* The barrier check lets no divergence on rank 0 go by.
THEOREM DivergencesCaught == Spec => []DivergenceCaught
<1>1. IInv => DivergenceCaught
  BY DEF IInv, DivergenceCaught, DivergenceInv, DivergenceAt
<1>2. QED
  BY Invariant, <1>1, PTL

-----------------------------------------------------------------------------
(***************************************************************************)
(* The pool implements ForkJoin.                                           *)
(***************************************************************************)
Doing == [t \in Threads |-> DoingOf(t)]

\* A call the master is about to leave has been executed by every thread.
DoneInv ==
  Posted /\ pc[0] = "locked" => \A t \in Threads : mine[t].n = ncalls

USE ConstantsAssumption

\* Calls are left by the master when every thread has executed them.
LEMMA DoneStep == IInv /\ DoneInv /\ [Next]_vars => DoneInv'
<1> SUFFICES ASSUME IInv, DoneInv, [Next]_vars PROVE DoneInv'
  OBVIOUS
<1>0. TypeOK /\ PhaseInv /\ 0 \in Threads
  BY DEF IInv, TypeOK, Threads
<1>1. CASE Barrier
  <2> SUFFICES ASSUME Posted, pc[0] = "lock", NEW t \in Threads
               PROVE  mine[t].n = ncalls
    BY <1>0, <1>1 DEF DoneInv, Posted, Barrier, Past, Waiting, env, Threads
  <2>1. PICK ph \in Phases, k \in Nat : \A u \in Threads : In(ph, k, u)
    BY <1>0 DEF PhaseInv
  <2>2. In(ph, k, 0) /\ In(ph, k, t) /\ pc[t] \in Waiting
    BY <1>0, <1>1, <2>1 DEF Barrier
  <2>3. Working(t)
    BY <2>2 DEF In, Out, Ready, Late, Checking, Waiting, Delayed
  <2>4. QED
    BY <2>3 DEF Working
<1>2. CASE \E t \in Threads : Fetch(t)
  <2>1. PICK t \in Threads : Fetch(t)
    BY <1>2
  <2>2. pc'[0] # "locked"
    BY <1>0, <2>1, Together DEF Fetch, LockEntry, Goto, TypeOK
  <2>3. QED
    BY <2>2 DEF DoneInv
<1>3. CASE \E f \in AllFuncs : CallPool(f)
  BY <1>0, <1>3 DEF CallPool, DoneInv, Goto, TypeOK
<1>4. CASE \E f \in AllFuncs : CallDirect(f)
  BY <1>4 DEF CallDirect, DoneInv
<1>5. CASE Stop
  BY <1>5 DEF Stop, DoneInv, Posted
<1>6. CASE UNCHANGED vars
  BY <1>6 DEF vars, env, DoneInv, Posted, Threads
<1>7. CASE \E t \in Threads : \/ ThreadStart(t) \/ WriteUnlocked(t) \/ Work(t)
                              \/ EnterBarrier(t) \/ Note(t) \/ Compare(t)
                              \/ Leave(t) \/ Finish(t) \/ WriteLocked(t)
  <2>1. PICK t \in Threads : \/ ThreadStart(t) \/ WriteUnlocked(t) \/ Work(t)
                             \/ EnterBarrier(t) \/ Note(t) \/ Compare(t)
                             \/ Leave(t) \/ Finish(t) \/ WriteLocked(t)
    BY <1>7
  <2>2. UNCHANGED <<nthreads, mine, ncalls, threaded_function_ptr>>
    BY <2>1 DEF ThreadStart, WriteUnlocked, Work, EnterBarrier, Note, Compare,
       Leave, Finish, WriteLocked, env
  <2>3. pc'[0] = "locked" => pc[0] = "locked"
    <3>1. pc'[t] # "locked"
      BY <2>1 DEF ThreadStart, WriteUnlocked, Work, EnterBarrier, BarrEntry,
         Note, Compare, Leave, Finish, LockEntry, WriteLocked, Goto, TypeOK, IInv
    <3>2. \A u \in Threads \ {t} : pc'[u] = pc[u]
      BY <2>1 DEF ThreadStart, WriteUnlocked, Work, EnterBarrier,
         Note, Compare, Leave, Finish, WriteLocked, Goto, TypeOK, IInv
    <3>3. QED
      BY <1>0, <3>1, <3>2
  <2>4. QED
    BY <2>2, <2>3 DEF DoneInv, Posted, Threads
<1>8. QED
  BY <1>1, <1>2, <1>3, <1>4, <1>5, <1>6, <1>7
  DEF Next, Progress, Program, Advance, Terminated

\* A step that changes neither the calls nor where a thread stands in them.
LEMMA Stutters ==
  ASSUME UNCHANGED <<nthreads, ncalls, JobOf>>,
         \A u \in Threads : DoingOf(u)' = DoingOf(u)
  PROVE  UNCHANGED FJ!vars
BY DEF FJ!vars, Threads

\* The initial states map to initial states.
LEMMA InitRefines == Init => FJ!Init
<1> SUFFICES ASSUME Init PROVE FJ!Init
  OBVIOUS
<1>1. 0 \in Threads /\ nthreads \in Nat \ {0}
  BY DEF Init, Threads
<1>2. ~ InCall
  BY <1>1 DEF Init, InCall
<1>3. QED
  BY <1>1, <1>2 DEF Init, FJ!Init, FJ!Idle, JobOf, DoingOf, Threads, FJ!Threads

\* Between calls no thread is in one.
LEMMA OutOfCall ==
  ASSUME NEW t \in Threads, ~ InCall
  PROVE  DoingOf(t) = FJ!Idle /\ JobOf = FJ!Idle
BY DEF DoingOf, JobOf, FJ!Idle

\* What IInv says of the threads as a whole.
LEMMA Basics == IInv => TypeOK /\ PhaseInv /\ 0 \in Threads
<1>1. IInv => TypeOK /\ PhaseInv
  BY DEF IInv
<1>2. TypeOK => 0 \in Threads
  BY DEF TypeOK, Threads
<1> QED BY <1>1, <1>2

\* Where a thread in a call is.
LEMMA InCallOf ==
  ASSUME IInv, NEW t \in Threads, Posted,
         pc[t] \in Inside \cup {"fetch", "unlocked", "lwait", "lock"}
  PROVE  InCall /\ pc[0] # "locked"
<1>1. 0 \in Threads /\ TypeOK /\ PhaseInv
  BY Basics
<1>2. pc[0] \notin {"start", "seq", "unlock", "locked", "exit"}
  BY <1>1, Together DEF Inside
<1>3. QED
  BY <1>2 DEF InCall, Posted

\* A jump moves one thread.
LEMMA GotoMoves ==
  ASSUME TypeOK, NEW t \in Threads, NEW l, Goto(t, l)
  PROVE  pc'[t] = l /\ \A u \in Threads \ {t} : pc'[u] = pc[u]
BY DEF Goto, TypeOK

\* A call of the pool.
LEMMA CallRefines ==
  ASSUME IInv, NEW f \in AllFuncs, CallPool(f) \/ CallDirect(f)
  PROVE  FJ!Next
<1>0. 0 \in Threads /\ TypeOK /\ PhaseInv /\ pc[0] = "seq" /\ nthreads' = nthreads
  <2>1. 0 \in Threads /\ TypeOK /\ PhaseInv
    BY Basics
  <2>2. pc[0] = "seq" /\ nthreads' = nthreads
    BY DEF CallPool, CallDirect, env
  <2>3. QED
    BY <2>1, <2>2
<1>1. ~ InCall
  BY <1>0 DEF InCall
<1>2. \A t \in Threads : DoingOf(t) = FJ!Idle /\ JobOf = FJ!Idle
  BY <1>1, OutOfCall
<1>3. CASE CallPool(f)
  <2>1. pc'[0] = "unlock" /\ threaded_function_ptr' = f /\ ncalls' = ncalls + 1
        /\ f # NULL
    BY <1>0, <1>3 DEF CallPool, Goto, TypeOK, AllFuncs
  <2>2. InCall' /\ JobOf' = FJ!Call(f, ncalls + 1)
    BY <2>1 DEF InCall, JobOf, FJ!Call
  <2>3. ASSUME NEW t \in Threads PROVE DoingOf(t)' = FJ!Idle
    <3>1. pc[t] \in {"start", "seq", "unlock", "locked", "exit"}
      BY <1>0, Together
    <3>2. pc'[t] \in {"start", "seq", "unlock", "locked", "exit"}
      BY <1>0, <1>3, <3>1 DEF CallPool, Goto, TypeOK
    <3>3. QED
      BY <2>1, <3>2 DEF DoingOf, Inside, FJ!Idle
  <2>4. FJ!Fork(f)
    BY <1>0, <1>2, <2>1, <2>2, <2>3 DEF FJ!Fork, Threads
  <2>5. QED
    BY <2>4 DEF FJ!Next
<1>4. CASE CallDirect(f)
  <2>1. thread_pool_locked
    BY <1>0 DEF IInv, FlagInv, FlagAt
  <2>2. nthreads = 1
    BY <1>4, <2>1 DEF CallDirect, IInv, TypeOK
  <2>3. ncalls' = ncalls + 1 /\ UNCHANGED <<pc, mine, threaded_function_ptr>>
    BY <1>4 DEF CallDirect
  <2>4. ~ InCall'
    BY <1>1, <2>3 DEF InCall
  <2>5. \A t \in Threads : DoingOf(t)' = FJ!Idle
    BY <2>4 DEF DoingOf, FJ!Idle
  <2>6. JobOf' = FJ!Idle
    BY <2>4 DEF JobOf, FJ!Idle
  <2>7. FJ!Serial(f)
    BY <1>0, <1>2, <2>2, <2>3, <2>5, <2>6 DEF FJ!Serial, Threads
  <2>8. QED
    BY <2>7 DEF FJ!Next
<1>5. QED
  BY <1>3, <1>4

\* Reading an order begins the call.
LEMMA FetchRefines ==
  ASSUME IInv, NEW t \in Threads, Fetch(t)
  PROVE  FJ!Next \/ UNCHANGED FJ!vars
<1>0. /\ TypeOK /\ pc[t] = "fetch" /\ nthreads' = nthreads /\ ncalls' = ncalls
      /\ threaded_function_ptr' = threaded_function_ptr /\ 0 \in Threads
      /\ \A u \in Threads \ {t} : pc'[u] = pc[u]
  <2>1. TypeOK /\ 0 \in Threads
    BY Basics
  <2>2. /\ pc[t] = "fetch" /\ nthreads' = nthreads /\ ncalls' = ncalls
        /\ threaded_function_ptr' = threaded_function_ptr
        /\ Goto(t, "body") \/ Goto(t, LockEntry(t))
    BY DEF Fetch, env
  <2>3. QED
    BY <2>1, <2>2, GotoMoves
<1>1. CASE threaded_function_ptr = NULL
  <2>1. ~ InCall /\ ~ InCall'
    BY <1>0, <1>1 DEF InCall
  <2>2. JobOf' = JobOf /\ \A u \in Threads : DoingOf(u)' = DoingOf(u)
    BY <2>1 DEF JobOf, DoingOf
  <2>3. QED
    BY <1>0, <2>2, Stutters
<1>2. CASE threaded_function_ptr # NULL
  <2>1. InCall /\ pc[0] # "locked"
    BY <1>0, <1>2, InCallOf DEF Posted
  <2>2. pc'[t] = "body" /\ \A u \in Threads \ {t} : mine'[u] = mine[u]
    BY <1>0, <1>2 DEF Fetch, Goto, TypeOK
  <2>3. mine'[t] = [f |-> threaded_function_ptr, n |-> ncalls]
    BY <1>0, <1>2, <2>1 DEF Fetch, TypeOK, IInv, OrderInv, Posted, InCall
  <2>4. InCall' /\ pc'[0] # "locked" /\ JobOf' = JobOf
    BY <1>0, <1>2, <2>1, <2>2 DEF InCall, JobOf
  <2>5. JobOf = FJ!Call(threaded_function_ptr, ncalls) /\ JobOf # FJ!Idle
    BY <2>1 DEF JobOf, FJ!Call, FJ!Idle
  <2>6. DoingOf(t) = FJ!Idle
    BY <1>0, <2>1 DEF DoingOf, FJ!Idle, Inside
  <2>7. DoingOf(t)' = FJ!Call(threaded_function_ptr, ncalls)
    BY <2>2, <2>3, <2>4 DEF DoingOf, FJ!Call, Inside
  <2>8. \A u \in Threads \ {t} : DoingOf(u)' = DoingOf(u)
    BY <1>0, <2>1, <2>2, <2>4 DEF DoingOf
  <2>9. Doing' = [Doing EXCEPT ![t] = JobOf]
    BY <1>0, <2>5, <2>7, <2>8 DEF Doing, Threads
  <2>10. FJ!Begin(t)
    BY <1>0, <2>4, <2>5, <2>6, <2>9 DEF FJ!Begin, Doing
  <2>11. QED
    BY <2>10 DEF FJ!Next, FJ!Threads, Threads
<1>3. QED
  BY <1>1, <1>2

\* Returning from the function ends the call for the thread.
LEMMA FinishRefines ==
  ASSUME IInv, NEW t \in Threads, Finish(t)
  PROVE  FJ!Next
<1>0. /\ TypeOK /\ PhaseInv /\ pc[t] = "body" /\ pc'[t] \in {"lwait", "lock"}
      /\ 0 \in Threads
      /\ \A u \in Threads \ {t} : pc'[u] = pc[u]
      /\ UNCHANGED <<nthreads, ncalls, threaded_function_ptr, mine>>
  <2>1. TypeOK /\ PhaseInv /\ 0 \in Threads
    BY Basics
  <2>2. /\ pc[t] = "body" /\ Goto(t, LockEntry(t))
        /\ UNCHANGED <<nthreads, ncalls, threaded_function_ptr, mine>>
    BY DEF Finish, env
  <2>3. QED
    BY <2>1, <2>2, GotoMoves DEF LockEntry
<1>1. Working(t)
  BY <1>0, Together DEF Inside
<1>2. InCall /\ pc[0] # "locked"
  BY <1>0, <1>1, InCallOf DEF Working, Inside
<1>3. InCall' /\ pc'[0] # "locked" /\ JobOf' = JobOf
  BY <1>0, <1>2 DEF InCall, JobOf
<1>4. JobOf = FJ!Call(threaded_function_ptr, ncalls) /\ JobOf # FJ!Idle
      /\ JobOf.n = ncalls
  BY <1>2 DEF JobOf, FJ!Call, FJ!Idle
<1>5. DoingOf(t) = JobOf
  BY <1>0, <1>1, <1>2 DEF DoingOf, JobOf, Inside, Working
<1>6. DoingOf(t)' = FJ!Done(ncalls)
  BY <1>0, <1>1, <1>3 DEF DoingOf, FJ!Done, Inside, Working
<1>7. \A u \in Threads \ {t} : DoingOf(u)' = DoingOf(u)
  BY <1>0, <1>2, <1>3 DEF DoingOf
<1>8. Doing' = [Doing EXCEPT ![t] = FJ!Done(JobOf.n)]
  BY <1>0, <1>4, <1>6, <1>7 DEF Doing, Threads
<1>9. FJ!End(t)
  BY <1>0, <1>3, <1>4, <1>5, <1>8 DEF FJ!End, Doing
<1>10. QED
  BY <1>9 DEF FJ!Next, FJ!Threads, Threads

\* The master leaves a call when all threads are through; the others leave
\* it unnoticed.
LEMMA LeaveCallRefines ==
  ASSUME IInv, DoneInv, NEW t \in Threads, WriteLocked(t)
  PROVE  FJ!Next \/ UNCHANGED FJ!vars
<1>0. /\ TypeOK /\ PhaseInv /\ pc[t] = "locked" /\ 0 \in Threads
      /\ pc'[t] \in {"exit", "seq", "unlock"}
      /\ t = 0 => pc'[t] \in {"exit", "seq"}
      /\ \A u \in Threads \ {t} : pc'[u] = pc[u]
      /\ UNCHANGED <<nthreads, ncalls, threaded_function_ptr, mine>>
  <2>1. TypeOK /\ PhaseInv /\ 0 \in Threads
    BY Basics
  <2>2. /\ pc[t] = "locked"
        /\ Goto(t, IF ~ staying[t] THEN "exit"
                   ELSE IF t = 0 THEN "seq" ELSE "unlock")
        /\ UNCHANGED <<nthreads, ncalls, threaded_function_ptr, mine>>
    BY DEF WriteLocked, env
  <2>3. QED
    BY <2>1, <2>2, GotoMoves
<1>1. CASE ~ InCall
  <2>1. ~ InCall'
    BY <1>0, <1>1 DEF InCall
  <2>2. JobOf' = JobOf /\ \A u \in Threads : DoingOf(u)' = DoingOf(u)
    BY <1>1, <2>1 DEF JobOf, DoingOf
  <2>3. QED
    BY <1>0, <2>2, Stutters
<1>2. CASE InCall /\ t # 0
  <2>1. InCall' /\ JobOf' = JobOf /\ pc'[0] = pc[0]
    BY <1>0, <1>2 DEF InCall, JobOf
  <2>2. \A u \in Threads : DoingOf(u)' = DoingOf(u)
    BY <1>0, <1>2, <2>1 DEF DoingOf, Inside
  <2>3. QED
    BY <1>0, <2>1, <2>2, Stutters
<1>3. CASE InCall /\ t = 0
  <2>1. ~ InCall' /\ JobOf' = FJ!Idle /\ \A u \in Threads : DoingOf(u)' = FJ!Idle
    BY <1>0, <1>3 DEF InCall, JobOf, DoingOf, FJ!Idle
  <2>2. JobOf # FJ!Idle /\ JobOf.n = ncalls
    BY <1>3 DEF JobOf, FJ!Idle
  <2>3. ASSUME NEW u \in Threads PROVE DoingOf(u) = FJ!Done(ncalls)
    <3>1. pc[u] \in {"start", "seq", "unlock", "locked", "exit"}
      BY <1>0, Together
    <3>2. mine[u].n = ncalls
      BY <1>0, <1>3 DEF DoneInv, InCall, Posted
    <3>3. QED
      BY <1>0, <1>3, <3>1, <3>2 DEF DoingOf, FJ!Done, Inside
  <2>4. FJ!Join
    BY <1>0, <2>1, <2>2, <2>3 DEF FJ!Join, Threads, FJ!Threads
  <2>5. QED
    BY <2>4 DEF FJ!Next
<1>4. QED
  BY <1>1, <1>2, <1>3

\* The barriers leave every thread where it is in the call.
LEMMA BarrierRefines == ASSUME IInv, Barrier PROVE UNCHANGED FJ!vars
<1>0. /\ TypeOK /\ PhaseInv /\ 0 \in Threads
      /\ \A u \in Threads : pc[u] \in Waiting /\ pc'[u] = Past(pc[u])
      /\ UNCHANGED <<nthreads, ncalls, threaded_function_ptr, mine>>
  BY DEF IInv, Barrier, env, TypeOK, Threads
<1>1. InCall' = InCall /\ JobOf' = JobOf
  <2>1. pc[0] \notin {"start", "seq", "exit"} /\ pc'[0] \notin {"start", "seq", "exit"}
    BY <1>0 DEF Waiting, Past
  <2>2. QED
    BY <1>0, <2>1 DEF InCall, JobOf
<1>2. ASSUME NEW u \in Threads PROVE DoingOf(u)' = DoingOf(u)
  <2>1. CASE ~ InCall
    BY <1>1, <2>1 DEF DoingOf
  <2>2. CASE InCall /\ pc[u] = "lock"
    <3>1. pc'[u] = "locked" /\ pc[0] # "locked"
      BY <1>0, <2>2 DEF Past, Waiting
    <3>2. pc[0] = "lock"
      <4>1. PICK ph \in Phases, k \in Nat : \A v \in Threads : In(ph, k, v)
        BY <1>0 DEF PhaseInv
      <4>2. In(ph, k, 0) /\ In(ph, k, u) /\ pc[0] \in Waiting /\ Posted
        BY <1>0, <2>2, <4>1 DEF InCall, Posted
      <4>3. Length \in Nat
        BY <1>0, <4>2, LengthType
      <4>4. QED
        BY <2>2, <4>2, <4>3 DEF In, Out, Ready, Late, Checking, Waiting, Delayed
    <3>3. pc'[0] = "locked"
      BY <1>0, <3>2 DEF Past
    <3>4. QED
      BY <1>0, <1>1, <2>2, <3>1, <3>3 DEF DoingOf, Inside
  <2>3. CASE InCall /\ pc[u] # "lock"
    <3>1. pc[0] # "locked"
      BY <1>0 DEF Waiting
    <3>2. pc'[0] # "locked"
      <4>1. SUFFICES ASSUME pc[0] = "lock" PROVE FALSE
        BY <1>0 DEF Past, Waiting
      <4>2. PICK ph \in Phases, k \in Nat : \A v \in Threads : In(ph, k, v)
        BY <1>0 DEF PhaseInv
      <4>3. In(ph, k, 0) /\ In(ph, k, u) /\ pc[u] \in Waiting /\ Posted
        BY <1>0, <2>3, <4>2 DEF InCall, Posted
      <4>4. Length \in Nat
        BY <1>0, <4>3, LengthType
      <4>5. QED
        BY <2>3, <4>1, <4>3, <4>4 DEF In, Out, Ready, Late, Checking, Waiting, Delayed
    <3>3. pc[u] \in Inside => pc'[u] \in Inside
      BY <1>0, <2>3 DEF Past, Inside, Waiting
    <3>4. pc[u] = "lwait" => pc'[u] = "lock"
      BY <1>0 DEF Past
    <3>5. pc[u] = "unlock" => pc'[u] = "unlocked"
      BY <1>0 DEF Past
    <3>6. pc[u] \in Inside \cup {"lwait", "unlock"}
      BY <1>0, <2>3 DEF Inside, Waiting
    <3>7. QED
      BY <1>0, <1>1, <2>3, <3>1, <3>2, <3>3, <3>4, <3>5, <3>6
      DEF DoingOf, Inside
  <2>4. QED
    BY <2>1, <2>2, <2>3
<1>3. QED
  BY <1>0, <1>1, <1>2, Stutters

\* A thread that stays in the same stage of a call changes nothing.
LEMMA SameStage ==
  ASSUME IInv, NEW t \in Threads,
         UNCHANGED <<nthreads, ncalls, threaded_function_ptr, mine>>,
         \A u \in Threads \ {t} : pc'[u] = pc[u],
         \/ pc[t] \in Inside /\ pc'[t] \in Inside
         \/ pc[t] = "unlocked" /\ pc'[t] = "fetch"
         \/ t # 0 /\ pc[t] = "start" /\ pc'[t] = "unlock"
         \/ t = 0 /\ pc[t] \in {"start", "seq"} /\ pc'[t] \in {"seq", "unlock"}
            /\ ~ InCall'
  PROVE  UNCHANGED FJ!vars
<1>0. 0 \in Threads
  BY DEF IInv, TypeOK, Threads
<1>1. InCall' = InCall
  BY <1>0 DEF InCall, Inside
<1>2. JobOf' = JobOf
  BY <1>1 DEF JobOf
<1>3. InCall => (pc'[0] = "locked" <=> pc[0] = "locked")
  BY <1>0, <1>1 DEF Inside, InCall
<1>4. ASSUME NEW u \in Threads PROVE DoingOf(u)' = DoingOf(u)
  <2>1. InCall => (pc'[u] \in Inside <=> pc[u] \in Inside)
    BY <1>1 DEF Inside, InCall
  <2>2. InCall => (pc'[u] \in {"lwait", "lock"} <=> pc[u] \in {"lwait", "lock"})
    BY <1>1 DEF Inside, InCall
  <2>3. QED
    BY <1>1, <1>3, <2>1, <2>2 DEF DoingOf
<1>5. QED
  BY <1>2, <1>4, Stutters

\* Every step of the pool is a step of ForkJoin or leaves it alone.
LEMMA StepRefines == IInv /\ DoneInv /\ [Next]_vars => [FJ!Next]_(FJ!vars)
<1> SUFFICES ASSUME IInv, DoneInv, [Next]_vars
             PROVE  FJ!Next \/ UNCHANGED FJ!vars
  OBVIOUS
<1>0. TypeOK /\ 0 \in Threads
  BY DEF IInv, TypeOK, Threads
<1>1. CASE UNCHANGED vars
  <2>1. UNCHANGED <<nthreads, ncalls, JobOf>>
    BY <1>1 DEF vars, env, JobOf, InCall
  <2>2. \A u \in Threads : DoingOf(u)' = DoingOf(u)
    BY <1>1 DEF vars, env, DoingOf, InCall
  <2>3. QED
    BY <2>1, <2>2, Stutters
<1>2. CASE \E f \in AllFuncs : CallPool(f) \/ CallDirect(f)
  BY <1>2, CallRefines
<1>3. CASE Barrier
  BY <1>3, BarrierRefines
<1>4. CASE \E t \in Threads : Fetch(t)
  BY <1>4, FetchRefines
<1>5. CASE \E t \in Threads : Finish(t)
  BY <1>5, FinishRefines
<1>6. CASE \E t \in Threads : WriteLocked(t)
  BY <1>6, LeaveCallRefines
<1>7. CASE Stop
  <2>1. ~ InCall'
    BY <1>7 DEF Stop, InCall
  <2>2. pc[0] = "seq" /\ pc'[0] = "unlock" /\ \A u \in Threads \ {0} : pc'[u] = pc[u]
    BY <1>0, <1>7 DEF Stop, Goto, TypeOK
  <2>3. InCall = FALSE
    BY <2>2 DEF InCall
  <2>4. JobOf' = JobOf /\ \A u \in Threads : DoingOf(u)' = DoingOf(u)
    BY <2>1, <2>3 DEF JobOf, DoingOf
  <2>5. UNCHANGED <<nthreads, ncalls>>
    BY <1>7 DEF Stop, env
  <2>6. QED
    BY <2>4, <2>5, Stutters
<1>8. CASE \E t \in Threads : ThreadStart(t)
  <2>1. PICK t \in Threads : ThreadStart(t)
    BY <1>8
  <2>2. /\ pc[t] = "start" /\ pc'[t] = IF t = 0 THEN "seq" ELSE "unlock"
        /\ \A u \in Threads \ {t} : pc'[u] = pc[u]
        /\ UNCHANGED <<nthreads, ncalls, threaded_function_ptr, mine>>
    BY <1>0, <2>1 DEF ThreadStart, Goto, TypeOK, env
  <2>3. t = 0 => ~ InCall'
    BY <2>2 DEF InCall
  <2>4. QED
    BY <2>2, <2>3, SameStage
<1>9. CASE \E t \in Threads : \/ WriteUnlocked(t) \/ Work(t) \/ EnterBarrier(t)
                              \/ Note(t) \/ Compare(t) \/ Leave(t)
  <2>1. PICK t \in Threads : \/ WriteUnlocked(t) \/ Work(t) \/ EnterBarrier(t)
                             \/ Note(t) \/ Compare(t) \/ Leave(t)
    BY <1>9
  <2>2. UNCHANGED <<nthreads, ncalls, threaded_function_ptr, mine>>
    BY <2>1 DEF WriteUnlocked, Work, EnterBarrier, Note, Compare, Leave, env
  <2>3. \A u \in Threads \ {t} : pc'[u] = pc[u]
    BY <1>0, <2>1 DEF WriteUnlocked, Work, EnterBarrier, Note, Compare, Leave,
       Goto, TypeOK
  <2>4. \/ pc[t] \in Inside /\ pc'[t] \in Inside
        \/ pc[t] = "unlocked" /\ pc'[t] = "fetch"
    BY <1>0, <2>1 DEF WriteUnlocked, Work, EnterBarrier, BarrEntry, Note,
       Compare, Leave, Goto, TypeOK, Inside
  <2>5. QED
    BY <2>2, <2>3, <2>4, SameStage
<1>10. QED
  BY <1>1, <1>2, <1>3, <1>4, <1>5, <1>6, <1>7, <1>8, <1>9
  DEF Next, Progress, Program, Advance, Terminated

\* The thread pool implements fork and join: each call is executed once by
\* every thread, with its own arguments, before the caller goes on.
THEOREM Implements == Spec => ImplementsForkJoin
<1>1. Init => DoneInv
  BY ConstantsAssumption DEF Init, DoneInv, Posted
<1>2. IInv /\ DoneInv /\ [Next]_vars => DoneInv'
  BY DoneStep
<1>3. Init => FJ!Init
  BY InitRefines
<1>4. IInv /\ DoneInv /\ [Next]_vars => [FJ!Next]_(FJ!vars)
  BY StepRefines
<1>5. Spec => []IInv
  BY Invariant
<1>6. QED
  BY <1>1, <1>2, <1>3, <1>4, <1>5, PTL DEF Spec, ImplementsForkJoin, FJ!Spec
=============================================================================
