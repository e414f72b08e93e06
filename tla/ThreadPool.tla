----------------------------- MODULE ThreadPool -----------------------------
(***************************************************************************)
(* The thread pool of src/src/threads/openmp_threads.{hpp,cpp}: thread 0   *)
(* runs the program, the others wait in thread_pool() for functions to     *)
(* execute.  All of them meet at internal barriers only; everything else   *)
(* is plain reads and writes of shared variables, which this module        *)
(* interleaves one at a time:                                              *)
(*                                                                         *)
(*   thread_pool_locked        tells a macro whether it runs in a function *)
(*                             executed by all threads;                    *)
(*   threaded_function_ptr     what to execute, NULL to leave the pool;    *)
(*   EXT_ARG of a function     where its arguments are exported;           *)
(*   delayed_thread_barrier,   the barrier checks and the scrambling of    *)
(*   glb_barr_line             the schedule under THREAD_DEBUG;            *)
(*   broadcast_ptr             the counter of thread_sanity_check.         *)
(*                                                                         *)
(* A thread waiting at an internal barrier has a pc of Waiting; the        *)
(* barrier opens for all threads at once (omp barrier).                    *)
(***************************************************************************)
EXTENDS Integers, FiniteSets

CONSTANTS
  ThreadCounts, \* the values omp_get_num_threads() may return
  DebugLevels,  \* the values of THREAD_DEBUG the code is built with (0: unset)
  Funcs,        \* threadable functions other than thread_sanity_check
  Divergent,    \* those of Funcs in which thread 0 reaches other barriers
                \* than the rest: the mistake check_barrier looks for
  Sanity,       \* the function thread_sanity_check
  NULL,         \* the null pointer
  NBars,        \* NBars[f]: THREAD_BARRIERs in the body of f
  MaxCalls      \* bound: calls main_function makes

ASSUME ConstantsAssumption ==
  /\ ThreadCounts \subseteq Nat \ {0}
  /\ DebugLevels \subseteq 0 .. 2
  /\ Divergent \subseteq Funcs
  /\ Sanity \notin Funcs
  /\ NULL \notin Funcs \cup {Sanity}
  /\ NBars \in [Funcs -> Nat]
  /\ MaxCalls \in Nat

VARIABLES
  nthreads, debug, onRank0,  \* how the program was built and started
  pc,                        \* where each thread is
  step,                      \* THREAD_BARRIERs thread t has left in its body
  mine,                      \* the function and the argument t executes
  staying,                   \* stay_working of a slave; FALSE for the master
                             \* once it is in thread_pool_stop
  thread_pool_locked,
  threaded_function_ptr,
  extArg,                    \* extArg[f]: EXT_ARG of f (the call's number)
  delayed_thread_barrier,
  glb_barr_line,
  broadcast_ptr,
  ncalls,                    \* calls made so far, and the argument of the last
  crashed                    \* the program was aborted by crash()

env == <<nthreads, debug, onRank0>>
vars == <<env, pc, step, mine, staying, thread_pool_locked,
          threaded_function_ptr, extArg, delayed_thread_barrier,
          glb_barr_line, broadcast_ptr, ncalls, crashed>>

AllFuncs == Funcs \cup {Sanity}
Threads == 0 .. nthreads - 1

\* Program counters at which a thread stands at an internal barrier.
Waiting == {"unlock", "wait", "true", "check", "delay", "lwait", "lock"}
\* Those of a thread executing the body of a function.
Inside == {"body", "barr", "wait", "true", "note", "check", "compare",
           "leave", "delay"}
PCs == Waiting \cup Inside
        \cup {"start", "seq", "unlocked", "fetch", "locked", "exit"}

\* NACTIVE_THREADS: what the parallel loops split the work into.
NActive == IF thread_pool_locked THEN 1 ELSE nthreads

\* THREAD_BARRIERs thread t goes through in the function it executes.
Barriers(t) == IF mine[t].f = Sanity THEN NActive + 1 ELSE NBars[mine[t].f]

\* The file and line of the barrier t is at.
BarrLine(t) ==
  [f |-> mine[t].f, step |-> step[t],
   branch |-> IF mine[t].f \in Divergent /\ t # 0 THEN "slave" ELSE "all"]

NoLine == [f |-> NULL, step |-> 0, branch |-> "all"]

Init ==
  /\ nthreads \in ThreadCounts
  /\ debug \in DebugLevels
  /\ onRank0 \in BOOLEAN
  /\ pc = [t \in Threads |-> "start"]
  /\ step = [t \in Threads |-> 0]
  /\ mine = [t \in Threads |-> [f |-> NULL, n |-> 0]]
  /\ staying = [t \in Threads |-> TRUE]
  /\ thread_pool_locked = FALSE
  /\ threaded_function_ptr = NULL
  /\ extArg = [f \in AllFuncs |-> 0]
  /\ delayed_thread_barrier = [t \in Threads |-> 0]
  /\ glb_barr_line = NoLine
  /\ broadcast_ptr = 0
  /\ ncalls = 0
  /\ crashed = FALSE

-----------------------------------------------------------------------------
Goto(t, l) == pc' = [pc EXCEPT ![t] = l]

\* crash() aborts the program on rank 0 and returns on every other rank.
Crash == crashed' = onRank0

\* A thread enters the parallel region: the master starts the program, the
\* others go to the pool.
ThreadStart(t) ==
  /\ pc[t] = "start"
  /\ thread_pool_locked' = TRUE
  /\ Goto(t, IF t = 0 THEN "seq" ELSE "unlock")
  /\ UNCHANGED <<env, step, mine, staying, threaded_function_ptr, extArg,
                 delayed_thread_barrier, glb_barr_line, broadcast_ptr,
                 ncalls, crashed>>

\* Mutant: the argument is not exported.
CallPoolNoExport(f) ==
  /\ pc[0] = "seq"
  /\ nthreads > 1 /\ thread_pool_locked
  /\ ncalls < MaxCalls
  /\ f = Sanity <=> ncalls = 0
  /\ threaded_function_ptr' = f
  /\ ncalls' = ncalls + 1
  /\ Goto(0, "unlock")
  /\ UNCHANGED <<env, step, mine, staying, thread_pool_locked, extArg,
                 delayed_thread_barrier, glb_barr_line, broadcast_ptr, crashed>>

\* The TRIGGER of a threadable function sends the call to the pool...
CallPool(f) ==
  /\ pc[0] = "seq"
  /\ nthreads > 1 /\ thread_pool_locked
  /\ ncalls < MaxCalls
  /\ f = Sanity <=> ncalls = 0
  /\ extArg' = [extArg EXCEPT ![f] = ncalls + 1]
  /\ threaded_function_ptr' = f
  /\ ncalls' = ncalls + 1
  /\ Goto(0, "unlock")
  /\ UNCHANGED <<env, step, mine, staying, thread_pool_locked,
                 delayed_thread_barrier, glb_barr_line, broadcast_ptr, crashed>>

\* ... or, with one thread, executes it at once: the barriers do nothing.
\* (It is also what a caller that sees the pool unlocked would do; that no
\* caller does is part of LockFlagTrue.)
CallDirect(f) ==
  /\ pc[0] = "seq"
  /\ ~ (nthreads > 1 /\ thread_pool_locked)
  /\ ncalls < MaxCalls
  /\ f = Sanity <=> ncalls = 0
  /\ broadcast_ptr' = IF f = Sanity THEN 0 ELSE broadcast_ptr
  /\ ncalls' = ncalls + 1
  /\ UNCHANGED <<env, pc, step, mine, staying, thread_pool_locked,
                 threaded_function_ptr, extArg, delayed_thread_barrier,
                 glb_barr_line, crashed>>

\* main_function has returned: thread_pool_stop gives a NULL order.
Stop ==
  /\ pc[0] = "seq"
  /\ ncalls > 0
  /\ threaded_function_ptr' = NULL
  /\ staying' = [staying EXCEPT ![0] = FALSE]
  /\ Goto(0, "unlock")
  /\ UNCHANGED <<env, step, mine, thread_pool_locked, extArg,
                 delayed_thread_barrier, glb_barr_line, broadcast_ptr,
                 ncalls, crashed>>

-----------------------------------------------------------------------------
\* What follows each internal barrier.
Past(l) ==
  CASE l = "unlock" -> "unlocked"
    [] l = "wait"   -> "true"
    [] l = "true"   -> IF debug >= 1 THEN "note" ELSE "leave"
    [] l = "check"  -> "compare"
    [] l = "delay"  -> "body"
    [] l = "lwait"  -> "lock"
    [] l = "lock"   -> "locked"

\* thread_barrier_internal: it opens when every thread has come.
Barrier ==
  /\ \A t \in Threads : pc[t] \in Waiting
  /\ pc' = [t \in Threads |-> Past(pc[t])]
  /\ UNCHANGED <<env, step, mine, staying, thread_pool_locked,
                 threaded_function_ptr, extArg, delayed_thread_barrier,
                 glb_barr_line, broadcast_ptr, ncalls, crashed>>

\* End of thread_pool_unlock.
WriteUnlocked(t) ==
  /\ pc[t] = "unlocked"
  /\ thread_pool_locked' = FALSE
  /\ Goto(t, "fetch")
  /\ UNCHANGED <<env, step, mine, staying, threaded_function_ptr, extArg,
                 delayed_thread_barrier, glb_barr_line, broadcast_ptr,
                 ncalls, crashed>>

\* Mutant: thread_pool_lock does not wait for the others.
LockEntryNoBarrier(t) == "locked"

\* thread_pool_lock up to its last barrier: a thread that is not delayed
\* lets the delayed ones come.
LockEntry(t) ==
  IF debug >= 2 /\ delayed_thread_barrier[t] = 0 THEN "lwait" ELSE "lock"

\* Mutant: a NULL order is not remembered.
FetchStays(t) ==
  /\ pc[t] = "fetch"
  /\ IF threaded_function_ptr # NULL
       THEN /\ mine' = [mine EXCEPT ![t] =
                          [f |-> threaded_function_ptr,
                           n |-> extArg[threaded_function_ptr]]]
            /\ step' = [step EXCEPT ![t] = 0]
            /\ Goto(t, "body")
       ELSE Goto(t, LockEntry(t)) /\ UNCHANGED <<mine, step>>
  /\ UNCHANGED <<env, staying, delayed_thread_barrier, thread_pool_locked,
                 threaded_function_ptr, extArg, glb_barr_line, broadcast_ptr,
                 ncalls, crashed>>

\* A thread looks at the order: to be executed with the exported argument,
\* or to leave the pool.
Fetch(t) ==
  /\ pc[t] = "fetch"
  /\ IF threaded_function_ptr # NULL
       THEN /\ mine' = [mine EXCEPT ![t] =
                          [f |-> threaded_function_ptr,
                           n |-> extArg[threaded_function_ptr]]]
            /\ step' = [step EXCEPT ![t] = 0]
            /\ Goto(t, "body")
            /\ UNCHANGED <<staying, delayed_thread_barrier>>
       ELSE /\ staying' = [staying EXCEPT ![t] = FALSE]
            /\ Goto(t, LockEntry(t))
            /\ delayed_thread_barrier' = [delayed_thread_barrier EXCEPT ![t] = 0]
            /\ UNCHANGED <<mine, step>>
  /\ UNCHANGED <<env, thread_pool_locked, threaded_function_ptr, extArg,
                 glb_barr_line, broadcast_ptr, ncalls, crashed>>

-----------------------------------------------------------------------------
\* thread_sanity_check between two of its barriers: thread t in its turn
\* finds the previous one in the counter, thread 0 the last one at the end.
SanityWork(t) ==
  LET turn == step[t] < NActive
      bad  == \/ turn /\ t = step[t] /\ t # 0 /\ broadcast_ptr # t - 1
              \/ ~ turn /\ t = 0 /\ broadcast_ptr # nthreads - 1
  IN /\ broadcast_ptr' = IF turn /\ t = step[t] THEN t ELSE broadcast_ptr
     /\ IF bad THEN Crash ELSE UNCHANGED crashed

\* The body of a function up to its next THREAD_BARRIER.
Work(t) ==
  /\ pc[t] = "body"
  /\ step[t] < Barriers(t)
  /\ IF mine[t].f = Sanity THEN SanityWork(t)
                           ELSE UNCHANGED <<broadcast_ptr, crashed>>
  /\ Goto(t, "barr")
  /\ UNCHANGED <<env, step, mine, staying, thread_pool_locked,
                 threaded_function_ptr, extArg, delayed_thread_barrier,
                 glb_barr_line, ncalls>>

\* Mutant: the delayed threads are not waited for.
BarrEntryNoWait(t) == IF thread_pool_locked THEN "leave" ELSE "true"

\* Mutant: check_barrier without the barrier before it.
BarrEntryCheckOnly(t) ==
  IF thread_pool_locked THEN "leave" ELSE IF debug = 0 THEN "true" ELSE "note"

\* THREAD_BARRIER(): nothing if the pool is locked.  A thread that is not
\* delayed starts by waiting for those that are.
BarrEntry(t) ==
  IF thread_pool_locked THEN "leave"
  ELSE IF debug >= 2 /\ delayed_thread_barrier[t] = 0 THEN "wait" ELSE "true"

EnterBarrier(t) ==
  /\ pc[t] = "barr"
  /\ Goto(t, BarrEntry(t))
  /\ UNCHANGED <<env, step, mine, staying, thread_pool_locked,
                 threaded_function_ptr, extArg, delayed_thread_barrier,
                 glb_barr_line, broadcast_ptr, ncalls, crashed>>

\* Mutant: every thread tells where it is.
NoteByAll(t) ==
  /\ pc[t] = "note"
  /\ glb_barr_line' = BarrLine(t)
  /\ Goto(t, "check")
  /\ UNCHANGED <<env, step, mine, staying, thread_pool_locked,
                 threaded_function_ptr, extArg, delayed_thread_barrier,
                 broadcast_ptr, ncalls, crashed>>

\* check_barrier: the master tells where it is...
Note(t) ==
  /\ pc[t] = "note"
  /\ glb_barr_line' = IF t = 0 THEN BarrLine(t) ELSE glb_barr_line
  /\ Goto(t, "check")
  /\ UNCHANGED <<env, step, mine, staying, thread_pool_locked,
                 threaded_function_ptr, extArg, delayed_thread_barrier,
                 broadcast_ptr, ncalls, crashed>>

\* ... and the others check that they are in the same place.
Compare(t) ==
  /\ pc[t] = "compare"
  /\ IF t # 0 /\ glb_barr_line # BarrLine(t) THEN Crash ELSE UNCHANGED crashed
  /\ Goto(t, "leave")
  /\ UNCHANGED <<env, step, mine, staying, thread_pool_locked,
                 threaded_function_ptr, extArg, delayed_thread_barrier,
                 glb_barr_line, broadcast_ptr, ncalls>>

\* select_new_delay_pattern: the random number is truncated to 0 or 1.
Delays == {0, 1}

\* The end of THREAD_BARRIER: a new delay is drawn and a delayed thread stops
\* until the others call their next barrier.
Leave(t) ==
  /\ pc[t] = "leave"
  /\ step' = [step EXCEPT ![t] = @ + 1]
  /\ \E d \in IF debug >= 2 /\ ~ thread_pool_locked
              THEN Delays ELSE {delayed_thread_barrier[t]} :
       /\ delayed_thread_barrier' = [delayed_thread_barrier EXCEPT ![t] = d]
       /\ Goto(t, IF debug >= 2 /\ ~ thread_pool_locked /\ d = 1
                  THEN "delay" ELSE "body")
  /\ UNCHANGED <<env, mine, staying, thread_pool_locked,
                 threaded_function_ptr, extArg, glb_barr_line, broadcast_ptr,
                 ncalls, crashed>>

\* The function returns; the thread calls thread_pool_lock.
Finish(t) ==
  /\ pc[t] = "body"
  /\ step[t] >= Barriers(t)
  /\ Goto(t, LockEntry(t))
  /\ delayed_thread_barrier' = [delayed_thread_barrier EXCEPT ![t] = 0]
  /\ UNCHANGED <<env, step, mine, staying, thread_pool_locked,
                 threaded_function_ptr, extArg, glb_barr_line, broadcast_ptr,
                 ncalls, crashed>>

\* End of thread_pool_lock: back to the program, to the pool, or out.
WriteLocked(t) ==
  /\ pc[t] = "locked"
  /\ thread_pool_locked' = TRUE
  /\ Goto(t, IF ~ staying[t] THEN "exit" ELSE IF t = 0 THEN "seq" ELSE "unlock")
  /\ UNCHANGED <<env, step, mine, staying, threaded_function_ptr, extArg,
                 delayed_thread_barrier, glb_barr_line, broadcast_ptr,
                 ncalls, crashed>>

-----------------------------------------------------------------------------
Advance(t) ==
  \/ ThreadStart(t) \/ WriteUnlocked(t) \/ Fetch(t) \/ Work(t)
  \/ EnterBarrier(t) \/ Note(t) \/ Compare(t) \/ Leave(t) \/ Finish(t)
  \/ WriteLocked(t)

Program == Stop \/ \E f \in AllFuncs : CallPool(f) \/ CallDirect(f)

Over == crashed \/ \A t \in Threads : pc[t] = "exit"

\* A finished or aborted program stays so.
Terminated == Over /\ UNCHANGED vars

Progress == Program \/ Barrier \/ \E t \in Threads : Advance(t)

Next == (~ crashed /\ Progress) \/ Terminated

Spec == Init /\ [][Next]_vars

\* Whenever some thread can run, some thread does: the least the operating
\* system gives.  main_function itself comes to its end (MaxCalls).
FairSpec == Spec /\ WF_vars(~ crashed /\ Progress)

-----------------------------------------------------------------------------
\* Values stay in their domains; in particular the delay drawn at a barrier is
\* one of the two values the barriers distinguish.
TypeOK ==
  /\ nthreads \in ThreadCounts /\ debug \in DebugLevels /\ onRank0 \in BOOLEAN
  /\ pc \in [Threads -> PCs]
  /\ step \in [Threads -> Nat]
  /\ mine \in [Threads -> [f : AllFuncs \cup {NULL}, n : Nat]]
  /\ staying \in [Threads -> BOOLEAN]
  /\ thread_pool_locked \in BOOLEAN
  /\ threaded_function_ptr \in AllFuncs \cup {NULL}
  /\ extArg \in [AllFuncs -> Nat]
  /\ delayed_thread_barrier \in [Threads -> {0, 1}]
  /\ glb_barr_line \in [f : AllFuncs \cup {NULL}, step : Nat,
                        branch : {"all", "slave"}]
  /\ broadcast_ptr \in Nat
  /\ ncalls \in Nat
  /\ crashed \in BOOLEAN

\* A thread in the body of a function executes the function and the argument
\* of the last call the master made: no order or argument is overwritten
\* before every thread has read it, and none is read twice.
JobAgreement ==
  \A t \in Threads : pc[t] \in Inside =>
    /\ mine[t].f = threaded_function_ptr
    /\ mine[t].n = ncalls

\* Although every thread writes thread_pool_locked on its own time, the code
\* that tests it never sees a wrong value: a function executed by the pool
\* finds it unlocked (its loops are split among all threads, its barriers are
\* barriers), the sequential part of the program finds it locked.
LockFlagTrue ==
  /\ \A t \in Threads : pc[t] \in Inside => ~ thread_pool_locked
  /\ pc[0] = "seq" => thread_pool_locked

\* What the functions count on: while a thread works between two barriers of
\* a function, no other thread is still before the first or already after the
\* second, with or without the delays of THREAD_DEBUG.
BarriersSeparate ==
  \A t, u \in Threads : pc[t] = "body" /\ pc[u] \in Inside =>
    \/ step[u] = step[t]
    \/ step[u] + 1 = step[t] /\ pc[u] \in {"compare", "leave"}

\* check_barrier and thread_sanity_check raise no false alarm: a crash means
\* that the threads have really come to different barriers.
NoFalseAlarm ==
  crashed =>
    /\ onRank0 /\ debug >= 1
    /\ \E t \in Threads : pc[t] \in Inside /\ mine[t].f \in Divergent

\* With the checks on, no thread of rank 0 gets past a barrier where the
\* others are at another one.
DivergenceCaught ==
  debug >= 1 /\ onRank0 =>
    \A t \in Threads \ {0} :
      pc[t] \in Inside /\ mine[t].f \in Divergent => step[t] = 0

\* The threads never wait for one another forever: the program ends with all
\* of them out of the pool, or is aborted.
ProgramEnds == <>Over

-----------------------------------------------------------------------------
\* The pool implements fork and join.  A call is in progress from the moment
\* the order is written until the master is back in its program; a thread has
\* begun it when it has read the order, and is through when it comes to
\* thread_pool_lock.
InCall ==
  pc[0] \notin {"start", "seq", "exit"} /\ threaded_function_ptr # NULL

JobOf ==
  IF InCall THEN [what |-> "call", f |-> threaded_function_ptr, n |-> ncalls]
            ELSE [what |-> "idle"]

DoingOf(t) ==
  IF ~ InCall THEN [what |-> "idle"]
  ELSE IF pc[t] \in Inside
    THEN [what |-> "call", f |-> mine[t].f, n |-> mine[t].n]
  ELSE IF pc[t] \in {"lwait", "lock"} \/ pc[0] = "locked"
    THEN [what |-> "done", n |-> mine[t].n]
  ELSE [what |-> "idle"]

FJ == INSTANCE ForkJoin WITH
  Funcs <- AllFuncs, job <- JobOf, doing <- [t \in Threads |-> DoingOf(t)]

ImplementsForkJoin == FJ!Spec

=============================================================================
