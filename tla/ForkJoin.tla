------------------------------ MODULE ForkJoin ------------------------------
(***************************************************************************)
(* What the thread pool of src/src/threads promises to the code that calls *)
(* a threadable function: the call is executed once by every thread, every *)
(* thread executes the call that was made and not another one, and the     *)
(* caller goes on only when all of them are through.                       *)
(***************************************************************************)
EXTENDS Integers

CONSTANT
  Funcs      \* the threadable functions

VARIABLES
  nthreads,  \* number of threads, fixed
  ncalls,    \* how many calls have been made
  job,       \* the call in progress, or NoJob
  doing      \* doing[t]: the call thread t is executing or has executed

vars == <<nthreads, ncalls, job, doing>>

Threads == 0 .. nthreads - 1

Idle == [what |-> "idle"]
Call(f, n) == [what |-> "call", f |-> f, n |-> n]
Done(n) == [what |-> "done", n |-> n]

Init ==
  /\ nthreads \in Nat \ {0}
  /\ ncalls = 0
  /\ job = Idle
  /\ doing = [t \in Threads |-> Idle]

\* The caller makes call number ncalls + 1.
Fork(f) ==
  /\ job = Idle
  /\ ncalls' = ncalls + 1
  /\ job' = Call(f, ncalls + 1)
  /\ UNCHANGED <<nthreads, doing>>

\* Thread t starts the call in progress.
Begin(t) ==
  /\ job # Idle
  /\ doing[t] = Idle
  /\ doing' = [doing EXCEPT ![t] = job]
  /\ UNCHANGED <<nthreads, ncalls, job>>

\* Thread t is through with the call it executes.
End(t) ==
  /\ job # Idle
  /\ doing[t] = job
  /\ doing' = [doing EXCEPT ![t] = Done(job.n)]
  /\ UNCHANGED <<nthreads, ncalls, job>>

\* The caller goes on.
Join ==
  /\ job # Idle
  /\ \A t \in Threads : doing[t] = Done(job.n)
  /\ job' = Idle
  /\ doing' = [t \in Threads |-> Idle]
  /\ UNCHANGED <<nthreads, ncalls>>

\* With one thread a call is an ordinary function call.
Serial(f) ==
  /\ nthreads = 1
  /\ job = Idle
  /\ ncalls' = ncalls + 1
  /\ UNCHANGED <<nthreads, job, doing>>

Next ==
  \/ \E f \in Funcs : Fork(f) \/ Serial(f)
  \/ \E t \in Threads : Begin(t) \/ End(t)
  \/ Join

Spec == Init /\ [][Next]_vars

=============================================================================
