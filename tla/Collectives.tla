---------------------------- MODULE Collectives -----------------------------
(***************************************************************************)
(* Global reductions and broadcasts, over the threads of a rank and over   *)
(* the ranks: glb_reduce_double (and _single, _float_128, which do the     *)
(* same), glb_max_double and broadcast of                                  *)
(* src/src/routines/mpi_routines.{cpp,hpp}.                                *)
(*                                                                         *)
(* All threads of all ranks execute the same calls.  A section of the      *)
(* program is executed by all threads, or by the master thread alone with  *)
(* the thread pool locked.  THREAD_BARRIER is the atomic barrier it is     *)
(* shown to be in ThreadPool.  MPI_Allreduce waits for every rank,         *)
(* MPI_Bcast for the root only.                                            *)
(***************************************************************************)
EXTENDS Integers, Sequences, FiniteSetsExt, Functions

CONSTANTS
  Layouts,     \* the <<ranks, threads>> to start with
  MaxCalls,    \* bound: calls in the program
  Value(_,_,_) \* Value(r, t, i): what thread t of rank r brings to call i

Dead == -1

CollectivesAssumption ==
  /\ Layouts \subseteq (Nat \ {0}) \X (Nat \ {0})
  /\ MaxCalls \in Nat
  /\ \A l \in Layouts, i \in 1 .. MaxCalls :
       \A r \in 0 .. l[1] - 1, t \in 0 .. l[2] - 1 : Value(r, t, i) # Dead

VARIABLES
  nranks, nthreads,
  thread_pool_locked,      \* where the calls are made
  prog,                    \* the calls, as far as they have been made
  ip,                      \* ip[r][t]: the call thread t of rank r is in
  pc,
  buf,                     \* buf[r][t]: glb_double_reduction_buf
  in,                      \* in[r]: local variable of the master, to which
                           \* broadcast_ptr points; Dead when out of scope
  out,                     \* out[r][t]: what the last call returned
  posted                   \* posted[r]: what r has given to the collectives

env == <<nranks, nthreads, thread_pool_locked>>
vars == <<env, prog, ip, pc, buf, in, out, posted>>

Ranks == 0 .. nranks - 1
Threads == 0 .. nthreads - 1
Active == IF thread_pool_locked THEN {0} ELSE Threads

Ops == [kind : {"sum", "max"}, root : {0}] \cup [kind : {"bcast"}, root : Ranks]

Waiting == {"stored", "atom", "copied"}
PCs == Waiting \cup {"next", "store", "gather", "enter", "await", "copy",
                     "leave", "exit"}

\* thread_op and mpi_op: the values of x put together
Reduce(kind, x) == IF kind = "max" THEN Max(Range(x)) ELSE SumFunction(x)

\* What call i has to return to everybody: what all have brought, put together.
Brought(r, i) ==
  IF thread_pool_locked THEN Value(r, 0, i)
  ELSE Reduce(prog[i].kind, [t \in Threads |-> Value(r, t, i)])

Expected(i) ==
  IF prog[i].kind = "bcast" THEN Value(prog[i].root, 0, i)
  ELSE Reduce(prog[i].kind, [r \in Ranks |-> Brought(r, i)])

Init ==
  /\ \E l \in Layouts : nranks = l[1] /\ nthreads = l[2]
  /\ thread_pool_locked \in IF nthreads = 1 THEN {TRUE} ELSE BOOLEAN
  /\ prog = <<>>
  /\ ip = [r \in Ranks |-> [t \in Active |-> 0]]
  /\ pc = [r \in Ranks |-> [t \in Active |-> "next"]]
  /\ buf = [r \in Ranks |-> [t \in Threads |-> Dead]]
  /\ in = [r \in Ranks |-> Dead]
  /\ out = [r \in Ranks |-> [t \in Active |-> Dead]]
  /\ posted = [r \in Ranks |-> <<>>]

-----------------------------------------------------------------------------
op(r, t) == prog[ip[r][t]]
Goto(r, t, l) == pc' = [pc EXCEPT ![r][t] = l]

\* The first steps of the two branches of glb_reduce_double and of broadcast.
Entry(o, t) ==
  CASE o.kind # "bcast" -> IF thread_pool_locked THEN "enter" ELSE "store"
    [] o.kind = "bcast" -> IF t = 0 THEN "enter" ELSE "atom"

\* The next call; its master's local variable in comes to life.
Call(r, t) ==
  /\ pc[r][t] = "next"
  /\ ip[r][t] < MaxCalls
  /\ IF ip[r][t] < Len(prog) THEN prog' = prog
     ELSE \E o \in Ops : prog' = Append(prog, o)
  /\ ip' = [ip EXCEPT ![r][t] = @ + 1]
  /\ in' = [in EXCEPT ![r] = IF t = 0 THEN Value(r, 0, ip'[r][t]) ELSE @]
  /\ Goto(r, t, Entry(prog'[ip'[r][t]], t))
  /\ UNCHANGED <<env, buf, out, posted>>

Exit(r, t) ==
  /\ pc[r][t] = "next"
  /\ ip[r][t] = MaxCalls
  /\ Goto(r, t, "exit")
  /\ UNCHANGED <<env, prog, ip, buf, in, out, posted>>

\* What follows each THREAD_BARRIER; those of THREAD_ATOMIC_EXEC are around
\* the copy.
Past(l, t) ==
  CASE l = "stored" -> IF t = 0 THEN "gather" ELSE "atom"
    [] l = "atom"   -> "copy"
    [] l = "copied" -> "leave"

Barrier(r) ==
  /\ \A t \in Active : pc[r][t] \in Waiting
  /\ pc' = [pc EXCEPT ![r] = [t \in Active |-> Past(@[t], t)]]
  /\ UNCHANGED <<env, prog, ip, buf, in, out, posted>>

Store(r, t) ==
  /\ pc[r][t] = "store"
  /\ buf' = [buf EXCEPT ![r][t] = Value(r, t, ip[r][t])]
  /\ Goto(r, t, "stored")
  /\ UNCHANGED <<env, prog, ip, in, out, posted>>

\* The master puts the values of its rank together...
Gather(r, t) ==
  /\ pc[r][t] = "gather"
  /\ LET kind == op(r, t).kind
         x == [u \in Threads |-> IF u = 0 THEN in[r] ELSE buf[r][u]]
     IN in' = [in EXCEPT ![r] = Reduce(kind, x)]
  /\ Goto(r, t, "enter")
  /\ UNCHANGED <<env, prog, ip, buf, out, posted>>

\* Mutant: the root has its value already and does not send it.
EnterNoRoot(r, t) ==
  /\ pc[r][t] = "enter"
  /\ LET o == op(r, t)
         mpi == IF thread_pool_locked /\ o.kind = "max" THEN "sum" ELSE o.kind
     IN IF o.kind = "bcast" /\ r = o.root
          THEN posted' = posted /\ Goto(r, t, IF thread_pool_locked THEN "copy" ELSE "atom")
          ELSE posted' = [posted EXCEPT ![r] =
                            Append(@, [kind |-> mpi, root |-> o.root, x |-> in[r]])]
               /\ Goto(r, t, "await")
  /\ UNCHANGED <<env, prog, ip, buf, in, out>>

\* ... and calls MPI.  With the pool locked the operation is always MPI_SUM.
Enter(r, t) ==
  /\ pc[r][t] = "enter"
  /\ LET o == op(r, t)
         mpi == IF thread_pool_locked /\ o.kind = "max" THEN "sum" ELSE o.kind
     IN posted' = [posted EXCEPT ![r] =
                     Append(@, [kind |-> mpi, root |-> o.root, x |-> in[r]])]
  /\ Goto(r, t, "await")
  /\ UNCHANGED <<env, prog, ip, buf, in, out>>

\* MPI returns: the k-th collectives of all ranks are one.
Await(r, t) ==
  /\ pc[r][t] = "await"
  /\ LET k == Len(posted[r])
         c == posted[r][k]
         x == [s \in Ranks |-> posted[s][k].x]
     IN IF c.kind = "bcast"
          THEN /\ Len(posted[c.root]) >= k
               /\ in' = [in EXCEPT ![r] = x[c.root]]
               /\ Goto(r, t, IF thread_pool_locked THEN "copy" ELSE "atom")
               /\ UNCHANGED <<buf, out>>
          ELSE /\ \A s \in Ranks : Len(posted[s]) >= k
               /\ IF thread_pool_locked
                    THEN /\ out' = [out EXCEPT ![r][t] = Reduce(c.kind, x)]
                         /\ Goto(r, t, "leave")
                         /\ UNCHANGED buf
                    ELSE /\ buf' = [buf EXCEPT ![r][0] = Reduce(c.kind, x)]
                         /\ Goto(r, t, "atom")
                         /\ UNCHANGED out
               /\ UNCHANGED in
  /\ UNCHANGED <<env, prog, ip, posted>>

\* Mutant: THREAD_ATOMIC_EXEC without its second barrier.
AfterCopyNoBarrier == "leave"

\* The copy of THREAD_ATOMIC_EXEC is followed by a barrier, if there are threads.
AfterCopy == IF thread_pool_locked THEN "leave" ELSE "copied"

Copy(r, t) ==
  /\ pc[r][t] = "copy"
  /\ out' = [out EXCEPT ![r][t] =
               IF op(r, t).kind = "bcast" THEN in[r] ELSE buf[r][0]]
  /\ Goto(r, t, AfterCopy)
  /\ UNCHANGED <<env, prog, ip, buf, in, posted>>

\* The function returns, and its local variables are gone.
Leave(r, t) ==
  /\ pc[r][t] = "leave"
  /\ in' = [in EXCEPT ![r] = IF t = 0 THEN Dead ELSE @]
  /\ Goto(r, t, "next")
  /\ UNCHANGED <<env, prog, ip, buf, out, posted>>

-----------------------------------------------------------------------------
Advance(r, t) ==
  \/ Call(r, t) \/ Exit(r, t) \/ Store(r, t) \/ Gather(r, t) \/ Enter(r, t)
  \/ Await(r, t) \/ Copy(r, t) \/ Leave(r, t)

Progress == \E r \in Ranks : Barrier(r) \/ \E t \in Active : Advance(r, t)

Over == \A r \in Ranks, t \in Active : pc[r][t] = "exit"

Next == Progress \/ (Over /\ UNCHANGED vars)

Spec == Init /\ [][Next]_vars

\* Whenever some thread can move, one does.
FairSpec == Spec /\ WF_vars(Progress)

-----------------------------------------------------------------------------
\* The type invariant: every variable has its type, values being anything; no
\* rank has posted more collectives to MPI than there are calls.
TypeOK ==
  /\ <<nranks, nthreads>> \in Layouts
  /\ prog \in Seq(Ops) /\ Len(prog) <= MaxCalls
  /\ ip \in [Ranks -> [Active -> 0 .. MaxCalls]]
  /\ pc \in [Ranks -> [Active -> PCs]]
  /\ {DOMAIN buf, DOMAIN in, DOMAIN out, DOMAIN posted} = {Ranks}
  /\ \A r \in Ranks : DOMAIN buf[r] = Threads /\ DOMAIN out[r] = Active
  /\ \A r \in Ranks : Len(posted[r]) <= Len(prog)

\* Thread t of rank r has returned from call i.
Returned(r, t, i) == ip[r][t] = i /\ pc[r][t] \in {"leave", "next", "exit"}

\* Every thread of every rank gets what all of them have brought to that very
\* call, each once, however far the others are already; a maximum taken with
\* the pool locked is the exception MaximaRight is about.
ResultsRight ==
  \A i \in DOMAIN prog, r \in Ranks : \A t \in Active :
    Returned(r, t, i) /\ ~ (prog[i].kind = "max" /\ thread_pool_locked)
      => out[r][t] = Expected(i)

\* glb_max_double returns the maximum, wherever it is called from.
MaximaRight ==
  \A i \in DOMAIN prog, r \in Ranks : \A t \in Active :
    Returned(r, t, i) /\ prog[i].kind = "max" => out[r][t] = Expected(i)

\* broadcast_ptr is never followed when the variable it points to is gone.
NoDanglingRead ==
  \A r \in Ranks : \A t \in Active :
    pc[r][t] = "copy" /\ op(r, t).kind = "bcast" => in[r] # Dead

\* No thread and no rank waits for the others forever.
ProgramEnds == <>Over

=============================================================================
