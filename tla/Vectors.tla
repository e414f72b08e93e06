------------------------------ MODULE Vectors ------------------------------
(***************************************************************************)
(* The manager of vectors, src/src/base/vectors.cpp.  A vector is a node   *)
(* of a doubly linked list that starts at main_vect, followed by its data. *)
(* All the threads of a team call the same operations on the same slots,   *)
(* which are local pointers of each thread:                                *)
(*                                                                         *)
(*   malloc, free   the master works on the list for all of them;          *)
(*   copy, reset    the whole vector, by all of them or by the master;     *)
(*   flag           set_vect_flag or unset_vect_flag;                      *)
(*   loop           a parallel loop over the vector, with no barrier;      *)
(*   begin, end     of a parallel section: outside it the team is the      *)
(*                  master, inside it the slots start as those of the      *)
(*                  master.                                                *)
(*                                                                         *)
(* THREAD_BARRIER lets the team go on when all of it is at some barrier,   *)
(* whichever.  Of the flags one is modelled.                               *)
(***************************************************************************)
EXTENDS Integers, Sequences, FiniteSets, SequencesExt

CONSTANTS
  Threads, Master,
  Slots,     \* the pointers of the program
  Addrs,     \* the addresses of vectors
  MainVect,  \* the address of main_vect
  Null,
  Sizes,     \* the sizes in use
  MaxOps     \* bound: operations of the program

ASSUME VectorsAssumption ==
  /\ Master \in Threads
  /\ MainVect \notin Addrs /\ Null \notin Addrs /\ MainVect # Null
  /\ Sizes \subseteq Nat
  /\ MaxOps \in Nat

\* Memory has an end.
ASSUME AddrsAssumption == IsFiniteSet(Addrs)

VARIABLES
  prog, nops,            \* the program, as far as it has been needed
  thread_pool_locked,
  ip, pc,                \* the operation each thread is at, and where in it
  var,                   \* var[t][s]: the slots of thread t
  live,                  \* the vectors malloc has given and free not got back
  prev, next, size,      \* of each vector
  last_vect, return_malloc_ptr,
  required_memory, max_required_memory,
  flag,                  \* of each vector
  owned                  \* the slots that hold a vector for the program

list == <<live, prev, next, size, last_vect, required_memory,
          max_required_memory>>
vars == <<prog, nops, thread_pool_locked, ip, pc, var, list,
          return_malloc_ptr, flag, owned>>

Ops == [kind : {"begin", "end"}]
        \cup [kind : {"malloc"}, s : Slots, nel : Sizes]
        \cup [kind : {"free", "reset", "loop"}, s : Slots]
        \cup [kind : {"copy"}, s : Slots, from : Slots]
        \cup [kind : {"flag"}, s : Slots, to : BOOLEAN]

NoOp == [kind |-> "none"]

Working == {"loop", "copying", "memset", "detach", "test", "setflag"}
Waiting == {"m1", "m2", "f1", "f2", "r1", "r2", "c1", "c2", "v1", "v2", "e1"}
PCs == Working \cup Waiting \cup {"pool", "next", "alloc", "take"}

Team == IF thread_pool_locked THEN {Master} ELSE Threads
op(t) == prog[ip[t]]

Init ==
  /\ prog = [i \in 1 .. MaxOps |-> NoOp] /\ nops = 0
  /\ thread_pool_locked = TRUE
  /\ ip = [t \in Threads |-> 1]
  /\ pc = [t \in Threads |-> IF t = Master THEN "next" ELSE "pool"]
  /\ var = [t \in Threads |-> [s \in Slots |-> Null]]
  /\ live = {}
  /\ prev = [a \in Addrs \cup {MainVect} |-> Null]
  /\ next = [a \in Addrs \cup {MainVect} |-> Null]
  /\ size = [a \in Addrs \cup {MainVect} |-> 0]
  /\ last_vect = MainVect
  /\ return_malloc_ptr = Null
  /\ required_memory = 0 /\ max_required_memory = 0
  /\ flag = [a \in Addrs |-> FALSE]
  /\ owned = {}

-----------------------------------------------------------------------------
\* What the program keeps to: it uses the vectors it has, copies between two
\* of a size, and does not ask for what memory cannot give.
Legal(o) ==
  /\ o.kind = "begin" <=> thread_pool_locked /\ o.kind \in {"begin", "end"}
  /\ o.kind = "malloc" => o.s \notin owned /\ Addrs \ live # {}
  /\ o.kind \in {"free", "reset", "loop", "flag", "copy"} => o.s \in owned
  /\ o.kind = "copy" => /\ o.from \in owned \ {o.s}
                        /\ size[var[Master][o.from]] = size[var[Master][o.s]]

\* The first thread to come there decides what the next operation is.
Choose ==
  /\ nops < MaxOps
  /\ \E t \in Team : pc[t] = "next" /\ ip[t] = nops + 1
  /\ \E o \in Ops : Legal(o) /\ prog' = [prog EXCEPT ![nops + 1] = o]
  /\ nops' = nops + 1
  /\ UNCHANGED <<thread_pool_locked, ip, pc, var, list, return_malloc_ptr,
                 flag, owned>>

\* Mutant: the master frees and clears without waiting for the others.
EntryAtOnce(t) ==
  CASE op(t).kind = "malloc" -> IF t = Master THEN "alloc" ELSE "m1"
    [] op(t).kind = "free" -> IF t = Master THEN "detach" ELSE "f2"
    [] op(t).kind = "reset" -> IF t = Master THEN "memset" ELSE "r2"
    [] op(t).kind = "copy" -> "c1"
    [] op(t).kind = "flag" -> "test"
    [] op(t).kind = "loop" -> "loop"
    [] op(t).kind = "end" -> "e1"

Entry(t) ==
  CASE op(t).kind = "malloc" -> IF t = Master THEN "alloc" ELSE "m1"
    [] op(t).kind = "free" -> "f1"
    [] op(t).kind = "reset" -> "r1"
    [] op(t).kind = "copy" -> "c1"
    [] op(t).kind = "flag" -> "test"
    [] op(t).kind = "loop" -> "loop"
    [] op(t).kind = "end" -> "e1"

Begin(t) ==
  /\ t \in Team
  /\ pc[t] = "next" /\ ip[t] <= nops
  /\ op(t).kind # "begin"
  /\ pc' = [pc EXCEPT ![t] = Entry(t)]
  /\ UNCHANGED <<prog, nops, thread_pool_locked, ip, var, list,
                 return_malloc_ptr, flag, owned>>

\* The master starts a parallel section, as shown in ThreadPool.
Fork ==
  /\ pc[Master] = "next" /\ ip[Master] <= nops
  /\ op(Master).kind = "begin"
  /\ thread_pool_locked' = FALSE
  /\ ip' = [t \in Threads |-> ip[Master] + 1]
  /\ pc' = [t \in Threads |-> "next"]
  /\ var' = [t \in Threads |-> var[Master]]
  /\ UNCHANGED <<prog, nops, list, return_malloc_ptr, flag, owned>>

\* Where a thread goes from a barrier.
After(t) ==
  CASE pc[t] = "m1" -> "take"
    [] pc[t] = "f1" -> IF t = Master THEN "detach" ELSE "f2"
    [] pc[t] = "r1" -> IF t = Master THEN "memset" ELSE "r2"
    [] pc[t] = "c1" -> "copying"
    [] pc[t] = "v1" -> "setflag"
    [] pc[t] \in {"m2", "f2", "r2", "c2", "v2"} -> "next"
    [] pc[t] = "e1" -> IF t = Master THEN "next" ELSE "pool"

\* The barriers an operation ends with.
LastBarriers == {"m2", "f2", "r2", "c2", "v2", "e1"}

\* THREAD_BARRIER, of the whole team.
Barrier ==
  /\ \A t \in Team : pc[t] \in Waiting
  /\ pc' = [t \in Threads |-> IF t \in Team THEN After(t) ELSE pc[t]]
  /\ ip' = [t \in Threads |-> IF t \in Team /\ pc[t] \in LastBarriers
                              THEN ip[t] + 1 ELSE ip[t]]
  /\ thread_pool_locked' = (thread_pool_locked \/ pc[Master] = "e1")
  /\ owned' = IF pc[Master] = "m2" THEN owned \cup {op(Master).s} ELSE owned
  /\ UNCHANGED <<prog, nops, var, list, return_malloc_ptr, flag>>

-----------------------------------------------------------------------------
\* Mutant: the list does not learn its new end.
AllocKeepsLast ==
  /\ pc[Master] = "alloc"
  /\ \E nv \in Addrs \ live :
       /\ live' = live \cup {nv}
       /\ size' = [size EXCEPT ![nv] = op(Master).nel]
       /\ next' = [next EXCEPT ![last_vect] = nv, ![nv] = Null]
       /\ prev' = [prev EXCEPT ![nv] = last_vect]
       /\ flag' = [flag EXCEPT ![nv] = FALSE]
       /\ return_malloc_ptr' = nv
       /\ last_vect' = last_vect
  /\ required_memory' = required_memory + op(Master).nel
  /\ max_required_memory' = IF required_memory' > max_required_memory
                            THEN required_memory' ELSE max_required_memory
  /\ pc' = [pc EXCEPT ![Master] = "m1"]
  /\ UNCHANGED <<prog, nops, thread_pool_locked, ip, var, owned>>

\* internal_nissa_malloc: the master takes memory and appends it to the list...
Alloc ==
  /\ pc[Master] = "alloc"
  /\ \E nv \in Addrs \ live :
       /\ live' = live \cup {nv}
       /\ size' = [size EXCEPT ![nv] = op(Master).nel]
       /\ next' = [next EXCEPT ![last_vect] = nv, ![nv] = Null]
       /\ prev' = [prev EXCEPT ![nv] = last_vect]
       /\ flag' = [flag EXCEPT ![nv] = FALSE]
       /\ last_vect' = nv
       /\ return_malloc_ptr' = nv
  /\ required_memory' = required_memory + op(Master).nel
  /\ max_required_memory' = IF required_memory' > max_required_memory
                            THEN required_memory' ELSE max_required_memory
  /\ pc' = [pc EXCEPT ![Master] = "m1"]
  /\ UNCHANGED <<prog, nops, thread_pool_locked, ip, var, owned>>

\* Mutant: no barrier before the threads leave.
TakeAndLeave(t) ==
  /\ pc[t] = "take"
  /\ var' = [var EXCEPT ![t][op(t).s] = return_malloc_ptr]
  /\ pc' = [pc EXCEPT ![t] = "next"]
  /\ ip' = [ip EXCEPT ![t] = @ + 1]
  /\ owned' = IF t = Master THEN owned \cup {op(t).s} ELSE owned
  /\ UNCHANGED <<prog, nops, thread_pool_locked, list, return_malloc_ptr, flag>>

\* ... and all of them take the pointer.
Take(t) ==
  /\ pc[t] = "take"
  /\ var' = [var EXCEPT ![t][op(t).s] = return_malloc_ptr]
  /\ pc' = [pc EXCEPT ![t] = "m2"]
  /\ UNCHANGED <<prog, nops, thread_pool_locked, ip, list, return_malloc_ptr,
                 flag, owned>>

\* Mutant: the next vector keeps its link to the one that goes.
DetachHalf ==
  /\ pc[Master] = "detach"
  /\ LET vect == var[Master][op(Master).s] IN
       /\ next' = [next EXCEPT ![prev[vect]] = next[vect]]
       /\ prev' = prev
       /\ last_vect' = IF next[vect] = Null THEN prev[vect] ELSE last_vect
       /\ required_memory' = required_memory - size[vect]
       /\ live' = live \ {vect}
  /\ var' = [var EXCEPT ![Master][op(Master).s] = Null]
  /\ owned' = owned \ {op(Master).s}
  /\ pc' = [pc EXCEPT ![Master] = "f2"]
  /\ UNCHANGED <<prog, nops, thread_pool_locked, ip, size, max_required_memory,
                 return_malloc_ptr, flag>>

\* internal_nissa_free, by the master.
Detach ==
  /\ pc[Master] = "detach"
  /\ LET vect == var[Master][op(Master).s] IN
       /\ next' = [next EXCEPT ![prev[vect]] = next[vect]]
       /\ prev' = IF next[vect] # Null
                  THEN [prev EXCEPT ![next[vect]] = prev[vect]] ELSE prev
       /\ last_vect' = IF next[vect] = Null THEN prev[vect] ELSE last_vect
       /\ required_memory' = required_memory - size[vect]
       /\ live' = live \ {vect}
  /\ var' = [var EXCEPT ![Master][op(Master).s] = Null]
  /\ owned' = owned \ {op(Master).s}
  /\ pc' = [pc EXCEPT ![Master] = "f2"]
  /\ UNCHANGED <<prog, nops, thread_pool_locked, ip, size, max_required_memory,
                 return_malloc_ptr, flag>>

-----------------------------------------------------------------------------
\* A thread does its part of a loop, and goes on.
Loop(t) ==
  /\ pc[t] = "loop"
  /\ pc' = [pc EXCEPT ![t] = "next"]
  /\ ip' = [ip EXCEPT ![t] = @ + 1]
  /\ UNCHANGED <<prog, nops, thread_pool_locked, var, list, return_malloc_ptr,
                 flag, owned>>

\* vector_copy: every thread copies its part, and the flag.
Copy(t) ==
  /\ pc[t] = "copying"
  /\ flag' = [flag EXCEPT ![var[t][op(t).s]] = flag[var[t][op(t).from]]]
  /\ pc' = [pc EXCEPT ![t] = "c2"]
  /\ UNCHANGED <<prog, nops, thread_pool_locked, ip, var, list,
                 return_malloc_ptr, owned>>

\* vector_reset: the master clears the data of all.
Memset ==
  /\ pc[Master] = "memset"
  /\ pc' = [pc EXCEPT ![Master] = "r2"]
  /\ UNCHANGED <<prog, nops, thread_pool_locked, ip, var, list,
                 return_malloc_ptr, flag, owned>>

\* set_vect_flag and unset_vect_flag: a flag that is right already costs no
\* barrier...
Test(t) ==
  /\ pc[t] = "test"
  /\ pc' = [pc EXCEPT ![t] = IF flag[var[t][op(t).s]] # op(t).to
                             THEN "v1" ELSE "v2"]
  /\ UNCHANGED <<prog, nops, thread_pool_locked, ip, var, list,
                 return_malloc_ptr, flag, owned>>

\* ... and another one is written after it, by all.
SetFlag(t) ==
  /\ pc[t] = "setflag"
  /\ flag' = [flag EXCEPT ![var[t][op(t).s]] = op(t).to]
  /\ pc' = [pc EXCEPT ![t] = "v2"]
  /\ UNCHANGED <<prog, nops, thread_pool_locked, ip, var, list,
                 return_malloc_ptr, owned>>

-----------------------------------------------------------------------------
ThreadStep(t) ==
  Begin(t) \/ Take(t) \/ Loop(t) \/ Copy(t) \/ Test(t) \/ SetFlag(t)

Done == /\ nops = MaxOps
        /\ \A t \in Team : pc[t] = "next" /\ ip[t] = nops + 1

Next ==
  \/ Choose \/ Fork \/ Barrier \/ Alloc \/ Detach \/ Memset
  \/ \E t \in Threads : ThreadStep(t)
  \/ Done /\ UNCHANGED vars

Spec == Init /\ [][Next]_vars

-----------------------------------------------------------------------------
\* The type invariant.
TypeOK ==
  /\ prog \in [1 .. MaxOps -> Ops \cup {NoOp}]
  /\ nops \in 0 .. MaxOps
  /\ \A i \in 1 .. nops : prog[i] \in Ops
  /\ thread_pool_locked \in BOOLEAN
  /\ ip \in [Threads -> 1 .. MaxOps + 1]
  /\ pc \in [Threads -> PCs]
  /\ var \in [Threads -> [Slots -> Addrs \cup {Null}]]
  /\ live \subseteq Addrs
  /\ prev \in [Addrs \cup {MainVect} -> Addrs \cup {MainVect, Null}]
  /\ next \in [Addrs \cup {MainVect} -> Addrs \cup {Null}]
  /\ size \in [Addrs \cup {MainVect} -> Nat]
  /\ last_vect \in live \cup {MainVect}
  /\ return_malloc_ptr \in Addrs \cup {Null}
  /\ required_memory \in Int /\ max_required_memory \in Int
  /\ flag \in [Addrs -> BOOLEAN]
  /\ owned \subseteq Slots

\* The list is one, whatever is allocated and freed in whatever order: every
\* vector is the next of its previous and the previous of its next, and the
\* last of the list is the only one with no next.
ListLinked ==
  /\ prev[MainVect] = Null
  /\ next[last_vect] = Null
  /\ \A a \in live \cup {MainVect} :
       /\ next[a] = Null => a = last_vect
       /\ next[a] # Null => next[a] \in live /\ prev[next[a]] = a
  /\ \A a \in live : prev[a] \in live \cup {MainVect} /\ next[prev[a]] = a

\* The threads that work in an operation work on the same vector, though each
\* has taken its pointer from a global that the next allocation overwrites.
SameVector ==
  \A t, u \in Team :
    pc[t] \in Working /\ pc[u] \in Working /\ ip[t] = ip[u] =>
      /\ var[t][op(t).s] = var[u][op(t).s]
      /\ op(t).kind = "copy" => var[t][op(t).from] = var[u][op(t).from]

\* Nobody works on a vector that has been freed.
NoUseAfterFree ==
  \A t \in Team : pc[t] \in Working =>
    /\ var[t][op(t).s] \in live
    /\ op(t).kind = "copy" => var[t][op(t).from] \in live

\* While the master clears or frees a vector no other thread is in a loop or in
\* a copy.
MasterAlone ==
  pc[Master] \in {"memset", "detach"} =>
    \A t \in Team \ {Master} : pc[t] \notin Working

\* Threads pass the same barriers: when all of the team is at one it is the
\* same, of the same operation, even where a flag decides if there is one.
SameBarrier ==
  (\A t \in Team : pc[t] \in Waiting) =>
    \A t, u \in Team : ip[t] = ip[u] /\ pc[t] = pc[u]

-----------------------------------------------------------------------------
(***************************************************************************)
(* The linked list implements VectorList: walking it from main_vect, as    *)
(* compute_vect_memory_usage and print_all_vect_content do, gives the      *)
(* vectors in the order of their allocation.                               *)
(***************************************************************************)
\* The first n vectors after main_vect.
Walk ==
  LET from[n \in 0 .. Cardinality(Addrs)] ==
        IF n = 0 THEN <<>>
        ELSE LET w == from[n - 1]
                 a == next[IF w = <<>> THEN MainVect ELSE w[Len(w)].addr]
             IN IF Len(w) < n - 1 \/ a = Null THEN w
                ELSE Append(w, [addr |-> a, size |-> size[a]])
  IN from[Cardinality(Addrs)]

compute_vect_memory_usage == FoldSeq(LAMBDA v, tot : tot + v.size, 0, Walk)

Abstract == INSTANCE VectorList WITH vectors <- Walk, memory <- required_memory

\* The list is what the allocations and the releases have made of it, in the
\* order of the allocations, and the memory goes with them.
ImplementsVectorList == Abstract!Spec

\* The memory in use is that of the vectors in the list, and never more than
\* the maximum that is reported.
MemoryAccounted ==
  /\ required_memory = compute_vect_memory_usage
  /\ required_memory <= max_required_memory
=============================================================================
