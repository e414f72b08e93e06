--------------------------- MODULE MCCollectives ----------------------------
(***************************************************************************)
(* What all threads of all ranks do together; which is told by part.        *)
(*                                                                         *)
(* collectives  Reductions and broadcasts on up to three ranks and three     *)
(*              threads, three calls.                                       *)
(* paths        Products of links on two ranks of two threads; direction 1    *)
(*              is divided between the ranks, direction 0 is closed on each. *)
(*              The programs are the plaquette and the larger loop of        *)
(*              measure_watusso, each then carried along, the loops of       *)
(*              Polyakov in both directions, and all pairs of steps.         *)
(***************************************************************************)
EXTENDS Tables

CONSTANTS Layouts, MaxCalls, Value(_,_,_)   \* of the collectives

VARIABLES part,
          nranks_world, nthreads, thread_pool_locked, calls, call, pc, buf, in,
          result, given,
          prog, ip, at, out, bord, valid, send_buf, inbox, posted, c

collectives_vars ==
  <<nranks_world, nthreads, thread_pool_locked, calls, call, pc, buf, in, result, given>>
paths_vars == <<prog, ip, at, out, bord, valid, send_buf, inbox, posted, c>>
MCVars == <<part, collectives_vars, paths_vars>>

MCSize == [mu \in 0 .. 1 |-> IF mu = 0 THEN 3 ELSE 4]
MCRanks == [mu \in 0 .. 1 |-> IF mu = 0 THEN 1 ELSE 2]

Start == <<[kind |-> "init"]>>
To(mu, len) == [n \in 1 .. (IF len < 0 THEN -len ELSE len) |->
                  [kind |-> "elong", mu |-> mu, fw |-> len > 0, both |-> FALSE]]
Carry(mu, fw) == <<[kind |-> "elong", mu |-> mu, fw |-> fw, both |-> TRUE]>>
Small == Start \o To(0, 1) \o To(1, 1) \o To(0, -1) \o To(1, -1)
Big == Start \o To(0, 1) \o To(1, 2) \o To(0, -2) \o To(1, -2) \o To(0, 1)
Loop(mu) == <<[kind |-> "reset"]>> \o [n \in 1 .. MCSize[mu] |-> [kind |-> "pline", mu |-> mu]]
MCPrograms ==
  {Small \o Carry(1, TRUE) \o Carry(0, FALSE), Small \o Carry(0, TRUE) \o Carry(1, FALSE),
   Big \o Carry(1, TRUE), Loop(0), Loop(1)}
    \cup {Start \o To(m, l) \o To(n, k) : m, n \in 0 .. 1, l, k \in {-1, 1}}

MCLayouts == {<<1, 3>>, <<2, 2>>, <<3, 1>>}

\* Every thread brings something else, to every call, and so does every set of them.
MCValue(r, t, i) == 32 * i + 2 ^ (2 * r + t)

C == INSTANCE Collectives WITH
       nranks <- nranks_world, prog <- calls, ip <- call, out <- result, posted <- given
P == INSTANCE Paths WITH Programs <- MCPrograms, NThreads <- 2

ASSUME CallsAssumption == C!CollectivesAssumption
ASSUME P!PathsAssumption

\* What is put together rank by rank is what is put together at once.
ASSUME Nested ==
  \A kind \in {"sum", "max"}, x \in [(0 .. 1) \X (0 .. 1) -> 0 .. 3] :
    C!Reduce(kind, [r \in 0 .. 1 |-> C!Reduce(kind, [t \in 0 .. 1 |-> x[<<r, t>>]])])
      = C!Reduce(kind, x)

-----------------------------------------------------------------------------
NoCalls ==
  /\ nranks_world = 0 /\ nthreads = 0 /\ thread_pool_locked = FALSE
  /\ calls = <<>> /\ call = <<>> /\ pc = <<>> /\ buf = <<>> /\ in = <<>>
  /\ result = <<>> /\ given = <<>>
NoPaths ==
  /\ prog = <<>> /\ ip = <<>> /\ at = <<>> /\ out = <<>> /\ bord = <<>>
  /\ valid = <<>> /\ send_buf = <<>> /\ inbox = <<>> /\ posted = <<>> /\ c = <<>>

MCInit ==
  \/ part = "collectives" /\ C!Init /\ NoPaths
  \/ part = "paths" /\ P!Init /\ NoCalls

MCNext ==
  \/ part = "collectives" /\ C!Next /\ UNCHANGED <<part, paths_vars>>
  \/ part = "paths" /\ P!Next /\ UNCHANGED <<part, collectives_vars>>

MCSpec == MCInit /\ [][MCNext]_MCVars

\* Whenever some thread of the collectives can move, one does.
MCFairSpec ==
  /\ MCSpec
  /\ WF_MCVars(part = "collectives" /\ C!Progress /\ UNCHANGED <<part, paths_vars>>)

-----------------------------------------------------------------------------
\* mpi_routines: every thread of every rank gets what all have brought to that
\* very call, and no one follows the pointer to a variable that is gone.
ResultsRight == part = "collectives" => C!TypeOK /\ C!ResultsRight /\ C!NoDanglingRead

\* glb_max_double returns the maximum, wherever it is called from.
MaximaRight == part = "collectives" => C!MaximaRight

\* su3_paths: each site has the product of the links along the path drawn so
\* far, and a path that is carried along stays closed, whatever the division.
PathsRight == part = "paths" => P!TypeOK /\ P!PathRight /\ P!ClosedWhenBoth

\* No thread and no rank waits for the others forever.
CollectivesEnd == part = "collectives" => C!ProgramEnds
=============================================================================
