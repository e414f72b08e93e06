------------------------------- MODULE Grid -------------------------------
(***************************************************************************)
(* How the lattice is divided among the ranks: find_minimal_surface_grid   *)
(* and the checks of init_grid and create_MPI_cartesian_grid after it.      *)
(*                                                                         *)
(* The search deals the prime factors of the number of ranks, or of the     *)
(* local volume if that has fewer, to the directions: icombo, written in    *)
(* base NDIM, has the direction of the k-th factor as its k-th digit.       *)
(***************************************************************************)
EXTENDS Factors, FiniteSets, FiniteSetsExt, Functions

CONSTANTS NDIM,
          Jobs        \* what the program may be started with

Dirs == 0 .. NDIM - 1
NoGrid == [mu \in Dirs |-> -1]

\* size: of the lattice; ranks; eo: use_eo_geom; fix: fix_nranks, 0 where free.
JobsAssumption ==
  \A j \in Jobs : /\ j.size \in [Dirs -> Nat \ {0}]
                  /\ j.ranks \in Nat \ {0}
                  /\ j.eo \in BOOLEAN
                  /\ j.fix \in [Dirs -> Nat]

VARIABLES job,        \* the lattice and the number of ranks
          pc,         \* "check", "search", "grid", "cart", "boxes", "ready", "stopped"
          stop,       \* why the program has stopped
          icombo, mR, min_surf, mBV

vars == <<job, pc, stop, icombo, mR, min_surf, mBV>>

Product(s) == FoldFunction(LAMBDA a, b : a * b, 1, s)
Volume == Product(job.size)
LV == Volume \div job.ranks

-----------------------------------------------------------------------------
(***************************************************************************)
(* Grids and their surfaces.                                               *)
(***************************************************************************)
Box(R) == [mu \in Dirs |-> job.size[mu] \div R[mu]]

\* bulk_recip_lat_volume: one layer off on both sides in every direction,
\* whether it is divided or not.
bulk_volume(R) == IF \E mu \in Dirs : Box(R)[mu] <= 2 THEN 0
                  ELSE Product([mu \in Dirs |-> Box(R)[mu] - 2])
Surface(R) == LV - bulk_volume(R)

Variance(B) ==
  LET sum == FoldFunction(LAMBDA a, b : a + b, 0, B)
      sum2 == FoldFunction(LAMBDA a, b : a + b * b, 0, B)
      mean == sum \div NDIM
  IN  sum2 \div NDIM - mean * mean
BorderIn(s, mu) == Product([nu \in Dirs |-> IF nu = mu THEN 1 ELSE s[nu]])

\* The factors that are dealt.
factorize_rank == Len(factorize(LV)) >= Len(factorize(job.ranks))
list_fact == IF factorize_rank THEN factorize(job.ranks) ELSE factorize(LV)
nfact == Len(list_fact)
ncombo == NDIM ^ nfact

\* The variance is meant of the borders of the local box; when the factors are
\* of the local volume the routine is given the grid in its place.
compute_border_variance(R) ==
  Variance([mu \in Dirs |-> BorderIn(IF factorize_rank THEN Box(R) ELSE R, mu)])

-----------------------------------------------------------------------------
(***************************************************************************)
(* One combination.                                                        *)
(***************************************************************************)
Digit(i, k) == (i \div NDIM ^ k) % NDIM

\* What the directions have got from the factors k and above.
Dealt(i, k) ==
  [mu \in Dirs |->
     Product([j \in {l \in k .. nfact - 1 : Digit(i, l) = mu} |-> list_fact[j + 1]])]

\* Where the loop over the factors ends: at the first one too many for its
\* direction, or at -1.
FailsAt(i) ==
  LET fails == {k \in 0 .. nfact - 1 : job.size[Digit(i, k)] % Dealt(i, k)[Digit(i, k)] # 0}
  IN  IF fails = {} THEN -1 ELSE Max(fails)

GridOf(i) == IF factorize_rank THEN Dealt(i, 0)
             ELSE [mu \in Dirs |-> job.size[mu] \div Dealt(i, 0)[mu]]

Fits(R) == \A mu \in Dirs : /\ job.eo => Box(R)[mu] % 2 = 0
                            /\ job.fix[mu] # 0 => job.fix[mu] = R[mu]

valid_partitioning(i) == FailsAt(i) = -1 /\ Fits(GridOf(i))

-----------------------------------------------------------------------------
Init ==
  /\ job \in Jobs
  /\ pc = "check" /\ stop = ""
  /\ icombo = 0 /\ mR = NoGrid /\ min_surf = -1 /\ mBV = -1

Stop(why) == pc' = "stopped" /\ stop' = why /\ UNCHANGED <<icombo, mR, min_surf, mBV>>

\* The checks before the search, in the order of the code.
Overfixed ==
  LET rest[n \in 0 .. NDIM] ==
        IF n = 0 THEN job.ranks
        ELSE IF job.fix[n - 1] = 0 THEN rest[n - 1] ELSE rest[n - 1] \div job.fix[n - 1]
  IN  rest[NDIM] < 1
Impossible(mu) ==
  /\ job.fix[mu] # 0
  /\ job.size[mu] % job.fix[mu] # 0 \/ job.size[mu] < IF job.eo THEN 2 ELSE 1
Check ==
  /\ pc = "check"
  /\ IF job.eo /\ LV % 2 ^ NDIM # 0 THEN Stop("odd")
     ELSE IF Volume % job.ranks # 0 THEN Stop("volume")
     ELSE IF \E mu \in Dirs : Impossible(mu) THEN Stop("fix")
     ELSE IF Overfixed THEN Stop("overfixed")
     ELSE /\ IF job.ranks \in {1, Volume}
             THEN /\ mR' = IF job.ranks = 1 THEN [mu \in Dirs |-> 1] ELSE job.size
                  /\ pc' = "grid"
             ELSE mR' = NoGrid /\ pc' = "search"
          /\ UNCHANGED <<stop, icombo, min_surf, mBV>>
  /\ UNCHANGED job

\* Mutant: the last of the grids of the same surface.
BetterLast(R) == min_surf = -1 \/ Surface(R) <= min_surf
\* A valid grid is taken if its surface is smaller, or as small and its borders
\* are more alike.
Better(R) ==
  \/ min_surf = -1 \/ Surface(R) < min_surf
  \/ Surface(R) = min_surf /\ compute_border_variance(R) < mBV
Try ==
  /\ pc = "search"
  /\ valid_partitioning(icombo)
  /\ LET R == GridOf(icombo)
     IN  IF Better(R)
         THEN mR' = R /\ min_surf' = Surface(R) /\ mBV' = compute_border_variance(R)
         ELSE UNCHANGED <<mR, min_surf, mBV>>
  /\ icombo' = icombo + 1
  /\ pc' = IF icombo + 1 < ncombo THEN "search" ELSE "grid"
  /\ UNCHANGED <<job, stop>>

\* Mutant: one digit too far.
JumpFar(i) == IF FailsAt(i) >= 0 THEN NDIM ^ (FailsAt(i) + 1) ELSE 1
\* The combinations that begin like one that has failed are passed over, a
\* quarter of them at a time.
Jump(i) == IF FailsAt(i) >= 1 THEN NDIM ^ (FailsAt(i) - 1) ELSE 1
Skip ==
  /\ pc = "search"
  /\ ~valid_partitioning(icombo)
  /\ icombo' = icombo + Jump(icombo)
  /\ pc' = IF icombo + Jump(icombo) < ncombo THEN "search" ELSE "grid"
  /\ UNCHANGED <<job, stop, mR, min_surf, mBV>>

\* init_grid: the lattice must be commensurable with the grid.
GridChecks ==
  /\ pc = "grid"
  /\ IF \E mu \in Dirs : mR[mu] <= 0 THEN Stop("nothing found")
     ELSE IF \E mu \in Dirs : job.size[mu] % mR[mu] # 0 THEN Stop("incommensurable")
     ELSE pc' = "cart" /\ UNCHANGED <<stop, icombo, mR, min_surf, mBV>>
  /\ UNCHANGED job

\* create_MPI_cartesian_grid: for each direction the ranks with the same
\* coordinate form a plan.  A rank's number in the plan, as MPI gives it, is
\* the lexicographic index of its coordinates without that direction; the
\* program compares it with rank_of_coord, which has the direction, at 0.
Ranked(dirs, x) ==
  LET ilx[n \in 0 .. NDIM] ==
        IF n = 0 THEN 0
        ELSE IF n - 1 \in dirs THEN ilx[n - 1] * mR[n - 1] + x[n - 1] ELSE ilx[n - 1]
  IN  ilx[NDIM]
rank_coords == {x \in [Dirs -> 0 .. job.ranks - 1] : \A mu \in Dirs : x[mu] < mR[mu]}
plan_rank(x, mu) == Ranked(Dirs \ {mu}, x)
PlanAgrees(x, mu) == plan_rank(x, mu) = Ranked(Dirs, [x EXCEPT ![mu] = 0])
Cart ==
  /\ pc = "cart"
  /\ IF \A mu \in Dirs, x \in rank_coords : PlanAgrees(x, mu)
     THEN pc' = "boxes" /\ UNCHANGED <<stop, icombo, mR, min_surf, mBV>>
     ELSE Stop("plan")
  /\ UNCHANGED job

\* init_boxes: no side of less than two sites.
Boxes ==
  /\ pc = "boxes"
  /\ IF \E mu \in Dirs : Box(mR)[mu] < 2 THEN Stop("small")
     ELSE pc' = "ready" /\ UNCHANGED <<stop, icombo, mR, min_surf, mBV>>
  /\ UNCHANGED job

End == pc \in {"ready", "stopped"} /\ UNCHANGED vars

Next == Check \/ Try \/ Skip \/ GridChecks \/ Cart \/ Boxes \/ End

\* Every step takes the search further: without a deadlock it ends.
Spec == Init /\ [][Next]_vars

-----------------------------------------------------------------------------
(***************************************************************************)
(* Properties.                                                             *)
(***************************************************************************)

\* All grids that would do, whatever the order they are searched in.
ValidGrids ==
  {R \in [Dirs -> {n \in 1 .. job.ranks : job.ranks % n = 0}] :
     /\ Product(R) = job.ranks
     /\ \A mu \in Dirs : job.size[mu] % R[mu] = 0
     /\ Fits(R)}
Found == pc \in {"grid", "cart", "boxes", "ready"} /\ job.ranks \notin {1, Volume}

TypeOK ==
  /\ job \in Jobs
  /\ icombo \in Nat /\ (pc = "search" => icombo < ncombo)
  /\ mR = NoGrid \/ Product(mR) = job.ranks
  /\ pc = "stopped" <=> stop # ""

\* The search ends with a grid that divides the lattice and respects what is
\* asked for if there is one, and with none if there is not.
FindsValidGrid ==
  Found => IF ValidGrids = {} THEN mR = NoGrid ELSE mR \in ValidGrids

\* No grid has a smaller surface, or as small a one and more similar borders, by
\* the measures the program takes.
FindsBestGrid ==
  Found /\ mR # NoGrid =>
    \A R \in ValidGrids :
      \/ Surface(mR) < Surface(R)
      \/ Surface(mR) = Surface(R) /\ compute_border_variance(mR) <= compute_border_variance(R)

\* A jump over combinations that begin alike passes over no valid one.
JumpsOverNothing ==
  [][\A i \in icombo + 1 .. icombo' - 1 : ~valid_partitioning(i)]_icombo

\* "find the grid minimizing the surface" (init.cpp:306): of the surfaces that
\* init_grid computes for the grid, over the divided directions alone.
SurfaceOf(R) ==
  LV - Product([mu \in Dirs |-> IF R[mu] > 1 THEN Box(R)[mu] - 2 ELSE Box(R)[mu]])
GridMinimizesSurface ==
  Found /\ mR # NoGrid => \A R \in ValidGrids : SurfaceOf(mR) <= SurfaceOf(R)

\* "if borders are more homogeneus consider this grid" (init.cpp:469).
BordersHomogeneous ==
  Found /\ mR # NoGrid =>
    \A R \in ValidGrids :
      Surface(R) = Surface(mR) =>
        Variance([mu \in Dirs |-> BorderIn(Box(mR), mu)]) <= Variance([mu \in Dirs |-> BorderIn(Box(R), mu)])

\* "Plan communicator has messed up coord" (mpi_routines.cpp:103): the program
\* asserts that the numbers agree.
PlansAgree == stop # "plan"

\* "return the log2 of N" (math_routines.cpp:43), in arrays of that length the
\* factors of the local volume and of the number of ranks are put.
FactorsFit ==
  pc = "search" => /\ Len(factorize(LV)) <= log2N(LV)
                   /\ Len(factorize(job.ranks)) <= log2N(job.ranks)
=============================================================================
