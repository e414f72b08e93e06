----------------------------- MODULE MCLattice ------------------------------
(***************************************************************************)
(* How the lattice is divided and labelled; which of the two is told by      *)
(* part.                                                                   *)
(*                                                                         *)
(* grid      Lattices in three directions, with all numbers of ranks that    *)
(*           may be asked for, some directions fixed, with and without        *)
(*           even-odd order.                                               *)
(* geometry  The walk through the tables of a lattice in four directions,     *)
(*           all of them parallel, with local sides that differ.            *)
(***************************************************************************)
EXTENDS Geometry

VARIABLES part, job, pc, stop, icombo, mR, min_surf, mBV

grid_vars == <<job, pc, stop, icombo, mR, min_surf, mBV>>
MCVars == <<part, vars, grid_vars>>

OnDirs(s) == [mu \in 0 .. Len(s) - 1 |-> s[mu + 1]]
MCSize == OnDirs(<<4, 8, 4, 12>>)
MCRanks == OnDirs(<<2, 2, 2, 2>>)

MCJobs ==
  {[size |-> OnDirs(s), ranks |-> n, eo |-> eo, fix |-> OnDirs(f)] :
     s \in {<<4, 4, 4>>, <<8, 4, 4>>, <<4, 6, 12>>, <<6, 6, 12>>, <<2, 4, 6>>},
     n \in {1, 2, 3, 4, 6, 8, 12, 16, 24, 36, 64},
     eo \in BOOLEAN,
     f \in {<<0, 0, 0>>, <<2, 0, 0>>, <<0, 3, 1>>, <<0, 2, 2>>}}

G == INSTANCE Grid WITH NDIM <- 3, Jobs <- MCJobs

ASSUME G!JobsAssumption

NoGrid ==
  /\ job = <<>> /\ pc = <<>> /\ stop = <<>> /\ icombo = 0 /\ mR = <<>> /\ min_surf = 0 /\ mBV = 0
NoWalk == rank = 0 /\ loclx = 0 /\ pos = <<>> /\ site = <<>>

MCInit ==
  \/ part = "geometry" /\ Init /\ NoGrid
  \/ part = "grid" /\ G!Init /\ NoWalk

MCNext ==
  \/ part = "geometry" /\ Next /\ UNCHANGED <<part, grid_vars>>
  \/ part = "grid" /\ G!Next /\ UNCHANGED <<part, vars>>

\* Every step takes the search further: without a deadlock it ends.
MCSpec == MCInit /\ [][MCNext]_MCVars

-----------------------------------------------------------------------------
\* geometry_lx.cpp, geometry_eo.cpp, geometry_Leb.cpp, edges.cpp: however one goes
\* through the tables and the communications, each index is that of the site
\* one has come to, and each copy of a site is filled by one message; the lists of bulk
\* and surface leave out the sites they must, and the staggered phases anticommute
\* around every square.
TablesRight == part = "geometry" =>
  TypeOK /\ SiteRight /\ FilledOnce /\ BulkTouchesNoBorder /\ PhasesAnticommute

\* find_minimal_surface_grid: the search, which passes over combinations that
\* begin alike, finds a grid if there is one, and no other is better by its measures.
GridRight == part = "grid" => G!TypeOK /\ G!FindsValidGrid /\ G!FindsBestGrid

\* The search jumps over no combination that is valid.
JumpsOverNothing == G!JumpsOverNothing
=============================================================================
