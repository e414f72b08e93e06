------------------------------ MODULE Lattice ------------------------------
(***************************************************************************)
(* The lattice and its division among the ranks: init_grid and the          *)
(* conversions between coordinates and indices of geometry_lx.cpp.          *)
(*                                                                         *)
(* A coords array is a function on Dirs.  A site is local to the rank whose *)
(* box contains it; the rank also holds copies of the sites one step        *)
(* outside (the border) and of those one step outside in two directions     *)
(* (the edges).  All have an index: local sites first, then the backward    *)
(* borders, the forward borders and the edges.                              *)
(***************************************************************************)
EXTENDS Integers, FiniteSets

CONSTANTS NDIM,       \* number of directions
          glb_size,   \* extent of the lattice in each
          nrank_dir   \* number of ranks in each

Dirs == 0 .. NDIM - 1
Verses == 0 .. 1      \* backward, forward

\* What init_grid requires; a local side of one site is refused.
ASSUME GridAssumption ==
  /\ NDIM \in Nat \ {0}
  /\ glb_size \in [Dirs -> Nat \ {0}]
  /\ nrank_dir \in [Dirs -> Nat \ {0}]
  /\ \A mu \in Dirs : glb_size[mu] % nrank_dir[mu] = 0 /\ glb_size[mu] \div nrank_dir[mu] >= 2

\* The product and the sum of s over dirs.
Product(s, dirs) ==
  LET p[n \in 0 .. NDIM] ==
        IF n = 0 THEN 1 ELSE IF n - 1 \in dirs THEN p[n - 1] * s[n - 1] ELSE p[n - 1]
  IN  p[NDIM]
Total(s, dirs) ==
  LET t[n \in 0 .. NDIM] ==
        IF n = 0 THEN 0 ELSE IF n - 1 \in dirs THEN t[n - 1] + s[n - 1] ELSE t[n - 1]
  IN  t[NDIM]

loc_size == [mu \in Dirs |-> glb_size[mu] \div nrank_dir[mu]]
paral_dir == [mu \in Dirs |-> nrank_dir[mu] > 1]
nranks == Product(nrank_dir, Dirs)
glb_vol == Product(glb_size, Dirs)
loc_vol == glb_vol \div nranks
Ranks == 0 .. nranks - 1

-----------------------------------------------------------------------------
(***************************************************************************)
(* Lexicographic order: the last direction runs fastest.                   *)
(***************************************************************************)

\* The index of x among the points of a box of sides s, counting only dirs.
LxOn(dirs, x, s) ==
  LET ilx[n \in 0 .. NDIM] ==
        IF n = 0 THEN 0
        ELSE IF n - 1 \in dirs THEN ilx[n - 1] * s[n - 1] + x[n - 1]
        ELSE ilx[n - 1]
  IN  ilx[NDIM]

lx_of_coord(x, s) == LxOn(Dirs, x, s)
bordlx_of_coord(x, mu) == LxOn(Dirs \ {mu}, x, loc_size)
edgelx_of_coord(x, mu, nu) == LxOn(Dirs \ {mu, nu}, x, loc_size)

coord_of_lx(ilx, s) ==
  LET rest[mu \in Dirs] == IF mu = NDIM - 1 THEN ilx ELSE rest[mu + 1] \div s[mu + 1]
  IN  [mu \in Dirs |-> rest[mu] % s[mu]]

loclx_of_coord(x) == lx_of_coord(x, loc_size)
glblx_of_coord(x) == lx_of_coord(x, glb_size)
glb_coord_of_glblx(gx) == coord_of_lx(gx, glb_size)
rank_of_coord(p) == lx_of_coord(p, nrank_dir)

rank_coord == [r \in Ranks |-> coord_of_lx(r, nrank_dir)]

\* The rank that hosts a site and the local index there.
RankHosting(g) == rank_of_coord([mu \in Dirs |-> g[mu] \div loc_size[mu]])
LocHosting(g) == loclx_of_coord([mu \in Dirs |-> g[mu] % loc_size[mu]])

\* The neighbouring ranks, on a torus (MPI_Cart_shift).
Step(v) == IF v = 1 THEN 1 ELSE -1
rank_neigh ==
  [r \in Ranks |-> [v \in Verses |-> [mu \in Dirs |->
     rank_of_coord([rank_coord[r] EXCEPT ![mu] = (@ + Step(v)) % nrank_dir[mu]])]]]

-----------------------------------------------------------------------------
(***************************************************************************)
(* Sizes and offsets of borders and edges.                                 *)
(***************************************************************************)

bord_dir_vol == [mu \in Dirs |-> IF paral_dir[mu] THEN loc_vol \div loc_size[mu] ELSE 0]
bord_offset == [mu \in Dirs |-> Total(bord_dir_vol, 0 .. mu - 1)]
bord_volh == Total(bord_dir_vol, Dirs)
bord_vol == 2 * bord_volh

\* Pairs of directions, each once, and their numbers in order of appearance.
Pairs == {p \in Dirs \X Dirs : p[1] < p[2]}
Before(p) == {q \in Pairs : q[1] < p[1] \/ (q[1] = p[1] /\ q[2] < p[2])}
edge_numb == [p \in Pairs |-> Cardinality(Before(p))]
edge_dir_vol ==
  [p \in Pairs |->
     IF paral_dir[p[1]] /\ paral_dir[p[2]] THEN bord_dir_vol[p[1]] \div loc_size[p[2]] ELSE 0]
TotalOfPairs(pairs) ==
  Total([mu \in Dirs |->
           Total([nu \in Dirs |-> IF <<mu, nu>> \in pairs THEN edge_dir_vol[<<mu, nu>>] ELSE 0], Dirs)], Dirs)
edge_offset == [p \in Pairs |-> TotalOfPairs(Before(p))]
edge_vol == 4 * TotalOfPairs(Pairs)
ParallelPairs == {p \in Pairs : paral_dir[p[1]] /\ paral_dir[p[2]]}

bulk_vol ==
  Product([mu \in Dirs |-> IF paral_dir[mu] THEN loc_size[mu] - 2 ELSE loc_size[mu]], Dirs)
non_fw_surf_vol ==
  Product([mu \in Dirs |-> IF paral_dir[mu] THEN loc_size[mu] - 1 ELSE loc_size[mu]], Dirs)

Local == 0 .. loc_vol - 1
Bords == 0 .. bord_vol - 1
AllLx == 0 .. loc_vol + bord_vol + edge_vol - 1

\* The side of an edge's block: backward-backward first, forward-forward last.
EdgeStart(p, v, w) == loc_vol + bord_vol + edge_offset[p] + (2 * v + w) * (edge_vol \div 4)

-----------------------------------------------------------------------------
(***************************************************************************)
(* The index of a site given by coordinates relative to the rank.          *)
(***************************************************************************)

\* -1 behind the local box, +1 just beyond it, 0 elsewhere: also for a
\* coordinate farther away, which full_lx_of_coords does not tell apart.
IsBord(x) ==
  [mu \in Dirs |-> IF ~paral_dir[mu] THEN 0
                   ELSE IF x[mu] = loc_size[mu] THEN 1
                   ELSE IF x[mu] = glb_size[mu] - 1 THEN -1 ELSE 0]

full_lx_of_coords(ext_x) ==
  LET x == [mu \in Dirs |-> ext_x[mu] % glb_size[mu]]
      is_bord == IsBord(x)
      out == {mu \in Dirs : is_bord[mu] # 0}
      Verse(mu) == IF is_bord[mu] = 1 THEN 1 ELSE 0
  IN  IF \A mu \in Dirs : x[mu] < loc_size[mu] THEN loclx_of_coord(x)
      ELSE IF Cardinality(out) = 1
      THEN LET mu == CHOOSE d \in out : TRUE
           IN  loc_vol + Verse(mu) * bord_volh + bord_offset[mu] + bordlx_of_coord(x, mu)
      ELSE IF Cardinality(out) = 2
      THEN LET p == CHOOSE q \in Pairs : {q[1], q[2]} = out
           IN  EdgeStart(p, Verse(p[1]), Verse(p[2])) + edgelx_of_coord(x, p[1], p[2])
      ELSE -1
=============================================================================
