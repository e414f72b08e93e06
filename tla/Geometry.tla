------------------------------ MODULE Geometry ------------------------------
(***************************************************************************)
(* The communications of borders and edges that rely on the order of sites  *)
(* in the tables, and any way through the tables themselves.                *)
(*                                                                         *)
(* A walker holds one index (rank, loclx) and goes on by any table of the   *)
(* program, in any order: to a neighbour by one of the three orderings, or, *)
(* from a copy of a site in a border or in an edge, to the memory of the    *)
(* rank the copy is received from.  site is the site it has come to in     *)
(* truth, pos the same relative to the rank.                               *)
(***************************************************************************)
EXTENDS Tables

VARIABLES rank, loclx, pos, site

vars == <<rank, loclx, pos, site>>

-----------------------------------------------------------------------------
(***************************************************************************)
(* The walker.                                                             *)
(***************************************************************************)

\* How many coordinates are out of the local box, and where it may go: the
\* program never asks for a neighbour out of borders and edges.
Out(x) == {mu \in Dirs : x[mu] < 0 \/ x[mu] >= loc_size[mu]}
Wrapped(x) == [mu \in Dirs |-> IF paral_dir[mu] THEN x[mu] ELSE x[mu] % loc_size[mu]]
Held(x) ==
  /\ \A mu \in Dirs : x[mu] \in -1 .. loc_size[mu]
  /\ Cardinality(Out(x)) <= 2

Init ==
  /\ rank \in Ranks
  /\ loclx \in Local
  /\ pos = loc_coord_of_loclx[loclx]
  /\ site = Absolute(rank, pos)

SiteBeyond(v, mu) == [site EXCEPT ![mu] = (@ + Step(v)) % glb_size[mu]]

Go(v, mu, to) ==
  LET x == Wrapped(Moved(pos, v, mu))
  IN  /\ Held(x)
      /\ pos' = x
      /\ loclx' = to
      /\ site' = SiteBeyond(v, mu)
      /\ UNCHANGED rank

MoveLx(v, mu) == Go(v, mu, loclx_neigh[rank][v][loclx][mu])

\* The neighbour has the other parity.
MoveEo(v, mu) ==
  LET par == loclx_parity[rank][loclx]
  IN  Go(v, mu, loclx_of_loceo[rank][1 - par][loceo_neigh(rank, v, par, loceo_of_loclx[rank][loclx], mu)])

MoveLeb(v, mu) ==
  /\ loclx \in Local
  /\ Go(v, mu, loclx_of_Leblx[Leblx_neigh(rank, v, Leblx_of_loclx[loclx], mu)])

\* By the global index, to whoever hosts it.
glblx_neigh(gx, v, mu) ==
  glblx_of_coord([glb_coord_of_glblx(gx) EXCEPT ![mu] = (@ + Step(v)) % glb_size[mu]])
MoveGlb(v, mu) ==
  /\ loclx \in Local
  /\ LET g == glb_coord_of_glblx(glblx_neigh(glblx_of_loclx[rank][loclx], v, mu))
     IN  rank' = RankHosting(g) /\ loclx' = LocHosting(g)
  /\ pos' = [pos EXCEPT ![mu] = (@ + Step(v)) % loc_size[mu]]
  /\ site' = SiteBeyond(v, mu)

\* To the sender's memory: pos is relative to that rank from then on.
Arrive(v, mu, from) ==
  /\ rank' = rank_neigh[rank][v][mu]
  /\ pos' = [pos EXCEPT ![mu] = @ - Step(v) * loc_size[mu]]
  /\ loclx' = from
  /\ UNCHANGED site

\* Mutant: the forward half not shifted.
ReceivedBehind(v, mu, b) == b \in bord_offset[mu] .. bord_offset[mu] + bord_dir_vol[mu] - 1
\* set_lx_or_eo_comm: what the border v of direction mu receives is the other
\* half of what the neighbour on that side has in its sending buffer.
Received(v, mu, b) ==
  LET start == v * bord_volh + bord_offset[mu] IN b \in start .. start + bord_dir_vol[mu] - 1
Sent(v, b) == IF v = 0 THEN b + bord_volh ELSE b - bord_volh

BordSource(r, b) == surflx_of_bordlx[r][b]
CrossBord(v, mu) ==
  /\ Received(v, mu, loclx - loc_vol)
  /\ Arrive(v, mu, BordSource(rank_neigh[rank][v][mu], Sent(v, loclx - loc_vol)))

\* The same with the vector in Lebesgue order.
CrossBordLeb(v, mu) ==
  /\ Received(v, mu, Leblx_of_loclx[loclx] - loc_vol)
  /\ Arrive(v, mu, loclx_of_Leblx[surfLeblx_of_bordLeblx(rank_neigh[rank][v][mu],
                                                         Sent(v, Leblx_of_loclx[loclx] - loc_vol))])

\* One parity alone: all offsets are halved.
CrossBordEo(v, mu) ==
  LET par == loclx_parity[rank][loclx]
      beo == loceo_of_loclx[rank][loclx] - loc_volh
      to == rank_neigh[rank][v][mu]
      start == (v * bord_volh + bord_offset[mu]) \div 2
      sent == IF v = 0 THEN beo + bord_volh \div 2 ELSE beo - bord_volh \div 2
  IN  /\ beo \in start .. start + bord_dir_vol[mu] \div 2 - 1
      /\ Arrive(v, mu, loclx_of_loceo[to][par][surfeo_of_bordeo[to][par][sent]])

\* Mutant: the stride of the slices counted in sites.
EdgeTypeShort(p) ==
  CASE p = <<0, 1>> -> [block |-> loc_size[2] * loc_size[3], stride |-> loc_size[2] * loc_size[3]]
    [] p \in {<<0, 2>>, <<1, 2>>} -> [block |-> loc_size[3], stride |-> loc_size[2]]
    [] OTHER -> [block |-> 1, stride |-> loc_size[3]]
\* The types of initialize_lx_edge_senders_of_kind: the k-th site of a strided
\* set of blocks.  The code writes them for four directions.
EdgeType(p) ==
  CASE p = <<0, 1>> -> [block |-> loc_size[2] * loc_size[3], stride |-> loc_size[2] * loc_size[3]]
    [] p = <<0, 2>> -> [block |-> loc_size[3], stride |-> loc_size[2] * loc_size[3]]
    [] p = <<0, 3>> -> [block |-> 1, stride |-> loc_size[3]]
    [] p = <<1, 2>> -> [block |-> loc_size[3], stride |-> loc_size[2] * loc_size[3]]
    [] p = <<1, 3>> -> [block |-> 1, stride |-> loc_size[3]]
    [] p = <<2, 3>> -> [block |-> 1, stride |-> loc_size[3]]
EdgeDisplacement(p, k) == (k \div EdgeType(p).block) * EdgeType(p).stride + (k % EdgeType(p).block)

\* communicate_lx_edges: the (v,w) edge of p comes from the neighbour on the
\* side w of the second direction, out of its border v of the first, at the
\* far end if that neighbour is behind.
EdgeSource(p, v, w, k) ==
  LET x == [mu \in Dirs |-> IF mu = p[2] THEN loc_size[p[2]] - 1 ELSE 0]
      pos_edge_offset == bordlx_of_coord(x, p[1])
  IN  loc_vol + bord_offset[p[1]] + v * bord_volh + (IF w = 0 THEN pos_edge_offset ELSE 0)
        + EdgeDisplacement(p, k)
CrossEdge(p, v, w) ==
  LET k == loclx - EdgeStart(p, v, w)
  IN  /\ k \in 0 .. edge_dir_vol[p] - 1
      /\ Arrive(w, p[2], EdgeSource(p, v, w, k))

\* The border sites whose neighbours are in the local box on one side and in
\* an edge on the other, in the order of the border.
EoEdgeSites(r, par, p, v, w) ==
  SelectSeq([b \in 1 .. bord_volh |-> loclx_of_loceo[r][par][loc_volh + b - 1]],
            LAMBDA i : /\ loclx_neigh[r][1 - v][i][p[1]] \in Local
                       /\ loclx_neigh[r][w][i][p[2]] >= loc_vol + bord_vol)
\* communicate_eo_edges: the verses of the type are those of the sender's edge.
CrossEdgeEo(p, v, w) ==
  LET par == loclx_parity[rank][loclx]
      k == loceo_of_loclx[rank][loclx]
             - (loc_volh + bord_volh + (edge_vol \div 8) * (2 * v + w) + edge_offset[p] \div 2)
      from == rank_neigh[rank][w][p[2]]
  IN  /\ k \in 0 .. edge_dir_vol[p] \div 2 - 1
      /\ Arrive(w, p[2], EoEdgeSites(from, par, p, v, 1 - w)[k + 1])

Next ==
  \/ \E v \in Verses, mu \in Dirs :
       \/ MoveLx(v, mu) \/ MoveEo(v, mu) \/ MoveLeb(v, mu) \/ MoveGlb(v, mu)
       \/ CrossBord(v, mu) \/ CrossBordEo(v, mu) \/ CrossBordLeb(v, mu)
  \/ \E p \in ParallelPairs, v \in Verses, w \in Verses :
       CrossEdge(p, v, w) \/ CrossEdgeEo(p, v, w)

Spec == Init /\ [][Next]_vars

-----------------------------------------------------------------------------
(***************************************************************************)
(* Properties.                                                             *)
(***************************************************************************)

\* The walker's index is one the tables have, in a place the rank holds.
TypeOK ==
  /\ rank \in Ranks
  /\ loclx \in AllLx
  /\ pos \in [Dirs -> Int] /\ Held(pos)
  /\ site \in [Dirs -> Nat]

\* However one goes through the tables and the communications, the index is
\* that of the site one has come to, in the border or edge of that side: the
\* orderings agree with each other, the senders' order with the receivers'.
SiteRight ==
  /\ Absolute(rank, pos) = site
  /\ glb_coord_of_loclx[rank][loclx] = site
  /\ loclx = full_lx_of_coords(pos)

\* Each copy of a site is filled by one message of a communication of borders,
\* and each copy in an edge by one of a communication of edges.
FilledOnce ==
  /\ loclx - loc_vol \in Bords =>
       Cardinality({m \in Verses \X Dirs : Received(m[1], m[2], loclx - loc_vol)}) = 1
  /\ loclx >= loc_vol + bord_vol =>
       Cardinality({m \in ParallelPairs \X Verses \X Verses :
                      loclx - EdgeStart(m[1], m[2], m[3]) \in 0 .. edge_dir_vol[m[1]] - 1}) = 1

\* The loops over bulk, over not forward and over not backward surface touch no
\* border on the sides they leave out, all other sites do, and the lists have
\* the lengths they are allocated with (find_bulk_sites stops the program if not).
BulkTouchesNoBorder ==
  loclx \in Local =>
    LET Inner(v) == \A mu \in Dirs : loclx_neigh[rank][v][loclx][mu] \in Local
    IN  /\ loclx \in loclx_of_bulklx <=> Inner(0) /\ Inner(1)
        /\ loclx \in loclx_of_non_fw_surflx <=> Inner(1)
        /\ loclx \in loclx_of_non_bw_surflx <=> Inner(0)
        /\ Cardinality(loclx_of_bulklx) = bulk_vol
        /\ Cardinality(loclx_of_non_fw_surflx) = non_fw_surf_vol
        /\ Cardinality(loclx_of_non_bw_surflx) = non_fw_surf_vol

\* The staggered phases around any square of links multiply to -1, also where
\* the square reaches over a border or around the lattice.
Plus(i, mu) == loclx_neigh[rank][1][i][mu]
PhasesAnticommute ==
  loclx \in Local =>
    \A p \in Pairs :
      LET mu == p[1]
          nu == p[2]
      IN  get_stagphase_of_lx(rank, loclx, mu) * get_stagphase_of_lx(rank, Plus(loclx, mu), nu)
            * get_stagphase_of_lx(rank, Plus(loclx, nu), mu) * get_stagphase_of_lx(rank, loclx, nu) = -1

\* "Return the global index of site addressed by rank and loclx"
\* (geometry_lx.cpp:164).
GlblxOfRank ==
  loclx \in Local => get_glblx_of_rank_and_loclx(rank, loclx) = glblx_of_loclx[rank][loclx]

\* "if "local" assign it (automatically -1 otherwise)" (geometry_lx.cpp:343):
\* a neighbour that the rank does not hold has no index.
NoNeighbourNoIndex ==
  \A v \in Verses, mu \in Dirs :
    ~Held(Wrapped(Moved(pos, v, mu))) =>
      LET to == loclx_neigh[rank][v][loclx][mu]
      IN  \/ to = -1
          \/ to \in AllLx /\ glb_coord_of_loclx[rank][to] = SiteBeyond(v, mu)
=============================================================================
