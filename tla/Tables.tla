------------------------------- MODULE Tables -------------------------------
(***************************************************************************)
(* The tables of geometry_lx.cpp, geometry_eo.cpp and geometry_Leb.cpp: one *)
(* copy per rank, filled when the geometry is set.                          *)
(***************************************************************************)
EXTENDS Lattice, Factors, SequencesExt

-----------------------------------------------------------------------------
(***************************************************************************)
(* lx tables.                                                              *)
(***************************************************************************)

\* The local box and one step around it in the parallel directions.
ExtendedBox ==
  LET size == [mu \in Dirs |-> loc_size[mu] + IF paral_dir[mu] THEN 2 ELSE 0]
  IN  {[mu \in Dirs |-> coord_of_lx(i, size)[mu] - IF paral_dir[mu] THEN 1 ELSE 0] :
         i \in 0 .. Product(size, Dirs) - 1}

\* label_all_sites goes through the box and notes what each index stands for.
Label == [x \in ExtendedBox |-> full_lx_of_coords(x)]
box_coord_of_loclx == [i \in AllLx |-> CHOOSE x \in ExtendedBox : Label[x] = i]

Absolute(r, x) ==
  [mu \in Dirs |-> (x[mu] + rank_coord[r][mu] * loc_size[mu] + glb_size[mu]) % glb_size[mu]]
glb_coord_of_loclx == [r \in Ranks |-> [i \in AllLx |-> Absolute(r, box_coord_of_loclx[i])]]
loc_coord_of_loclx == [i \in Local |-> box_coord_of_loclx[i]]
glblx_of_loclx == [r \in Ranks |-> [i \in Local |-> glblx_of_coord(glb_coord_of_loclx[r][i])]]

Moved(x, v, mu) == [x EXCEPT ![mu] = @ + Step(v)]
loclx_neigh ==
  [r \in Ranks |-> [v \in Verses |-> [i \in AllLx |-> [mu \in Dirs |->
     LET n == [nu \in Dirs |-> glb_coord_of_loclx[r][i][nu] - loc_size[nu] * rank_coord[r][nu]]
     IN  full_lx_of_coords(Moved(n, v, mu))]]]]

\* The border next to a site of the surface, and the site it is next to.
bordlx_of_surflx(r, i, mu) ==
  IF ~paral_dir[mu] THEN -1
  ELSE IF loc_coord_of_loclx[i][mu] = 0 THEN loclx_neigh[r][0][i][mu] - loc_vol
  ELSE IF loc_coord_of_loclx[i][mu] = loc_size[mu] - 1 THEN loclx_neigh[r][1][i][mu] - loc_vol
  ELSE -1
Facing(r, b) == {i \in Local : \E mu \in Dirs : bordlx_of_surflx(r, i, mu) = b}
surflx_of_bordlx == [r \in Ranks |-> [b \in Bords |-> CHOOSE i \in Facing(r, b) : TRUE]]

\* Mutant: the last layer one too far.
OnSurfBeyond(i, v) ==
  \E mu \in Dirs : paral_dir[mu] /\ loc_coord_of_loclx[i][mu] = v * loc_size[mu]
\* Sites with no neighbour out of the rank: at all, forward, backward.
OnSurf(i, v) ==
  \E mu \in Dirs : paral_dir[mu] /\ loc_coord_of_loclx[i][mu] = v * (loc_size[mu] - 1)
loclx_of_bulklx == {i \in Local : ~OnSurf(i, 0) /\ ~OnSurf(i, 1)}
loclx_of_non_fw_surflx == {i \in Local : ~OnSurf(i, 1)}
loclx_of_non_bw_surflx == {i \in Local : ~OnSurf(i, 0)}

\* As the code computes it, from the local coordinates alone.
get_glblx_of_rank_and_loclx(r, i) == LxOn(Dirs, loc_coord_of_loclx[i], glb_size)

\* Mutant: one direction too few.
StagphaseShort(r, i, mu) ==
  Product([nu \in Dirs |-> 1 - 2 * (glb_coord_of_loclx[r][i][nu] % 2)], 0 .. mu - 2)
\* The sign of the staggered action: -1 for each odd coordinate before mu.
get_stagphase_of_lx(r, i, mu) ==
  Product([nu \in Dirs |-> 1 - 2 * (glb_coord_of_loclx[r][i][nu] % 2)], 0 .. mu - 1)

-----------------------------------------------------------------------------
(***************************************************************************)
(* Even and odd sites, each with an order of its own.                      *)
(***************************************************************************)
Parities == 0 .. 1
loc_volh == loc_vol \div 2

glb_coord_parity(g) == Total(g, Dirs) % 2
loclx_parity == [r \in Ranks |-> [i \in AllLx |-> glb_coord_parity(glb_coord_of_loclx[r][i])]]

\* Sites are numbered within their parity in the order of lx.
OfParity(r, par) == SelectSeq([i \in 1 .. Cardinality(AllLx) |-> i - 1],
                              LAMBDA i : loclx_parity[r][i] = par)
loclx_of_loceo ==
  [r \in Ranks |-> [par \in Parities |->
     LET order == OfParity(r, par) IN [eo \in 0 .. Len(order) - 1 |-> order[eo + 1]]]]
loceo_of_loclx ==
  [r \in Ranks |->
     LET evn[i \in AllLx] == IF i = 0 THEN 0 ELSE evn[i - 1] + (1 - loclx_parity[r][i - 1])
     IN  [i \in AllLx |-> IF loclx_parity[r][i] = 0 THEN evn[i] ELSE i - evn[i]]]

loceo_neigh(r, v, par, eo, mu) == loceo_of_loclx[r][loclx_neigh[r][v][loclx_of_loceo[r][par][eo]][mu]]

\* The surface that fills each cell of the border of a parity.
surfeo_of_bordeo ==
  [r \in Ranks |-> [par \in Parities |->
     [beo \in 0 .. bord_volh - 1 |->
        LET b == CHOOSE c \in Bords : /\ loclx_parity[r][surflx_of_bordlx[r][c]] = par
                                      /\ loceo_of_loclx[r][loc_vol + c] - loc_volh = beo
        IN  loceo_of_loclx[r][surflx_of_bordlx[r][b]]]]]

-----------------------------------------------------------------------------
(***************************************************************************)
(* The Lebesgue order: the digits of the index, in a base made of the       *)
(* factors of the local sides, are dealt to the directions in turn.         *)
(***************************************************************************)
nmax_facts ==
  CHOOSE m \in {Len(factorize(loc_size[mu])) : mu \in Dirs} :
    \A mu \in Dirs : Len(factorize(loc_size[mu])) <= m
\* Shorter lists are filled with ones in front.
Leb_factors ==
  [i \in 0 .. nmax_facts - 1 |-> [mu \in Dirs |->
     LET list == factorize(loc_size[mu])
         first == nmax_facts - Len(list)
     IN  IF i < first THEN 1 ELSE list[i - first + 1]]]

loclx_coord_of_Leblx(Leblx) ==
  LET n == NDIM * nmax_facts
      Dir(i) == NDIM - 1 - (i % NDIM)
      Factor(i) == Leb_factors[i \div NDIM][Dir(i)]
      rest[i \in 0 .. n] == IF i = 0 THEN Leblx ELSE rest[i - 1] \div Factor(i - 1)
      digit(mu, j) == LET i == j * NDIM + (NDIM - 1 - mu) IN rest[i] % Factor(i)
      c[mu \in Dirs, j \in 0 .. nmax_facts] ==
        IF j = nmax_facts THEN 0 ELSE digit(mu, j) + Leb_factors[j][mu] * c[mu, j + 1]
  IN  [mu \in Dirs |-> c[mu, 0]]

\* Borders and edges keep their place.
loclx_of_Leblx ==
  [L \in AllLx |-> IF L < loc_vol THEN loclx_of_coord(loclx_coord_of_Leblx(L)) ELSE L]
Leblx_of_loclx == [i \in AllLx |-> CHOOSE L \in AllLx : loclx_of_Leblx[L] = i]
Leblx_neigh(r, v, L, mu) == Leblx_of_loclx[loclx_neigh[r][v][loclx_of_Leblx[L]][mu]]
surfLeblx_of_bordLeblx(r, b) == Leblx_of_loclx[surflx_of_bordlx[r][b]]
=============================================================================
