------------------------------- MODULE Remap -------------------------------
(***************************************************************************)
(* The lists of elements that are exchanged: vectors in which one direction *)
(* is whole on each rank (remap_vector.cpp, for the Fourier transform), and *)
(* the links around a box (add_conf_link_for_paths).                       *)
(***************************************************************************)
EXTENDS Lattice, SequencesExt

\* The sites of the lattice without direction mu, in order, are dealt to the
\* ranks as many at a time; the last ranks get fewer.  On ranks that get none
\* the number may be negative.
prp_vol(mu) == glb_vol \div glb_size[mu]
max_locd_perp_size_per_dir(mu) == (prp_vol(mu) + nranks - 1) \div nranks
locd_size_per_dir(r, mu) ==
  LET left == prp_vol(mu) - max_locd_perp_size_per_dir(mu) * r
  IN  glb_size[mu] * IF left < max_locd_perp_size_per_dir(mu) THEN left ELSE max_locd_perp_size_per_dir(mu)
Locd(r, mu) == 0 .. locd_size_per_dir(r, mu) - 1

glb_coord(r, i) ==
  [mu \in Dirs |-> coord_of_lx(i, loc_size)[mu] + rank_coord[r][mu] * loc_size[mu]]

index_make_loc_dir(r, i, mu) ==
  LET g == glb_coord(r, i)
      glb_perp_site == LxOn(Dirs \ {mu}, g, glb_size)
      max == max_locd_perp_size_per_dir(mu)
  IN  [rank |-> glb_perp_site \div max, loc |-> i,
       dest |-> (glb_perp_site % max) * glb_size[mu] + g[mu]]

locd_coord(r, i, mu) ==
  LET rest[nu \in 0 .. NDIM] ==
        IF nu = NDIM THEN (i \div glb_size[mu]) + r * max_locd_perp_size_per_dir(mu)
        ELSE IF nu = mu THEN rest[nu + 1] ELSE rest[nu + 1] \div glb_size[nu]
  IN  [nu \in Dirs |-> IF nu = mu THEN i % glb_size[mu] ELSE rest[nu + 1] % glb_size[nu]]
index_unmake_loc_dir(r, i, mu) ==
  LET g == locd_coord(r, i, mu) IN [rank |-> RankHosting(g), loc |-> i, dest |-> LocHosting(g)]

\* vector_remap_t: all elements of the rank, in order.
remap_lx_to_locd(mu) ==
  [kind |-> "scatter",
   list |-> [r \in Ranks |-> [i \in 1 .. loc_vol |-> index_make_loc_dir(r, i - 1, mu)]]]
remap_locd_to_lx(mu) ==
  [kind |-> "scatter",
   list |-> [r \in Ranks |-> [i \in 1 .. Cardinality(Locd(r, mu)) |-> index_unmake_loc_dir(r, i - 1, mu)]]]

\* add_conf_link_for_paths: where the rank finds a link, its own or gathered;
\* asked for again, a link is at the place it got the first time.
AddLink(r, gat, g, mu) ==
  LET ask == [rank |-> RankHosting(g), loc |-> NDIM * LocHosting(g) + mu,
              dest |-> NDIM * loc_vol + Len(gat)]
      known == {e \in Range(gat) : e.rank = ask.rank /\ e.loc = ask.loc}
  IN  IF ask.rank = r THEN [gat |-> gat, place |-> ask.loc]
      ELSE IF known # {} THEN [gat |-> gat, place |-> (CHOOSE e \in known : TRUE).dest]
      ELSE [gat |-> Append(gat, ask), place |-> ask.dest]

\* The list and the places of the links that are asked for, in turn.
Asked(r, links) ==
  FoldLeft(LAMBDA done, l :
             LET added == AddLink(r, done.gat, l.g, l.mu)
             IN  [gat |-> added.gat, places |-> Append(done.places, added.place)],
           [gat |-> <<>>, places |-> <<>>], links)

\* A std::map: in order of the key.
Sorted(gat) == SortSeq(gat, LAMBDA a, b : a.loc * nranks + a.rank < b.loc * nranks + b.rank)
gathering_list(links) ==
  [kind |-> "gather", list |-> [r \in Ranks |-> Sorted(Asked(r, links[r]).gat)]]
=============================================================================
