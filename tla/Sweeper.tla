------------------------------ MODULE Sweeper -------------------------------
(***************************************************************************)
(* The tables of gauge_sweeper_t: in which order the links of a             *)
(* configuration are updated, and which links the staples of each need.     *)
(*                                                                         *)
(* The local lattice is cut into two boxes per direction.  The links of a   *)
(* box are taken by direction and by a parity that depends on the action;   *)
(* those of one box, direction and parity, a class here, are updated by all  *)
(* threads together.  A link of the lattice is a number, NDIM per site.     *)
(***************************************************************************)
EXTENDS Lattice, Links

CONSTANT action       \* "Wilson" or "Symanzik"
SweeperAssumption == action \in {"Wilson", "Symanzik"}

-----------------------------------------------------------------------------
(***************************************************************************)
(* Boxes and classes.                                                      *)
(***************************************************************************)
NBoxes == 2 ^ NDIM
Boxes == 0 .. NBoxes - 1
box_coord(b) == coord_of_lx(b, [mu \in Dirs |-> 2])
box_size(b) ==
  [mu \in Dirs |-> IF box_coord(b)[mu] = 0 THEN loc_size[mu] \div 2
                   ELSE loc_size[mu] - loc_size[mu] \div 2]
\* Where a box starts is told by the size of the first one.
box_site(b, isub) ==
  [mu \in Dirs |-> (loc_size[mu] \div 2) * box_coord(b)[mu] + coord_of_lx(isub, box_size(b))[mu]]

gpar == IF action = "Wilson" THEN 2 ELSE 4
Wilson_par(x) == Total(x, Dirs) % 2
\* Mutant: the direction of the link does not count twice.
Symanzik_par_flat(x, dir) == Total(x, Dirs) % NDIM
Symanzik_par(x, dir) == (Total(x, Dirs) + x[dir]) % NDIM
par_comp(x, dir) == IF action = "Wilson" THEN Wilson_par(x) ELSE Symanzik_par(x, dir)

ClassesPerBox == NDIM * gpar
NClasses == NBoxes * ClassesPerBox
ClassOf(b, dir, par) == par + gpar * (dir + NDIM * b)

\* Local sites of a class, in the order of the box (init_box_dir_par_geometry).
SitesOfClass ==
  [c \in 0 .. NClasses - 1 |->
     LET b == c \div ClassesPerBox
         dir == (c \div gpar) % NDIM
         sites == [n \in 1 .. Product(box_size(b), Dirs) |-> box_site(b, n - 1)]
     IN  SelectSeq(sites, LAMBDA x : par_comp(x, dir) = c % gpar)]

-----------------------------------------------------------------------------
(***************************************************************************)
(* The links of the staples of a link that starts from A in direction mu,   *)
(* in the plane with nu (the drawing is the one of the code, mu upwards).    *)
(*                                                                         *)
(*                          P---O---N                                       *)
(*                          |   |   |                                       *)
(*                      H---G---F---E---D                                   *)
(*                      |   |   |   |   |                                   *)
(*                      I---J---A---B---C                                   *)
(*                          |   |   |                                       *)
(*                          K---L---M                                       *)
(***************************************************************************)
Shift ==
  [A |-> <<0, 0>>, B |-> <<0, 1>>, C |-> <<0, 2>>, E |-> <<1, 1>>, F |-> <<1, 0>>,
   G |-> <<1, -1>>, H |-> <<1, -2>>, I |-> <<0, -2>>, J |-> <<0, -1>>, K |-> <<-1, -1>>,
   L |-> <<-1, 0>>, M |-> <<-1, 1>>, O |-> <<2, 0>>, P |-> <<2, -1>>]
Along(p) == [at |-> p, up |-> TRUE]
Across(p) == [at |-> p, up |-> FALSE]

SquareLinks ==
  <<Across("J"), Along("J"), Across("G"), Across("A"), Along("B"), Across("F")>>
RectangleLinks ==
  <<Across("K"), Along("K"), Along("J"), Across("G"),
    Across("J"), Across("I"), Along("I"), Across("H"), Across("G"),
    Along("G"), Across("P"),
    Across("L"), Along("M"), Along("B"), Across("F"),
    Across("A"), Across("B"), Along("C"), Across("E"), Across("F"),
    Along("E"), Across("O")>>
CommonLinks == <<Along("F"), Along("L")>>

PlaneLinks == IF action = "Wilson" THEN SquareLinks ELSE SquareLinks \o RectangleLinks
perp_dir(mu) == [n \in 1 .. NDIM - 1 |-> IF n - 1 < mu THEN n - 1 ELSE n]

LinkId(gx, mu) == NDIM * gx + mu
LinkAt(A, mu, nu, l) ==
  LET s == Shift[l.at]
      x == [A EXCEPT ![mu] = (@ + s[1]) % glb_size[mu], ![nu] = (@ + s[2]) % glb_size[nu]]
  IN  LinkId(glblx_of_coord(x), IF l.up THEN mu ELSE nu)

\* What add_Wilson_staples and add_Symanzik_staples ask for, in order.
ilink_per_staples(A, mu) ==
  LET n == Len(PlaneLinks)
      common == IF action = "Wilson" THEN <<>> ELSE CommonLinks
  IN  [i \in 1 .. (NDIM - 1) * n + Len(common) |->
         IF i <= (NDIM - 1) * n
         THEN LinkAt(A, mu, perp_dir(mu)[(i - 1) \div n + 1], PlaneLinks[((i - 1) % n) + 1])
         ELSE LinkAt(A, mu, perp_dir(mu)[1], common[i - (NDIM - 1) * n])]

\* The products compute_Wilson_staples and compute_Symanzik_staples make of the
\* links of a plane, by their places; those with a minus are daggered.
SquareTerms == {<<-1, 2, 3>>, <<4, 5, -6>>}
RectangleTerms == {<<-11, -12, 13, 14, 15>>, <<22, 23, 24, -25, -26>>}
\* Those still without the common link, above and below.
UpTerms == {<<-1, 2, 16, 17>>, <<4, 5, 27, -28>>}
DownTerms == {<<-7, 8, 9, 10>>, <<18, 19, 20, -21>>}

Times(links, term) ==
  LET Factor(k) == LET l == links[IF k < 0 THEN -k ELSE k]
                       u == link(l \div NDIM, l % NDIM)
                   IN  IF k < 0 THEN su3_dag(u) ELSE u
      w[k \in 0 .. Len(term)] == IF k = 0 THEN id ELSE su3_prod(w[k - 1], Factor(term[k]))
  IN  w[Len(term)]

\* A sum of matrices is the set of its terms.
compute_staples(ilinks) ==
  LET n == Len(PlaneLinks)
      Plane(i) == SubSeq(ilinks, n * i + 1, n * i + n)
      Sum(terms) == {Times(Plane(i), t) : i \in 0 .. NDIM - 2, t \in terms}
      Common(k) == LET l == ilinks[(NDIM - 1) * n + k] IN link(l \div NDIM, l % NDIM)
  IN  [squares |-> Sum(SquareTerms),
       rectangles |->
         IF action = "Wilson" THEN {}
         ELSE Sum(RectangleTerms)
                \union {su3_prod(w, su3_dag(Common(1))) : w \in Sum(UpTerms)}
                \union {su3_prod(su3_dag(Common(2)), w) : w \in Sum(DownTerms)}]

-----------------------------------------------------------------------------
(***************************************************************************)
(* The lists of all ranks.                                                 *)
(***************************************************************************)
OwnLink(r, x, mu) ==
  LinkId(glblx_of_coord([nu \in Dirs |-> x[nu] + rank_coord[r][nu] * loc_size[nu]]), mu)
LinksOfClass(r, c) ==
  LET sites == SitesOfClass[c] IN [n \in 1 .. Len(sites) |-> OwnLink(r, sites[n], (c \div gpar) % NDIM)]

AllLinks == 0 .. NDIM * glb_vol - 1
Owner(l) == RankHosting(glb_coord_of_glblx(l \div NDIM))
Needs(l) == Range(ilink_per_staples(glb_coord_of_glblx(l \div NDIM), l % NDIM))

\* The class each link is found in (check_hit_exactly_once: one and no more).
ClassOfLink(classes, owner) ==
  [l \in AllLinks |-> CHOOSE c \in 0 .. NClasses - 1 : l \in Range(classes[owner[l]][c])]
HitExactlyOnce(classes) ==
  \A r \in Ranks :
    LET n[c \in 0 .. NClasses] == IF c = 0 THEN 0 ELSE n[c - 1] + Len(classes[r][c - 1])
    IN  /\ n[NClasses] = NDIM * loc_vol
        /\ Cardinality(UNION {Range(classes[r][c]) : c \in 0 .. NClasses - 1}) = NDIM * loc_vol
\* check_hit_in_the_exact_order: no local link of a class is in a staple of another.
HitInOrder(classes, needs) ==
  \A r \in Ranks, c \in 0 .. NClasses - 1 :
    LET links == Range(classes[r][c]) IN \A l \in links : needs[l] \intersect links = {}

\* What a rank asks of others before a box (add_staples_required_links); that
\* it gets to its place is shown in AllToAll.
GatheredLinks(classes, needs, owner) ==
  LET Box(b) == ClassesPerBox * b .. ClassesPerBox * (b + 1) - 1
      Asked(r, b) == UNION {UNION {needs[l] : l \in Range(classes[r][c])} : c \in Box(b)}
  IN  [r \in Ranks |-> [b \in Boxes |-> {l \in Asked(r, b) : owner[l] # r}]]

\* What init_Wilson_sweeper, init_Symanzik_sweeper and init_staples refuse.
MinimalSide == IF action = "Wilson" THEN 2 ELSE 4
Refused(classes, needs, lists) ==
  \/ \E mu \in Dirs : loc_size[mu] < MinimalSide
  \/ \E r \in Ranks, b \in Boxes : Cardinality(lists[r][b]) > bord_vol + edge_vol
  \/ ~HitExactlyOnce(classes)
  \/ ~HitInOrder(classes, needs)

\* With the number of threads and, as a bound, of sweeps.
Tables(threads, sweeps) ==
  LET classes == [r \in Ranks |-> [c \in 0 .. NClasses - 1 |-> LinksOfClass(r, c)]]
      needs == [l \in AllLinks |-> Needs(l)]
      owner == [l \in AllLinks |-> Owner(l)]
      lists == GatheredLinks(classes, needs, owner)
  IN  [nthreads |-> threads, nsweeps |-> sweeps,
       ranks |-> Ranks, classes |-> classes, nclasses |-> NClasses, per_box |-> ClassesPerBox,
       needs |-> needs, owner |-> owner, class |-> ClassOfLink(classes, owner),
       gathered |-> lists, refused |-> Refused(classes, needs, lists)]

-----------------------------------------------------------------------------
(***************************************************************************)
(* What the staples should be: the loops of the action that go through the  *)
(* link, without it.                                                       *)
(***************************************************************************)
Walk(x, steps) ==
  LET at[k \in 0 .. Len(steps)] ==
        IF k = 0 THEN x
        ELSE [at[k - 1] EXCEPT ![steps[k][1]] = (@ + steps[k][2]) % glb_size[steps[k][1]]]
      Crossed(k) == LET mu == steps[k][1] IN
                    IF steps[k][2] = 1 THEN link(glblx_of_coord(at[k - 1]), mu)
                    ELSE su3_dag(link(glblx_of_coord(at[k]), mu))
      w[k \in 0 .. Len(steps)] == IF k = 0 THEN id ELSE su3_prod(w[k - 1], Crossed(k))
  IN  w[Len(steps)]
Sides(mu) == {<<nu, s>> : nu \in Dirs \ {mu}, s \in {-1, 1}}
Back(d) == <<d[1], -d[2]>>
StaplesThrough(x, mu) ==
  LET u == <<mu, 1>>
      d == <<mu, -1>>
  IN  [squares |-> {Walk(x, <<n, u, Back(n)>>) : n \in Sides(mu)},
       rectangles |->
         IF action = "Wilson" THEN {}
         ELSE UNION {{Walk(x, <<n, n, u, Back(n), Back(n)>>), Walk(x, <<n, u, u, Back(n), d>>),
                      Walk(x, <<d, n, u, u, Back(n)>>)} : n \in Sides(mu)}]
StaplesOfLoops(sites) ==
  \A x \in sites, mu \in Dirs :
    compute_staples(ilink_per_staples(x, mu)) = StaplesThrough(x, mu)
=============================================================================
