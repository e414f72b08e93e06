------------------------------ MODULE Fourier -------------------------------
(***************************************************************************)
(* What a Fourier transform is.  Numbers are integers modulo a prime, in     *)
(* which Powers are those of a primitive root: exp(2 pi i a/n) is one of      *)
(* order n.                                                                *)
(***************************************************************************)
EXTENDS Lattice

CONSTANTS Prime, Powers

FourierAssumption ==
  /\ Prime \in Nat \ {0, 1}
  /\ DOMAIN Powers = 0 .. Prime - 2 /\ {Powers[e] : e \in DOMAIN Powers} = 1 .. Prime - 1
  /\ \A e \in DOMAIN Powers : Powers[(e + 1) % (Prime - 1)] = (Powers[e] * Powers[1]) % Prime
  /\ \A mu \in Dirs : (Prime - 1) % glb_size[mu] = 0

Root(a, n) == Powers[(a * ((Prime - 1) \div n)) % (Prime - 1)]
OneOver(n) == CHOOSE x \in 1 .. Prime - 1 : (x * n) % Prime = 1

\* The transform of a vector on the whole lattice in one direction, and in several.
DftIn(v, d, sign, normalize) ==
  LET n == glb_size[d]
  IN  [gx \in 0 .. glb_vol - 1 |->
         LET g == glb_coord_of_glblx(gx)
             sum[x \in 0 .. n] ==
               IF x = 0 THEN 0
               ELSE sum[x - 1] + Root(sign * (x - 1) * g[d], n) * v[glblx_of_coord([g EXCEPT ![d] = x - 1])]
         IN  (sum[n] * IF normalize THEN OneOver(n) ELSE 1) % Prime]
Dft(v, call) ==
  LET after[d \in 0 .. NDIM] ==
        IF d = 0 THEN v
        ELSE IF d - 1 \in call.dirs THEN DftIn(after[d - 1], d - 1, call.sign, call.normalize)
        ELSE after[d - 1]
  IN  after[NDIM]

\* What each rank has of a vector.
Parts(v) ==
  [r \in Ranks |-> [i \in Local |->
     LET x == coord_of_lx(i, loc_size)
     IN  v[glblx_of_coord([n \in Dirs |-> x[n] + rank_coord[r][n] * loc_size[n]])]]]
=============================================================================
