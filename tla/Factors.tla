------------------------------ MODULE Factors ------------------------------
(***************************************************************************)
(* The arithmetic of math_routines.cpp that geometry and grid need.         *)
(***************************************************************************)
EXTENDS Integers, Sequences

\* The prime factors of n, in increasing order.
factorize(n) ==
  LET list[f \in 2 .. n + 1, m \in 1 .. n] ==
        IF m = 1 THEN <<>>
        ELSE IF m % f = 0 THEN <<f>> \o list[f, m \div f]
        ELSE list[f + 1, m]
  IN  list[2, n]

\* The length of the arrays that receive the factors.
log2N(n) == CHOOSE l \in 1 .. n + 1 : /\ l >= 1 /\ 2 ^ (l + 1) >= n
                                      /\ \A k \in 1 .. l - 1 : 2 ^ (k + 1) < n

\* Mutant: each bit is put where it was.
bitrev_same(in, l2n) == in % 2 ^ l2n
\* The first l2n bits in reverse order, and the powers of two in n.
bitrev(in, l2n) ==
  LET rev[i \in 0 .. l2n] ==
        IF i = 0 THEN 0 ELSE rev[i - 1] + ((in \div 2 ^ (i - 1)) % 2) * 2 ^ (l2n - i)
  IN  rev[l2n]
find_max_pow2(n) ==
  LET nl[m \in 1 .. n] == IF m % 2 = 0 THEN 1 + nl[m \div 2] ELSE 0 IN nl[n]
=============================================================================
