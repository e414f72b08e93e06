------------------------------- MODULE Links --------------------------------
(***************************************************************************)
(* Products of the links of a gauge configuration.  Nothing is known of a    *)
(* link but that it is unitary: matrices are the words of the free group on  *)
(* the links, in which a link next to its hermitian conjugate cancels.       *)
(***************************************************************************)
EXTENDS Integers, Sequences, SequencesExt, FiniteSetsExt

\* The link that starts from a site (given by its coordinates) in a direction.
link(x, mu) == <<[from |-> x, dir |-> mu, dag |-> FALSE]>>
id == <<>>

Conjugate(l) == [l EXCEPT !.dag = ~@]
su3_dag(a) == [k \in 1 .. Len(a) |-> Conjugate(a[Len(a) + 1 - k])]

\* How many links cancel where a meets b.
Cancelling(a, b) ==
  Max({k \in 0 .. Min({Len(a), Len(b)}) :
         \A j \in 1 .. k : a[Len(a) + 1 - j] = Conjugate(b[j])})
su3_prod(a, b) ==
  LET k == Cancelling(a, b) IN SubSeq(a, 1, Len(a) - k) \o SubSeq(b, k + 1, Len(b))
su3_prod_dag(a, b) == su3_prod(a, su3_dag(b))
=============================================================================
