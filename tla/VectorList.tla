----------------------------- MODULE VectorList -----------------------------
(***************************************************************************)
(* What the manager of vectors promises: the vectors in the order of their *)
(* allocation, any of which may go, and the memory they take together.     *)
(***************************************************************************)
EXTENDS Integers, Sequences, SequencesExt

CONSTANTS Addrs, Sizes

VARIABLES vectors, memory

Init == vectors = <<>> /\ memory = 0

Allocate ==
  \E a \in Addrs \ {vectors[i].addr : i \in DOMAIN vectors}, n \in Sizes :
    /\ vectors' = Append(vectors, [addr |-> a, size |-> n])
    /\ memory' = memory + n

Release ==
  \E i \in DOMAIN vectors :
    /\ vectors' = RemoveAt(vectors, i)
    /\ memory' = memory - vectors[i].size

Next == Allocate \/ Release

Spec == Init /\ [][Next]_<<vectors, memory>>
=============================================================================
