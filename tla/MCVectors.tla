----------------------------- MODULE MCVectors -----------------------------
(***************************************************************************)
(* Two threads, three slots and three addresses, and programs of a few     *)
(* operations.                                                             *)
(***************************************************************************)
EXTENDS Vectors, TLC

MCThreads == 0 .. 1
MCSizes == 1 .. 2
Symmetry == Permutations(Addrs) \cup Permutations(Slots)
=============================================================================
