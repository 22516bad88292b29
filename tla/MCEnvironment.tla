--------------------------- MODULE MCEnvironment ---------------------------
(* Two CAs: the one on disk and the one that pods may still hold; two agent nodes. *)
EXTENDS Environment, TLC

Interchangeable == Permutations(Cas) \cup Permutations(Nodes)
=============================================================================
