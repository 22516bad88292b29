--------------------------- MODULE MCRegistration ---------------------------
(* Values of the constants of Registration for TLC. *)
EXTENDS Registration, TLC

CONSTANTS w1, w2, w3

\* As many as the scripts list.
ThreeWorkloads == <<w1, w2, w3>>

\* Runs are interchangeable, and so are the names of pods.
Interchangeable == Permutations(Runs) \cup Permutations(Pods)
=============================================================================
