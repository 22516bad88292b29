--------------------------- MODULE MCGenerateCerts ---------------------------
(* The script run over and over with a handful of keys.                     *)
EXTENDS GenerateCerts, TLC

\* openssl's keys differ in nothing but their identity.
KeySymmetry == Permutations(Keys)
=============================================================================
