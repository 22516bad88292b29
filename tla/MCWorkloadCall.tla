--------------------------- MODULE MCWorkloadCall ---------------------------
(* One invocation with a timeout of no tick (--timeout 0s) to three.        *)
EXTENDS WorkloadCall

SmallTimeouts == 0..3
TwoTicks      == {2}
=============================================================================
