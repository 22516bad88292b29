------------------------------ MODULE Request ------------------------------
(******************************************************************************)
(* What the agent CLI promises of one request to the Workload API, whatever   *)
(* it takes to make it: no connection, no await, no frame.  WorkloadCall is   *)
(* shown to implement it.                                                     *)
(******************************************************************************)
EXTENDS Naturals

VARIABLES
    needsAnswer,  \* a connection alone does not answer it
    limit,        \* the timeout
    elapsed,      \* time spent waiting
    answered,     \* the server's answer has arrived
    fault,        \* the server was down, went away or ended the request
    outcome       \* "none", "ok", "err" or "timedout"

vars == <<needsAnswer, limit, elapsed, answered, fault, outcome>>

Init ==
    /\ needsAnswer \in BOOLEAN /\ limit \in Nat /\ fault \in BOOLEAN
    /\ elapsed = 0 /\ answered = FALSE /\ outcome = "none"

\* Nobody waits once there is an outcome, or longer than twice the limit.
Wait ==
    /\ outcome = "none" /\ elapsed < 2 * limit
    /\ elapsed' = elapsed + 1
    /\ UNCHANGED <<needsAnswer, limit, answered, fault, outcome>>

\* The server answers a request that is waited for, or goes away at any time.
Answer ==
    /\ outcome = "none" /\ needsAnswer
    /\ answered' = TRUE
    /\ UNCHANGED <<needsAnswer, limit, elapsed, fault, outcome>>

Fault ==
    /\ fault' = TRUE
    /\ UNCHANGED <<needsAnswer, limit, elapsed, answered, outcome>>

Justified(o) ==
    \/ o = "ok" /\ (needsAnswer => answered)
    \/ o = "err" /\ fault
    \/ o = "timedout" /\ elapsed >= limit

\* One outcome, and it is final.
Finish ==
    /\ outcome = "none"
    /\ \E o \in {"ok", "err", "timedout"} : Justified(o) /\ outcome' = o
    /\ UNCHANGED <<needsAnswer, limit, elapsed, answered, fault>>

Next == Wait \/ Answer \/ Fault \/ Finish
Spec == Init /\ [][Next]_vars
=============================================================================
