------------------------------- MODULE Publish -------------------------------
(******************************************************************************)
(* What `api fetch x509 --write DIR` promises of the sets of files in DIR,    *)
(* whatever it takes to write one: no file, no open, no truncation, no mode.  *)
(* FetchX509 is shown to implement it.                                        *)
(*                                                                            *)
(* An index holds the whole set of one owner, or of nobody: there is none, or *)
(* its files are not all of one response.                                     *)
(******************************************************************************)
EXTENDS Naturals

CONSTANTS Procs, Before, MaxSvids   \* as in FetchX509

VARIABLES
    whole,  \* per index: the owner of the whole set there, {} if there is none
    place,  \* per invocation: "idle", "busy", "ok" or "failed"
    todo,   \* per invocation: the indices it has yet to publish
    rival   \* the invocations that were busy while another was

vars == <<whole, place, todo, rival>>

Indices == 1..MaxSvids

Init ==
    /\ \E prior \in 0..MaxSvids :
          whole = [i \in Indices |-> IF i <= prior THEN {Before} ELSE {}]
    /\ place = [p \in Procs |-> "idle"]
    /\ todo = [p \in Procs |-> {}]
    /\ rival = {}

\* It fails before its first file, or has nothing to write.
Decline(p) ==
    /\ place[p] = "idle"
    /\ \E s \in {"ok", "failed"} : place' = [place EXCEPT ![p] = s]
    /\ UNCHANGED <<whole, todo, rival>>

Begin(p) ==
    LET others == {q \in Procs \ {p} : place[q] = "busy"} IN
    /\ place[p] = "idle"
    /\ place' = [place EXCEPT ![p] = "busy"]
    /\ \E n \in Indices : todo' = [todo EXCEPT ![p] = 1..n]
    /\ rival' = IF others = {} THEN rival ELSE rival \cup others \cup {p}
    /\ UNCHANGED whole

\* It publishes in order.
Current(p) == CHOOSE i \in todo[p] : \A j \in todo[p] : i <= j

\* The current set stays, is spoiled, or by chance is again that of an invocation which
\* was once busy; what was there before any of them never comes back.
Touch(p) ==
    LET c == Current(p) IN
    \E w \in {whole[c], {}} \cup {{q} : q \in {r \in Procs : place[r] # "idle"}} :
       whole' = [whole EXCEPT ![c] = w]

Spoil(p) ==
    /\ place[p] = "busy"
    /\ UNCHANGED <<place, todo, rival>>
    /\ Touch(p)

\* The current set is done, and it is its own unless it met a rival.
Complete(p) ==
    /\ place[p] = "busy"
    /\ todo' = [todo EXCEPT ![p] = @ \ {Current(p)}]
    /\ place' = [place EXCEPT ![p] = IF todo'[p] = {} THEN "ok" ELSE "busy"]
    /\ UNCHANGED rival
    /\ Touch(p)
    /\ p \notin rival => whole'[Current(p)] = {p}

\* A failure or a kill, at most in the middle of the current set.
Stop(p) ==
    /\ place[p] = "busy"
    /\ place' = [place EXCEPT ![p] = "failed"]
    /\ UNCHANGED <<todo, rival>>
    /\ Touch(p)

Next == \E p \in Procs : Decline(p) \/ Begin(p) \/ Spoil(p) \/ Complete(p) \/ Stop(p)
Spec == Init /\ [][Next]_vars

OwnsAll(p) ==
    (place[p] = "busy" /\ place'[p] = "ok" /\ p \notin rival) =>
        \A i \in 1..Current(p) : whole'[i] = {p}

StaysGone(i) == Before \notin whole[i] => Before \notin whole'[i]

\* An invocation that met no rival and ends with code 0 leaves every index up to its
\* last one with its own whole set, as write_svids promises (fetch_x509.rs 81-106).
AlonePublishesAll == [][\A p \in Procs : OwnsAll(p)]_vars

\* A set that was there before any invocation and was opened by one is gone for good:
\* no failure, kill or rival restores it (fetch_x509.rs 134-143).
PriorIsGone == [][\A i \in Indices : StaysGone(i)]_vars
=============================================================================
