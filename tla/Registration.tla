---------------------------- MODULE Registration ----------------------------
(******************************************************************************)
(* The registration of the sandbox's workloads (registration/deploy.sh and    *)
(* registration/undeploy.sh): runs of the two scripts, at the same time or    *)
(* one after the other, against a SPIRE server that keeps its entries in an   *)
(* emptyDir and so loses them with its pod.                                   *)
(*                                                                            *)
(* Every script reads the name of the server's pod once and passes it to all  *)
(* its `kubectl exec`s.  An exec on a pod that is gone fails; any other exec  *)
(* may fail before or after the server did the work.                          *)
(******************************************************************************)
EXTENDS Naturals, Sequences

CONSTANTS
    Runs,        \* terminals that run the scripts
    Workloads,   \* the lines of WORKLOADS, in order: SPIFFE IDs
    Alias,       \* NODE_ALIAS_ID, the parent of every workload entry
    Pods,        \* names the server's pod may get; bound: how often it is replaced
    NoPod        \* no pod runs

Ids == {Workloads[i] : i \in DOMAIN Workloads}

ASSUME WorkloadsAssumption ==
    /\ Workloads \in Seq(Ids)
    /\ \A i, j \in DOMAIN Workloads : Workloads[i] = Workloads[j] => i = j
    /\ Alias \notin Ids
    /\ NoPod \notin Pods

VARIABLES
    entries,   \* the SPIFFE IDs with an entry on the server
    pod,       \* the server's pod
    gone,      \* the pods there were
    script,    \* per run: "deploy" or "undeploy"
    pc,        \* per run: where it is
    target,    \* per run: SPIRE_SERVER_POD
    line,      \* per run: the line of WORKLOADS it is at
    count,     \* per run: REGISTRATION_COUNT
    refused,   \* history: the runs that could not create the alias
    failed,    \* history: the runs one of whose execs failed
    crossed    \* history: the runs beside which the other script ran

server  == <<entries, pod, gone>>
history == <<refused, failed, crossed>>
vars    == <<entries, pod, gone, script, pc, target, line, count, refused, failed, crossed>>

Running == {"alias", "newalias", "entry", "newentry", "find", "delete"}
Ended   == {"done", "aborted", "killed"}

TypeOK ==
    /\ entries \subseteq Ids \cup {Alias}
    /\ pod \in Pods \cup {NoPod}
    /\ gone \subseteq Pods
    /\ script \in [Runs -> {"deploy", "undeploy"}]
    /\ pc \in [Runs -> Running \cup Ended]
    /\ target \in [Runs -> Pods \cup {NoPod}]
    /\ line \in [Runs -> 1..Len(Workloads) + 1]
    /\ count \in [Runs -> Nat] /\ \A r \in Runs : count[r] < line[r]
    /\ refused \subseteq Runs /\ failed \subseteq Runs /\ crossed \subseteq Runs

Init ==
    /\ entries = {}
    /\ pod \in Pods
    /\ gone = {}
    /\ script = [r \in Runs |-> "deploy"]
    /\ pc = [r \in Runs |-> "done"]
    /\ target = [r \in Runs |-> NoPod]
    /\ line = [r \in Runs |-> 1]
    /\ count = [r \in Runs |-> 0]
    /\ refused = {} /\ failed = {} /\ crossed = {}

Goto(r, label) == pc' = [pc EXCEPT ![r] = label]

\* `entry show` over an exec that answers or not.
Reaches(r) == target[r] # NoPod /\ target[r] = pod
Shows(r, id, ok) == ok /\ Reaches(r) /\ id \in entries
Noted(r, ok) == failed' = IF ok /\ Reaches(r) THEN failed ELSE failed \cup {r}

-----------------------------------------------------------------------------
(* Both scripts *)

\* A script starts, unless no server pod runs: deploy exits 1, undeploy is done.
Begin(r, s) ==
    LET others == {q \in Runs \ {r} : pc[q] \in Running /\ script[q] # s} IN
    /\ pc[r] \in Ended
    /\ script' = [script EXCEPT ![r] = s]
    /\ target' = [target EXCEPT ![r] = pod]
    /\ line' = [line EXCEPT ![r] = 1]
    /\ count' = [count EXCEPT ![r] = 0]
    /\ refused' = refused \ {r} /\ failed' = failed \ {r}
    /\ IF pod = NoPod
       THEN /\ Goto(r, IF s = "deploy" THEN "aborted" ELSE "done")
            /\ crossed' = crossed \ {r}
       ELSE /\ Goto(r, IF s = "deploy" THEN "alias" ELSE "find")
            /\ crossed' = IF others = {} THEN crossed \ {r} ELSE crossed \cup others \cup {r}
    /\ UNCHANGED server

\* Ctrl-C, or the terminal goes away.
Interrupt(r) ==
    /\ pc[r] \in Running
    /\ Goto(r, "killed")
    /\ UNCHANGED <<server, script, target, line, count, history>>

-----------------------------------------------------------------------------
(* deploy.sh *)

\* ensure_node_alias asks first; a failing exec reads as "not there".
CheckAlias(r) ==
    /\ pc[r] = "alias"
    /\ \E ok \in BOOLEAN :
          /\ Goto(r, IF Shows(r, Alias, ok) THEN "entry" ELSE "newalias")
          /\ Noted(r, ok)
    /\ UNCHANGED <<server, script, target, line, count, refused, crossed>>

\* What an `entry create` leaves on the server; it reports success only if the
\* exec does and the entry is new.
Create(r, id, made) == entries' = IF made /\ Reaches(r) THEN entries \cup {id} ELSE entries
Created(r, id, ok)  == ok /\ Reaches(r) /\ id \notin entries

\* A plausible change: continue, as the warning says.
BugContinues(r) == "entry"

\* `return 1` under `set -e` ends the script.
AfterRefusal(r) == "aborted"

MakeAlias(r) ==
    /\ pc[r] = "newalias"
    /\ \E ok, made \in BOOLEAN :
          /\ ok => made
          /\ Create(r, Alias, made)
          /\ Goto(r, IF Created(r, Alias, ok) THEN "entry" ELSE AfterRefusal(r))
          /\ refused' = IF Created(r, Alias, ok) THEN refused ELSE refused \cup {r}
          /\ Noted(r, ok)
    /\ UNCHANGED <<pod, gone, script, target, line, count, crossed>>

\* Plausible slips: a line that is there already is read again; a failure counts.
BugSameLine(r) == line[r]
BugCountsAll(r, ok) == count[r] + 1

NextLine(r) == line[r] + 1

CheckEntry(r) ==
    /\ pc[r] = "entry" /\ line[r] <= Len(Workloads)
    /\ \E ok \in BOOLEAN :
          /\ IF Shows(r, Workloads[line[r]], ok)
             THEN /\ count' = [count EXCEPT ![r] = @ + 1]
                  /\ line' = [line EXCEPT ![r] = NextLine(r)]
                  /\ UNCHANGED pc
             ELSE Goto(r, "newentry") /\ UNCHANGED <<count, line>>
          /\ Noted(r, ok)
    /\ UNCHANGED <<server, script, target, refused, crossed>>

\* register_entry's result decides the count, never the loop.
Counted(r, ok) == IF Created(r, Workloads[line[r]], ok) THEN count[r] + 1 ELSE count[r]

MakeEntry(r) ==
    /\ pc[r] = "newentry"
    /\ \E ok, made \in BOOLEAN :
          /\ ok => made
          /\ Create(r, Workloads[line[r]], made)
          /\ count' = [count EXCEPT ![r] = Counted(r, ok)]
          /\ Noted(r, ok)
    /\ line' = [line EXCEPT ![r] = @ + 1]
    /\ Goto(r, "entry")
    /\ UNCHANGED <<pod, gone, script, target, refused, crossed>>

-----------------------------------------------------------------------------
(* undeploy.sh *)

\* A plausible slip: without `|| echo ""` a line with no entry ends the loop.
BugStopsAtMissing(r) == Len(Workloads) + 1
AfterMissing(r) == line[r] + 1

FindEntry(r) ==
    /\ pc[r] = "find" /\ line[r] <= Len(Workloads)
    /\ \E ok \in BOOLEAN :
          /\ IF Shows(r, Workloads[line[r]], ok)
             THEN Goto(r, "delete") /\ UNCHANGED line
             ELSE line' = [line EXCEPT ![r] = AfterMissing(r)] /\ UNCHANGED pc
          /\ Noted(r, ok)
    /\ UNCHANGED <<server, script, target, count, refused, crossed>>

\* `entry delete ... || true`; the alias stays.
DeleteEntry(r) ==
    /\ pc[r] = "delete"
    /\ \E ok, made \in BOOLEAN :
          /\ ok => made
          /\ entries' = IF made /\ Reaches(r) THEN entries \ {Workloads[line[r]]} ELSE entries
          /\ Noted(r, ok)
    /\ line' = [line EXCEPT ![r] = @ + 1]
    /\ Goto(r, "find")
    /\ UNCHANGED <<pod, gone, script, target, count, refused, crossed>>

\* The end of the loop of either script: the listing may fail, the script does not.
Finish(r) ==
    /\ pc[r] \in {"entry", "find"} /\ line[r] > Len(Workloads)
    /\ Goto(r, "done")
    /\ UNCHANGED <<server, script, target, line, count, history>>

-----------------------------------------------------------------------------
(* The server, and the specification *)

\* The pod is deleted or evicted, and with it the emptyDir.
LosePod ==
    /\ pod # NoPod
    /\ gone' = gone \cup {pod} /\ pod' = NoPod /\ entries' = {}
    /\ UNCHANGED <<script, pc, target, line, count, history>>

NewPod ==
    /\ pod = NoPod
    /\ pod' \in Pods \ gone
    /\ UNCHANGED <<entries, gone, script, pc, target, line, count, history>>

Run(r) ==
    \/ \E s \in {"deploy", "undeploy"} : Begin(r, s)
    \/ Interrupt(r)
    \/ CheckAlias(r) \/ MakeAlias(r) \/ CheckEntry(r) \/ MakeEntry(r)
    \/ FindEntry(r) \/ DeleteEntry(r)
    \/ Finish(r)

Next == (\E r \in Runs : Run(r)) \/ LosePod \/ NewPod

Spec == Init /\ [][Next]_vars

-----------------------------------------------------------------------------
(* Properties *)

\* No workload entry without its parent: whatever runs overlap, fail or are cut
\* off, and however often the server loses its entries, a workload entry is there
\* only beside the node alias (deploy.sh 91-94, 111; undeploy.sh 63-65).
ParentsExist == entries \cap Ids # {} => Alias \in entries

\* The lines a run has passed whose entry is there.
Present(r) == {i \in 1..line[r] - 1 : Workloads[i] \in entries}

\* The count a deploy reports is of entries that are there: unless an undeploy ran
\* beside it or the pod was replaced, a full count means that every workload is
\* registered, rival deploys and lost answers included (deploy.sh 127-147).
CountIsHonest ==
    \A r \in Runs :
        /\ script[r] = "deploy" /\ pc[r] \in Running
        /\ Reaches(r) /\ r \notin crossed
        /\ count[r] = line[r] - 1
        => Present(r) = 1..line[r] - 1

\* An undeploy whose execs all answered, and that met no deploy, leaves none of the
\* entries of the lines it has passed (undeploy.sh 32-61).
UndeployClears ==
    \A r \in Runs :
        /\ script[r] = "undeploy" /\ pc[r] \in Running
        /\ r \notin failed /\ r \notin crossed
        => Present(r) = {}

\* What deploy.sh 63 says ("Failed to create node alias, but continuing..."): a
\* run whose alias could not be created goes on.
RefusedAliasContinues ==
    \A r \in refused : pc[r] # "aborted"
=============================================================================
