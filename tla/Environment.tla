---------------------------- MODULE Environment ----------------------------
(******************************************************************************)
(* The sandbox as the Makefile drives it: certificates on disk, a kind        *)
(* cluster and its kubeconfig, the Secrets made from the certificates, and    *)
(* the SPIRE server and agent pods that load them (Makefile, cluster-up.sh,   *)
(* spire-server/ and spire-agent/ deploy.sh and undeploy.sh).                 *)
(*                                                                            *)
(* One make runs at a time.  A recipe is the sequence of its steps that change*)
(* one of these things or can stop; make stops at the first that fails, and   *)
(* Ctrl-C or a failed call may cut it short at any.  Certificates are complete*)
(* sets, named by their CA (GenerateCerts has the incomplete ones).           *)
(******************************************************************************)
EXTENDS Naturals, Sequences, FiniteSets

CONSTANTS
    Cas,     \* certificate authorities
    None,    \* no certificates, no Secret, no pod
    Nodes,   \* nodes of the cluster: one agent pod each
    Polls    \* timeout / interval of the readiness wait

ASSUME EnvironmentAssumption == None \notin Cas /\ IsFiniteSet(Nodes) /\ Polls \in Nat \ {0}

VARIABLES
    ca,          \* the CA of the certificates on disk
    cluster,     \* the kind cluster exists
    torn,        \* the last cluster-up was cut short while it made this cluster,
                 \* or was cut short or failed once it had emptied the kubeconfig
    kubeconfig,  \* the file: "none", "good", or "stale": it reaches no cluster, or is empty
    secret,      \* per Secret: the CA of what it holds
    objects,     \* the workload objects in the cluster: "server", "agent"
    server,      \* per Secret of the server: what its pod loaded when it started
    agents,      \* per node: the bundle its agent pod loaded
    ready,       \* nodes whose agent pod is ready
    status,      \* the DaemonSet's status: pods ready and desired
    target,      \* the make target of the last run
    line,        \* the step it is at; 0: it is over
    outcome,     \* "running", "done", "cut" or "stopped" by a step that failed
    seen, polls, \* the readiness wait: `ready` as it was read, polls so far
    replaced,    \* history: the user replaced the certificates under this cluster
    allReady     \* history: all agent pods were ready since the DaemonSet was made

disk  == <<ca, kubeconfig>>
kind  == <<cluster, torn>>
kube  == <<secret, objects, server, agents, ready, status>>
wait  == <<seen, polls>>
notes == <<replaced, allReady>>
vars  == <<ca, cluster, torn, kubeconfig, secret, objects, server, agents, ready, status,
           target, line, outcome, seen, polls, replaced, allReady>>

ServerSecrets == {"tls", "ca", "bootstrap"}
Secrets       == ServerSecrets \cup {"bundle"}
Versions      == Cas \cup {None}

\* A plausible slip: the recipe of cluster-down in the other order.
BugRmFirst ==
    <<"uncsi", "unagent", "unbundle", "unserver", "unsecrets", "rmkube", "delete", "clean">>

\* undeploy-httpbin and undeploy-registration change nothing here and never fail.
EnvDown ==
    <<"uncsi", "unagent", "unbundle", "unserver", "unsecrets", "delete", "rmkube", "clean">>

\* The prerequisites of a target, each once, then its recipe.
Recipe == [
    certs        |-> <<"certs">>,
    force        |-> <<"force">>,
    clean        |-> <<"clean">>,
    cluster_up   |-> <<"create", "truncate", "kubeconfig">>,
    server_up    |-> <<"create", "truncate", "kubeconfig", "certs", "tls", "ca", "bootstrap",
                       "server", "rollout">>,
    agent_up     |-> <<"certs", "bundle", "agent", "ready", "desired">>,
    env_up       |-> <<"certs", "create", "truncate", "kubeconfig", "tls", "ca", "bootstrap",
                       "server", "rollout", "bundle", "agent", "ready", "desired">>,
    agent_down   |-> <<"unagent", "unbundle">>,
    server_down  |-> <<"unserver", "unsecrets">>,
    cluster_down |-> <<"delete", "rmkube">>,
    env_down     |-> EnvDown]

Init ==
    /\ ca = None /\ cluster = FALSE /\ torn = FALSE /\ kubeconfig = "none"
    /\ secret = [s \in Secrets |-> None] /\ objects = {}
    /\ server = [s \in ServerSecrets |-> None]
    /\ agents = [n \in Nodes |-> None] /\ ready = {}
    /\ status = [ready |-> 0, desired |-> 0]
    /\ target = "clean" /\ line = 0 /\ outcome = "done"
    /\ seen = 0 /\ polls = 0 /\ replaced = FALSE /\ allReady = FALSE

-----------------------------------------------------------------------------
(* make *)

Make(t) ==
    /\ line = 0
    /\ target' = t /\ line' = 1 /\ outcome' = "running"
    /\ UNCHANGED <<disk, kind, kube, wait, notes>>

At(s) == line > 0 /\ Recipe[target][line] = s

Proceed ==
    /\ IF line = Len(Recipe[target]) THEN line' = 0 /\ outcome' = "done"
                                     ELSE line' = line + 1 /\ UNCHANGED outcome
    /\ UNCHANGED target

Stop == line' = 0 /\ outcome' = "stopped" /\ UNCHANGED target

Cut ==
    /\ line > 0
    /\ line' = 0 /\ outcome' = "cut" /\ seen' = 0 /\ polls' = 0
    /\ UNCHANGED <<target, disk, kind, kube, notes>>

\* A plausible slip: each run of make certs makes new ones.
BugKeepsNothing == FALSE

\* generate-certs.sh leaves a complete set alone, unless FORCE is set.
Keeps == ca # None /\ At("certs")

Generate ==
    /\ At("certs") \/ At("force")
    /\ IF Keeps THEN UNCHANGED ca
       ELSE \E c \in Cas : /\ \A s \in Secrets : c # secret[s]
                           /\ \A s \in ServerSecrets : c # server[s]
                           /\ \A n \in Nodes : c # agents[n]
                           /\ c # ca /\ ca' = c
    /\ replaced' = (replaced \/ (At("force") /\ cluster))
    /\ Proceed
    /\ UNCHANGED <<kubeconfig, kind, kube, wait, allReady>>

\* rm -rf of the artifacts: the certificates and the kubeconfig.
Clean ==
    /\ At("clean")
    /\ ca' = None /\ kubeconfig' = "none"
    /\ replaced' = (replaced \/ (target = "clean" /\ cluster))
    /\ Proceed
    /\ UNCHANGED <<kind, kube, wait, allReady>>

\* kind create cluster, which writes the kubeconfig, unless there is a cluster.
Create ==
    /\ At("create")
    /\ cluster' = TRUE
    /\ IF cluster THEN UNCHANGED <<kubeconfig, replaced>>
                  ELSE kubeconfig' = "good" /\ replaced' = FALSE
    /\ Proceed
    /\ UNCHANGED <<ca, torn, kube, wait, allReady>>

\* Ctrl-C in it: there is a cluster, and no kubeconfig yet.
HalfCreate ==
    /\ At("create") /\ ~cluster
    /\ cluster' = TRUE /\ torn' = TRUE /\ replaced' = FALSE
    /\ line' = 0 /\ outcome' = "cut"
    /\ UNCHANGED <<target, disk, kube, wait, allReady>>

\* kind get kubeconfig > file: the shell empties the file before kind runs, that of a
\* cluster that has been up for long too.
TruncateKubeconfig ==
    /\ At("truncate")
    /\ kubeconfig' = "stale" /\ torn' = TRUE
    /\ Proceed
    /\ UNCHANGED <<ca, cluster, kube, wait, notes>>

\* kind fills it, or fails.
WriteKubeconfig ==
    /\ At("kubeconfig")
    /\ \/ kubeconfig' = "good" /\ torn' = FALSE /\ Proceed
       \/ Stop /\ UNCHANGED <<kubeconfig, torn>>
    /\ UNCHANGED <<ca, cluster, kube, wait, notes>>

\* cluster-down: the cluster goes with all that is in it; then the file.
Delete ==
    /\ At("delete")
    /\ cluster' = FALSE /\ torn' = FALSE /\ allReady' = FALSE
    /\ kubeconfig' = IF kubeconfig = "good" THEN "stale" ELSE kubeconfig
    /\ secret' = [s \in Secrets |-> None] /\ objects' = {}
    /\ server' = [s \in ServerSecrets |-> None]
    /\ agents' = [n \in Nodes |-> None] /\ ready' = {}
    /\ status' = [ready |-> 0, desired |-> 0]
    /\ Proceed
    /\ UNCHANGED <<ca, wait, replaced>>

RemoveKubeconfig ==
    /\ At("rmkube")
    /\ kubeconfig' = "none"
    /\ Proceed
    /\ UNCHANGED <<ca, kind, kube, wait, notes>>

-----------------------------------------------------------------------------
(* The deploy scripts: set -e stops at a kubectl that cannot reach the cluster *)

Reach == cluster /\ kubeconfig = "good"

\* kubectl create secret --dry-run | kubectl apply: reads the files as they are now.
ApplySecret(s) ==
    /\ At(s)
    /\ IF Reach /\ ca # None THEN Proceed /\ secret' = [secret EXCEPT ![s] = ca]
                             ELSE Stop /\ UNCHANGED secret
    /\ UNCHANGED <<disk, kind, objects, server, agents, ready, status, wait, notes>>

\* Applying a manifest that has not changed leaves its pods alone, whatever became of
\* the Secrets they loaded.  The status of a new DaemonSet is all zeros.
ApplyWorkload(o) ==
    /\ At(o)
    /\ IF Reach THEN Proceed /\ objects' = objects \cup {o} ELSE Stop /\ UNCHANGED objects
    /\ UNCHANGED <<disk, kind, secret, server, agents, ready, status, wait, notes>>

\* rollout status, then kubectl wait; both give up after 300 s.
Rollout ==
    /\ At("rollout")
    /\ (Reach /\ server["ca"] # None /\ Proceed) \/ (server["ca"] = None /\ Stop)
    /\ UNCHANGED <<disk, kind, kube, wait, notes>>

\* The readiness wait reads the two numbers with two calls; one that fails reads 0.
ReadReady ==
    /\ At("ready")
    /\ seen' \in {status.ready, 0}
    /\ Proceed
    /\ UNCHANGED <<disk, kind, kube, polls, notes>>

\* Plausible slips: nothing desired and nothing ready is taken for ready; a wait that
\* does not count.
BugZeroIsReady(r, d) == r = d
BugPollsForever == polls' = polls + 1 /\ line' = line - 1 /\ UNCHANGED <<target, outcome>>

IsReady(r, d) == r = d /\ r # 0

PollAgain ==
    IF polls + 1 = Polls THEN Stop /\ polls' = 0
    ELSE polls' = polls + 1 /\ line' = line - 1 /\ UNCHANGED <<target, outcome>>

ReadDesired ==
    /\ At("desired")
    /\ \E d \in {status.desired, 0} :
           IF IsReady(seen, d) THEN Proceed /\ polls' = 0 ELSE PollAgain
    /\ seen' = 0
    /\ UNCHANGED <<disk, kind, kube, notes>>

-----------------------------------------------------------------------------
(* The undeploy scripts *)

\* Without a kubeconfig the agent's script skips, without a reachable namespace the
\* server's does; the CSI driver's does neither.
Skips(s) == \/ s \in {"unserver", "unsecrets"}
            \/ s \in {"unagent", "unbundle"} /\ kubeconfig = "none"

Undeploy(s) ==
    /\ At(s)
    /\ IF Reach \/ Skips(s) THEN Proceed ELSE Stop
    /\ UNCHANGED <<disk, kind, wait, replaced>>

UndeployCsi == Undeploy("uncsi") /\ UNCHANGED <<kube, allReady>>

\* A DaemonSet or a Deployment goes with its pods and its status.
DeleteAgent ==
    /\ Undeploy("unagent")
    /\ IF Reach THEN /\ objects' = objects \ {"agent"}
                     /\ agents' = [n \in Nodes |-> None] /\ ready' = {}
                     /\ status' = [ready |-> 0, desired |-> 0]
                     /\ allReady' = FALSE
                ELSE UNCHANGED <<objects, agents, ready, status, allReady>>
    /\ UNCHANGED <<secret, server>>

DeleteServer ==
    /\ Undeploy("unserver")
    /\ IF Reach THEN /\ objects' = objects \ {"server"}
                     /\ server' = [s \in ServerSecrets |-> None]
                ELSE UNCHANGED <<objects, server>>
    /\ UNCHANGED <<secret, agents, ready, status, allReady>>

DeleteSecrets(s, which) ==
    /\ Undeploy(s)
    /\ secret' = [x \in Secrets |-> IF Reach /\ x \in which THEN None ELSE secret[x]]
    /\ UNCHANGED <<objects, server, agents, ready, status, allReady>>

-----------------------------------------------------------------------------
(* Kubernetes *)

make == <<target, line, outcome>>

StartServer ==
    /\ "server" \in objects /\ server["ca"] = None
    /\ \A s \in ServerSecrets : secret[s] # None
    /\ server' = [s \in ServerSecrets |-> secret[s]]
    /\ UNCHANGED <<disk, kind, secret, objects, agents, ready, status, make, wait, notes>>

\* Evicted; its Deployment starts another.
LoseServer ==
    /\ server["ca"] # None
    /\ server' = [s \in ServerSecrets |-> None]
    /\ UNCHANGED <<disk, kind, secret, objects, agents, ready, status, make, wait, notes>>

StartAgent(n) ==
    /\ "agent" \in objects /\ agents[n] = None /\ secret["bundle"] # None
    /\ agents' = [agents EXCEPT ![n] = secret["bundle"]]
    /\ UNCHANGED <<disk, kind, secret, objects, server, ready, status, make, wait, notes>>

\* The agent attests to a server its bundle verifies.
Attest(n) ==
    /\ agents[n] # None /\ agents[n] = server["ca"]
    /\ ready' = ready \cup {n}
    /\ allReady' = (allReady \/ ready' = Nodes)
    /\ UNCHANGED <<disk, kind, secret, objects, server, agents, status, make, wait, replaced>>

LoseAgent(n) ==
    /\ agents[n] # None
    /\ agents' = [agents EXCEPT ![n] = None] /\ ready' = ready \ {n}
    /\ UNCHANGED <<disk, kind, secret, objects, server, status, make, wait, notes>>

\* The controller updates the status some time after the pods changed.
Report ==
    /\ status' = IF "agent" \in objects
                 THEN [ready |-> Cardinality(ready), desired |-> Cardinality(Nodes)]
                 ELSE [ready |-> 0, desired |-> 0]
    /\ UNCHANGED <<disk, kind, secret, objects, server, agents, ready, make, wait, notes>>

-----------------------------------------------------------------------------
Step ==
    \/ Generate \/ Clean \/ Create \/ HalfCreate \/ TruncateKubeconfig \/ WriteKubeconfig
    \/ Delete \/ RemoveKubeconfig
    \/ \E s \in Secrets : ApplySecret(s)
    \/ \E o \in {"server", "agent"} : ApplyWorkload(o)
    \/ Rollout \/ ReadReady \/ ReadDesired
    \/ UndeployCsi \/ DeleteAgent \/ DeleteServer
    \/ DeleteSecrets("unbundle", {"bundle"}) \/ DeleteSecrets("unsecrets", ServerSecrets)

Kubernetes ==
    \/ StartServer \/ LoseServer \/ Report
    \/ \E n \in Nodes : StartAgent(n) \/ Attest(n) \/ LoseAgent(n)

Next == (\E t \in DOMAIN Recipe : Make(t)) \/ Step \/ Cut \/ Kubernetes

Spec == Init /\ [][Next]_vars

-----------------------------------------------------------------------------
(* Properties *)

TypeOK ==
    /\ ca \in Versions /\ cluster \in BOOLEAN /\ torn \in BOOLEAN
    /\ kubeconfig \in {"none", "good", "stale"}
    /\ secret \in [Secrets -> Versions] /\ objects \subseteq {"server", "agent"}
    /\ server \in [ServerSecrets -> Versions] /\ agents \in [Nodes -> Versions]
    /\ ready \subseteq {n \in Nodes : agents[n] # None}
    /\ status \in [ready : Nat, desired : Nat] /\ seen \in Nat
    /\ target \in DOMAIN Recipe /\ line \in 0..Len(Recipe[target])
    /\ outcome \in {"running", "done", "cut", "stopped"}
    /\ polls \in 0..(Polls - 1)
    /\ replaced \in BOOLEAN /\ allReady \in BOOLEAN

\* Whatever runs of make were cut short or failed, at whatever step, and whichever
\* pods restarted in between: every Secret, the server and every agent stand on the one
\* CA that is on disk, so the agents can attest.  Only a user who removes or forces
\* the certificates under a live cluster breaks it (Makefile 128-134,
\* spire-server/deploy.sh 34-58, spire-agent/deploy.sh 33-43).
TrustAgrees ==
    ~replaced =>
        /\ \A s \in Secrets : secret[s] \in {None, ca}
        /\ \A s \in ServerSecrets : server[s] \in {None, ca}
        /\ \A n \in Nodes : agents[n] \in {None, ca}

\* "All SPIRE agent pods are ready!" after a read of each of two numbers, of a status
\* that may be old: the pods of this DaemonSet have all been ready at one time
\* (spire-agent/deploy.sh 49-59).
AgentsWereReady ==
    outcome = "done" /\ target \in {"agent_up", "env_up"} /\ "agent" \in objects => allReady

\* env-down that stops by itself leaves no cluster behind: a teardown cut short
\* between any two steps can be run again while there is a cluster to remove
\* (Makefile 31-40, 133-135).  It does leave one when the user removed the kubeconfig
\* with the certificates (make clean), when cluster-up was cut short while it made
\* the cluster, and when a cluster-up was cut short or failed while it rewrote the
\* kubeconfig, be it that of a healthy cluster (cluster-up.sh 25, 30).
StoppedDownLeavesNoCluster ==
    outcome = "stopped" /\ target = "env_down" => ~cluster \/ replaced \/ torn
=============================================================================
