------------------------ MODULE EnvironmentProofs ------------------------
(******************************************************************************)
(* Proofs about the sandbox: the trust material agrees, a readiness wait that *)
(* succeeds has seen every agent ready, and a stopped env-down leaves no      *)
(* cluster, for any certificate authorities and nodes and any length of wait. *)
(******************************************************************************)
EXTENDS Environment, FiniteSetTheorems, TLAPS

(* The inductive invariant, in parts. *)

\* make is running just while it is at a step; the readiness wait holds a number it
\* read just between its two reads.
RunOK == /\ outcome = "running" <=> line > 0
         /\ seen # 0 => At("desired")

\* What is not there holds nothing: a cluster, a workload.
GoneOK == /\ ~cluster => secret = [s \in Secrets |-> None] /\ objects = {}
          /\ "server" \notin objects => server = [s \in ServerSecrets |-> None]
          /\ "agent" \notin objects => agents = [n \in Nodes |-> None]

\* Past its deletion, a teardown has no cluster.
DownOK == \/ target = "cluster_down" /\ line = 2
          \/ target = "env_down" /\ line \in {7, 8}
          => ~cluster

\* The kubeconfig of a cluster is of use, but for the exceptions of the property.
FileOK == cluster /\ ~replaced /\ ~torn => kubeconfig = "good"

\* The numbers are those of this DaemonSet, now or before.
All == Cardinality(Nodes)

CountOK == /\ ready = Nodes /\ Nodes # {} => allReady
           /\ status.desired \in {0, All}
           /\ status.ready = All /\ All # 0 => allReady
           /\ seen = All /\ All # 0 => allReady

Safe == TrustAgrees /\ AgentsWereReady /\ StoppedDownLeavesNoCluster

IInv == TypeOK /\ RunOK /\ GoneOK /\ DownOK /\ FileOK /\ CountOK /\ Safe

-----------------------------------------------------------------------------
(* Where the steps are *)

\* Where in the recipes the steps are that the invariant is about: deletions are in the
\* two teardowns, the removal of the kubeconfig comes just after, `clean` last; clusters
\* are made by the targets that bring the server up; the readiness wait ends the targets
\* that have it (Makefile 87-89, 127-135).
Places(t, n) ==
    LET Has(s) == Recipe[t][n] = s IN
    /\ Has("delete") => (t = "cluster_down" /\ n = 1) \/ (t = "env_down" /\ n = 6)
    /\ (t = "cluster_down" /\ n = 1) \/ (t = "env_down" /\ n = 6) => Has("delete")
    /\ Has("rmkube") => (t = "cluster_down" /\ n = 2) \/ (t = "env_down" /\ n = 7)
    /\ Has("clean") => t = "clean" \/ (t = "env_down" /\ n = 8)
    /\ Has("create") \/ Has("truncate") \/ Has("kubeconfig")
          => t \in {"cluster_up", "server_up", "env_up"}
    /\ t \in {"agent_up", "env_up"} /\ n = Len(Recipe[t]) => Has("desired")
    /\ Has("desired") => n > 1 /\ n = Len(Recipe[t]) /\ t \in {"agent_up", "env_up"}
    /\ Has("ready") => n < Len(Recipe[t]) /\ Recipe[t][n + 1] = "desired"
    /\ Has("unagent") => t \notin {"agent_up", "env_up"}

LEMMA RecipeShape ==
    ASSUME NEW t \in DOMAIN Recipe
    PROVE  Len(Recipe[t]) \in Nat \ {0} /\ \A n \in 1..Len(Recipe[t]) : Places(t, n)
<1>1. CASE t = "certs"
  BY <1>1 DEF Recipe, Places
<1>2. CASE t = "force"
  BY <1>2 DEF Recipe, Places
<1>3. CASE t = "clean"
  BY <1>3 DEF Recipe, Places
<1>4. CASE t = "server_up"
  <2> DEFINE R == <<"create", "truncate", "kubeconfig", "certs", "tls", "ca", "bootstrap",
                    "server", "rollout">>
  <2>1. Recipe[t] = R
    BY <1>4 DEF Recipe
  <2>2. Len(R) = 9
    OBVIOUS
  <2>3. ASSUME NEW n \in 1..9 PROVE Places(t, n)
    BY <1>4, <2>1, <2>2 DEF Places
  <2> QED  BY <2>1, <2>2, <2>3
<1>5. CASE t = "agent_up"
  <2> DEFINE R == <<"certs", "bundle", "agent", "ready", "desired">>
  <2>1. Recipe[t] = R
    BY <1>5 DEF Recipe
  <2>2. Len(R) = 5
    OBVIOUS
  <2>3. ASSUME NEW n \in 1..5 PROVE Places(t, n)
    BY <1>5, <2>1, <2>2 DEF Places
  <2> QED  BY <2>1, <2>2, <2>3
<1>6. CASE t = "env_up"
  <2> DEFINE R == <<"certs", "create", "truncate", "kubeconfig", "tls", "ca", "bootstrap",
                    "server", "rollout", "bundle", "agent", "ready", "desired">>
  <2>1. Recipe[t] = R
    BY <1>6 DEF Recipe
  <2>2. Len(R) = 13
    OBVIOUS
  <2>3. ASSUME NEW n \in 1..13 PROVE Places(t, n)
    BY <1>6, <2>1, <2>2 DEF Places
  <2> QED  BY <2>1, <2>2, <2>3
<1>7. CASE t = "agent_down"
  <2> DEFINE R == <<"unagent", "unbundle">>
  <2>1. Recipe[t] = R
    BY <1>7 DEF Recipe
  <2>2. Len(R) = 2
    OBVIOUS
  <2>3. ASSUME NEW n \in 1..2 PROVE Places(t, n)
    BY <1>7, <2>1, <2>2 DEF Places
  <2> QED  BY <2>1, <2>2, <2>3
<1>8. CASE t = "server_down"
  <2> DEFINE R == <<"unserver", "unsecrets">>
  <2>1. Recipe[t] = R
    BY <1>8 DEF Recipe
  <2>2. Len(R) = 2
    OBVIOUS
  <2>3. ASSUME NEW n \in 1..2 PROVE Places(t, n)
    BY <1>8, <2>1, <2>2 DEF Places
  <2> QED  BY <2>1, <2>2, <2>3
<1>9. CASE t = "cluster_down"
  <2> DEFINE R == <<"delete", "rmkube">>
  <2>1. Recipe[t] = R
    BY <1>9 DEF Recipe
  <2>2. Len(R) = 2
    OBVIOUS
  <2>3. ASSUME NEW n \in 1..2 PROVE Places(t, n)
    BY <1>9, <2>1, <2>2 DEF Places
  <2> QED  BY <2>1, <2>2, <2>3
<1>10. CASE t = "env_down"
  <2> DEFINE R == <<"uncsi", "unagent", "unbundle", "unserver", "unsecrets", "delete", "rmkube", "clean">>
  <2>1. Recipe[t] = R
    BY <1>10 DEF Recipe, EnvDown
  <2>2. Len(R) = 8
    OBVIOUS
  <2>3. ASSUME NEW n \in 1..8 PROVE Places(t, n)
    BY <1>10, <2>1, <2>2 DEF Places
  <2> QED  BY <2>1, <2>2, <2>3
<1>11. CASE t = "cluster_up"
  <2> DEFINE R == <<"create", "truncate", "kubeconfig">>
  <2>1. Recipe[t] = R
    BY <1>11 DEF Recipe
  <2>2. Len(R) = 3
    OBVIOUS
  <2>3. ASSUME NEW n \in 1..3 PROVE Places(t, n)
    BY <1>11, <2>1, <2>2 DEF Places
  <2> QED  BY <2>1, <2>2, <2>3
<1> QED  BY <1>1, <1>2, <1>3, <1>4, <1>5, <1>6, <1>7, <1>8, <1>9, <1>10, <1>11 DEF Recipe

\* env-down applies nothing.
LEMMA EnvDownShape ==
    ASSUME NEW n \in 1..Len(Recipe["env_down"])
    PROVE  Recipe["env_down"][n] \notin Secrets \cup {"server", "agent", "rollout"}
<1> DEFINE R == <<"uncsi", "unagent", "unbundle", "unserver", "unsecrets", "delete", "rmkube", "clean">>
<1>1. Recipe["env_down"] = R
  BY DEF Recipe, EnvDown
<1>2. Len(R) = 8
  OBVIOUS
<1> QED  BY <1>1, <1>2 DEF Secrets, ServerSecrets

-----------------------------------------------------------------------------
(* Types *)

Pointer == target \in DOMAIN Recipe /\ line \in 0..Len(Recipe[target])

\* Where make is, and that it is somewhere.
LEMMA Here ==
    ASSUME Pointer, line > 0
    PROVE  line \in 1..Len(Recipe[target]) /\ Places(target, line)
BY RecipeShape DEF Pointer

\* A step that succeeds goes to the next one or ends the run (make, bash -e).
LEMMA Advance ==
    ASSUME Pointer, line > 0, Proceed
    PROVE  /\ Pointer'
           /\ target' = target
           /\ \/ line = Len(Recipe[target]) /\ line' = 0 /\ outcome' = "done"
              \/ line < Len(Recipe[target]) /\ line' = line + 1 /\ outcome' = outcome
BY RecipeShape DEF Pointer, Proceed

\* One that fails ends it.
LEMMA Stops == ASSUME Pointer, Stop PROVE Pointer' /\ line' = 0
BY RecipeShape DEF Pointer, Stop

\* Every step leaves make at a step of a recipe, or at none (Makefile 75-135).
LEMMA PointerStep ==
    ASSUME TypeOK, Next
    PROVE  Pointer' /\ outcome' \in {"running", "done", "cut", "stopped"}
<1> USE DEF TypeOK
<1>0. Pointer
  BY DEF Pointer
<1>1. CASE \E t \in DOMAIN Recipe : Make(t)
  BY <1>1, RecipeShape DEF Make, Pointer
<1>2. CASE Cut \/ HalfCreate
  BY <1>2, RecipeShape DEF Cut, HalfCreate, Pointer
<1>3. CASE Kubernetes
  BY <1>0, <1>3 DEF Kubernetes, StartServer, LoseServer, Report, StartAgent, Attest, LoseAgent,
                    make, Pointer
<1>4. CASE ReadDesired
  <2>1. line \in 2..Len(Recipe[target])
    BY <1>0, <1>4, Here DEF ReadDesired, At, Places
  <2>2. CASE Proceed
    BY <1>0, <2>1, <2>2, Advance
  <2>3. CASE PollAgain
    <3>1. CASE Stop
      BY <1>0, <3>1, Stops DEF Stop
    <3>2. CASE line' = line - 1 /\ UNCHANGED <<target, outcome>>
      BY <1>0, <2>1, <3>2, RecipeShape DEF Pointer
    <3> QED  BY <2>3, <3>1, <3>2 DEF PollAgain
  <2> QED  BY <1>4, <2>2, <2>3 DEF ReadDesired
<1>5. CASE line > 0 /\ (Proceed \/ Stop)
  BY <1>0, <1>5, Advance, Stops DEF Stop
<1>6. ASSUME Step, ~HalfCreate, ~ReadDesired
      PROVE  line > 0 /\ (Proceed \/ Stop)
  BY <1>6 DEF Step, At, Generate, Clean, Create, TruncateKubeconfig, WriteKubeconfig, Delete,
              RemoveKubeconfig, ApplySecret, ApplyWorkload, Rollout, ReadReady, Undeploy,
              UndeployCsi, DeleteAgent, DeleteServer, DeleteSecrets
<1> QED  BY <1>1, <1>2, <1>3, <1>4, <1>5, <1>6 DEF Next

\* What the variables range over, for the ones Kubernetes and kubectl write.
DiskType == ca \in Versions /\ cluster \in BOOLEAN /\ torn \in BOOLEAN
            /\ kubeconfig \in {"none", "good", "stale"} /\ replaced \in BOOLEAN
KubeType == /\ secret \in [Secrets -> Versions] /\ objects \subseteq {"server", "agent"}
            /\ server \in [ServerSecrets -> Versions] /\ agents \in [Nodes -> Versions]
            /\ ready \subseteq {n \in Nodes : agents[n] # None}
            /\ allReady \in BOOLEAN
WaitType == /\ status \in [ready : Nat, desired : Nat] /\ seen \in Nat
            /\ polls \in 0..(Polls - 1)

\* The disk and the cluster (Makefile 17-40, cluster-up.sh).
LEMMA DiskStep == ASSUME TypeOK, Next PROVE DiskType'
<1> USE DEF TypeOK, DiskType, Versions
<1>1. CASE Generate
  BY <1>1 DEF Generate, kind, kube, wait
<1>2. CASE Clean \/ Create \/ HalfCreate \/ TruncateKubeconfig \/ WriteKubeconfig \/ Delete
           \/ RemoveKubeconfig
  BY <1>2 DEF Clean, Create, HalfCreate, TruncateKubeconfig, WriteKubeconfig, Delete,
              RemoveKubeconfig, notes, kind, disk
<1>3. CASE UNCHANGED <<ca, kubeconfig, cluster, torn, replaced>>
  BY <1>3
<1>4. ASSUME Next, ~Generate, ~(Clean \/ Create \/ HalfCreate \/ TruncateKubeconfig
             \/ WriteKubeconfig \/ Delete \/ RemoveKubeconfig)
      PROVE  UNCHANGED <<ca, kubeconfig, cluster, torn, replaced>>
  BY <1>4 DEF Next, Make, Cut, Step, Kubernetes, ApplySecret, ApplyWorkload, Rollout,
              ReadReady, ReadDesired, Undeploy, UndeployCsi, DeleteAgent, DeleteServer,
              DeleteSecrets, StartServer, LoseServer, Report, StartAgent, Attest, LoseAgent,
              notes, kind, disk
<1> QED  BY <1>1, <1>2, <1>3, <1>4

\* The cluster's contents (the deploy and undeploy scripts, Kubernetes).
LEMMA KubeStep == ASSUME TypeOK, Next PROVE KubeType'
<1> USE DEF TypeOK, KubeType, Versions, Secrets, ServerSecrets
<1>1. CASE Delete
  BY <1>1 DEF Delete
<1>2. CASE \E s \in Secrets : ApplySecret(s)
  BY <1>2 DEF ApplySecret, notes
<1>3. CASE \E o \in {"server", "agent"} : ApplyWorkload(o)
  BY <1>3 DEF ApplyWorkload, notes
<1>4. CASE DeleteAgent
  BY <1>4 DEF DeleteAgent
<1>5. CASE DeleteServer
  BY <1>5 DEF DeleteServer
<1>6. CASE DeleteSecrets("unbundle", {"bundle"}) \/ DeleteSecrets("unsecrets", ServerSecrets)
  BY <1>6 DEF DeleteSecrets
<1>7. CASE StartServer \/ LoseServer
  BY <1>7 DEF StartServer, LoseServer, notes
<1>8. ASSUME NEW n \in Nodes, StartAgent(n) \/ Attest(n) \/ LoseAgent(n) PROVE KubeType'
  BY <1>8 DEF StartAgent, Attest, LoseAgent, notes
<1>9. CASE UNCHANGED <<secret, objects, server, agents, ready, allReady>>
  BY <1>9
<1>10. ASSUME Next, ~Delete, ~(\E s \in Secrets : ApplySecret(s)),
              ~(\E o \in {"server", "agent"} : ApplyWorkload(o)), ~DeleteAgent, ~DeleteServer,
              ~(DeleteSecrets("unbundle", {"bundle"}) \/ DeleteSecrets("unsecrets", ServerSecrets)),
              ~(StartServer \/ LoseServer),
              ~(\E n \in Nodes : StartAgent(n) \/ Attest(n) \/ LoseAgent(n))
       PROVE  UNCHANGED <<secret, objects, server, agents, ready, allReady>>
  <2>1. Next => \/ \E t \in DOMAIN Recipe : Make(t)
                \/ Cut \/ Generate \/ Clean \/ Create \/ HalfCreate \/ TruncateKubeconfig
                \/ WriteKubeconfig \/ RemoveKubeconfig \/ Rollout \/ ReadReady \/ ReadDesired \/ UndeployCsi
                \/ Report
    BY <1>10 DEF Next, Step, Kubernetes
  <2> QED  BY <1>10, <2>1 DEF Make, Cut, Generate, Clean, Create, HalfCreate,
                              TruncateKubeconfig, WriteKubeconfig, RemoveKubeconfig, Rollout,
                              ReadReady, ReadDesired, UndeployCsi, Report, kube, notes
<1> QED  BY <1>1, <1>2, <1>3, <1>4, <1>5, <1>6, <1>7, <1>8, <1>9, <1>10

\* The numbers of the readiness wait (spire-agent/deploy.sh 46-66).
LEMMA WaitStep == ASSUME TypeOK, Next PROVE WaitType'
<1> USE EnvironmentAssumption DEF TypeOK, WaitType
<1>1. CASE Report
  <2>1. IsFiniteSet(ready)
    BY FS_Subset
  <2>2. Cardinality(ready) \in Nat /\ Cardinality(Nodes) \in Nat
    BY <2>1, FS_CardinalityType
  <2> QED  BY <1>1, <2>2 DEF Report, wait
<1>2. CASE Delete \/ DeleteAgent
  BY <1>2 DEF Delete, DeleteAgent, Undeploy, wait
<1>3. CASE ReadReady \/ ReadDesired \/ Cut
  BY <1>3 DEF ReadReady, ReadDesired, PollAgain, Cut, kube
<1>4. CASE UNCHANGED <<status, seen, polls>>
  BY <1>4
<1>5. ASSUME Next, ~Report, ~(Delete \/ DeleteAgent), ~(ReadReady \/ ReadDesired \/ Cut)
      PROVE  UNCHANGED <<status, seen, polls>>
  BY <1>5 DEF Next, Make, Step, Kubernetes, Generate, Clean, Create, HalfCreate,
              TruncateKubeconfig, WriteKubeconfig, RemoveKubeconfig, ApplySecret,
              ApplyWorkload, Rollout, Undeploy, UndeployCsi, DeleteServer, DeleteSecrets,
              StartServer, LoseServer, StartAgent, Attest, LoseAgent, kube, wait
<1> QED  BY <1>1, <1>2, <1>3, <1>4, <1>5

\* Every variable keeps to its values.
LEMMA TypeStep == ASSUME TypeOK, [Next]_vars PROVE TypeOK'
<1>1. CASE Next
  BY <1>1, PointerStep, DiskStep, KubeStep, WaitStep
     DEF TypeOK, Pointer, DiskType, KubeType, WaitType
<1>2. CASE UNCHANGED vars
  BY <1>2 DEF TypeOK, vars, Versions
<1> QED  BY <1>1, <1>2

-----------------------------------------------------------------------------
(* The parts of the invariant, each kept by every step *)

\* make runs while it is at a step, and holds a number only between the two reads.
LEMMA RunStep == ASSUME TypeOK, RunOK, Next PROVE RunOK'
<1> USE DEF RunOK
<1>0. Pointer /\ seen \in Nat
  BY DEF Pointer, TypeOK
<1>1. CASE \E t \in DOMAIN Recipe : Make(t)
  <2>1. seen' = 0
    BY <1>0, <1>1 DEF Make, At, wait
  <2> QED  BY <1>1, <2>1 DEF Make
<1>2. CASE Cut
  BY <1>2 DEF Cut
<1>3. CASE Kubernetes
  BY <1>3 DEF Kubernetes, StartServer, LoseServer, Report, StartAgent, Attest, LoseAgent,
              make, wait, At
<1>4. CASE ReadDesired
  <2>1. seen' = 0 /\ line > 1 /\ line \in Nat
    BY <1>0, <1>4, Here DEF ReadDesired, At, Places
  <2>2. CASE Proceed
    BY <1>0, <2>1, <2>2, Advance
  <2>3. CASE PollAgain
    BY <2>1, <2>3 DEF PollAgain, Stop
  <2> QED  BY <1>4, <2>1, <2>2, <2>3 DEF ReadDesired
<1>5. CASE ReadReady
  <2>1. line > 0 /\ Proceed /\ line # Len(Recipe[target]) /\ Recipe[target][line + 1] = "desired"
    BY <1>0, <1>5, Here DEF ReadReady, At, Places
  <2>2. target' = target /\ line' = line + 1 /\ outcome' = outcome
    BY <1>0, <2>1, Advance
  <2> QED  BY <1>0, <2>1, <2>2 DEF At, Pointer
<1>6. CASE HalfCreate
  BY <1>6 DEF HalfCreate, At, wait
<1>7. ASSUME Step, ~HalfCreate, ~ReadDesired, ~ReadReady PROVE RunOK'
  <2>1. line > 0 /\ (Proceed \/ Stop) /\ seen' = seen /\ ~At("desired")
    BY <1>7 DEF Step, At, Generate, Clean, Create, TruncateKubeconfig, WriteKubeconfig,
                Delete, RemoveKubeconfig, ApplySecret, ApplyWorkload, Rollout, Undeploy,
                UndeployCsi, Secrets, ServerSecrets, DeleteAgent, DeleteServer, DeleteSecrets,
                wait
  <2>2. CASE Proceed
    BY <1>0, <2>1, <2>2, Advance DEF Pointer
  <2>3. CASE Stop
    BY <2>1, <2>3 DEF Stop
  <2> QED  BY <2>1, <2>2, <2>3
<1> QED  BY <1>1, <1>2, <1>3, <1>4, <1>5, <1>6, <1>7 DEF Next

\* A deletion takes all that depends on what is deleted.
LEMMA GoneStep == ASSUME TypeOK, GoneOK, Next PROVE GoneOK'
<1> USE DEF GoneOK
<1>1. CASE Delete
  BY <1>1 DEF Delete
<1>2. CASE \E s \in Secrets : ApplySecret(s)
  <2>1. cluster' = cluster /\ objects' = objects /\ server' = server /\ agents' = agents
    BY <1>2 DEF ApplySecret, kind
  <2>2. ~cluster => secret' = secret
    BY <1>2 DEF ApplySecret, Reach
  <2>3. ~cluster' => secret' = [s \in Secrets |-> None] /\ objects' = {}
    BY <2>1, <2>2
  <2> QED  BY <2>1, <2>3
<1>3. CASE \E o \in {"server", "agent"} : ApplyWorkload(o)
  BY <1>3 DEF ApplyWorkload, Reach, kind
<1>4. CASE DeleteAgent
  BY <1>4 DEF DeleteAgent, Undeploy, kind
<1>5. CASE DeleteServer
  BY <1>5 DEF DeleteServer, Undeploy, kind
<1>6. CASE DeleteSecrets("unbundle", {"bundle"}) \/ DeleteSecrets("unsecrets", ServerSecrets)
  BY <1>6 DEF DeleteSecrets, Undeploy, kind, Reach
<1>7. CASE StartServer \/ LoseServer
  BY <1>7 DEF StartServer, LoseServer, kind
<1>8. ASSUME NEW n \in Nodes, StartAgent(n) \/ Attest(n) \/ LoseAgent(n) PROVE GoneOK'
  BY <1>8 DEF StartAgent, Attest, LoseAgent, kind
<1>9. CASE Create \/ HalfCreate
  BY <1>9 DEF Create, HalfCreate, kube
<1>10. CASE \/ \E t \in DOMAIN Recipe : Make(t)
            \/ Cut \/ Generate \/ Clean \/ TruncateKubeconfig \/ WriteKubeconfig \/ RemoveKubeconfig
            \/ Rollout \/ ReadReady \/ ReadDesired \/ UndeployCsi \/ Report
  BY <1>10 DEF Make, Cut, Generate, Clean, TruncateKubeconfig, WriteKubeconfig,
               RemoveKubeconfig, Rollout, ReadReady, ReadDesired, UndeployCsi, Undeploy,
               Report, kube, kind
<1> QED  BY <1>1, <1>2, <1>3, <1>4, <1>5, <1>6, <1>7, <1>8, <1>9, <1>10 DEF Next, Step, Kubernetes

\* A teardown reaches its last steps through the deletion, and none makes a cluster.
LEMMA DownStep == ASSUME TypeOK, DownOK, Next PROVE DownOK'
<1> USE DEF DownOK
<1>0. Pointer
  BY DEF Pointer, TypeOK
<1>1. CASE Delete
  BY <1>1 DEF Delete
<1>2. CASE UNCHANGED <<target, line, cluster>>
  BY <1>2
<1>3. CASE line' \in {0, 1}
  BY <1>3
<1>4. CASE line > 0 /\ Proceed /\ ~At("delete") /\ UNCHANGED cluster
  BY <1>0, <1>4, Here, Advance DEF At, Places
<1>5. CASE Create \/ TruncateKubeconfig \/ WriteKubeconfig
  <2>1. line > 0 /\ target \in {"cluster_up", "server_up", "env_up"} /\ target' = target
    BY <1>0, <1>5, Here DEF Create, TruncateKubeconfig, WriteKubeconfig, At, Places, Proceed, Stop
  <2> QED  BY <2>1
<1>6. CASE ReadDesired
  <2>1. target' = target /\ target \in {"agent_up", "env_up"}
    BY <1>0, <1>6, Here DEF ReadDesired, At, Places, Proceed, PollAgain, Stop
  <2> QED  BY <2>1
<1>7. ASSUME Step, ~(Create \/ TruncateKubeconfig \/ WriteKubeconfig), ~ReadDesired, ~Delete,
             ~HalfCreate
      PROVE  \/ line > 0 /\ Proceed /\ ~At("delete") /\ UNCHANGED cluster
             \/ line' = 0
  BY <1>7 DEF Step, At, Generate, Clean, RemoveKubeconfig, Stop, kind, Secrets, ServerSecrets,
              ApplySecret, ApplyWorkload, Rollout, Undeploy, UndeployCsi, ReadReady,
              DeleteAgent, DeleteServer, DeleteSecrets
<1>8. Kubernetes => UNCHANGED <<target, line, cluster>>
  BY DEF Kubernetes, StartServer, LoseServer, Report, StartAgent, Attest, LoseAgent, make, kind
<1>9. (\E t \in DOMAIN Recipe : Make(t)) \/ Cut \/ HalfCreate => line' \in {0, 1}
  BY DEF Make, Cut, HalfCreate
<1> QED  BY <1>1, <1>2, <1>3, <1>4, <1>5, <1>6, <1>7, <1>8, <1>9 DEF Next

\* The kubeconfig goes only with its cluster, by the user's hand, or while cluster-up
\* rewrites it.
LEMMA FileStep == ASSUME TypeOK, FileOK, DownOK, Next PROVE FileOK'
<1> USE DEF FileOK
<1>0. Pointer
  BY DEF Pointer, TypeOK
<1>1. CASE Generate
  BY <1>1 DEF Generate, kind
<1>2. CASE Clean
  <2>1. target = "clean" \/ ~cluster
    BY <1>0, <1>2, Here DEF Clean, At, Places, DownOK
  <2> QED  BY <1>2, <2>1 DEF Clean, kind
<1>3. CASE Create \/ HalfCreate \/ TruncateKubeconfig \/ WriteKubeconfig \/ Delete
  BY <1>3 DEF TypeOK, Create, HalfCreate, TruncateKubeconfig, WriteKubeconfig, Delete, notes
<1>4. CASE RemoveKubeconfig
  <2>1. ~cluster
    BY <1>0, <1>4, Here DEF RemoveKubeconfig, At, Places, DownOK
  <2> QED  BY <1>4, <2>1 DEF RemoveKubeconfig, kind
<1>5. CASE UNCHANGED <<cluster, torn, replaced, kubeconfig>>
  BY <1>5
<1>6. ASSUME Next, ~Generate, ~Clean,
             ~(Create \/ HalfCreate \/ TruncateKubeconfig \/ WriteKubeconfig \/ Delete),
             ~RemoveKubeconfig
      PROVE  UNCHANGED <<cluster, torn, replaced, kubeconfig>>
  BY <1>6 DEF Next, Make, Cut, Step, Kubernetes, ApplySecret, ApplyWorkload, Rollout,
              ReadReady, ReadDesired, Undeploy, UndeployCsi, DeleteAgent, DeleteServer,
              DeleteSecrets, StartServer, LoseServer, Report, StartAgent, Attest, LoseAgent,
              notes, kind, disk
<1> QED  BY <1>1, <1>2, <1>3, <1>4, <1>5, <1>6

\* The numbers the readiness wait reads stand for the agents of this DaemonSet.
LEMMA CountStep == ASSUME TypeOK, RunOK, CountOK, Next PROVE CountOK'
<1> USE DEF CountOK
<1>0. /\ All \in Nat /\ (All # 0 => Nodes # {})
      /\ IsFiniteSet(ready) /\ Cardinality(ready) \in Nat
      /\ Cardinality(ready) = All => ready = Nodes
  BY EnvironmentAssumption, FS_Subset, FS_CardinalityType, FS_EmptySet DEF All, TypeOK
<1>1. CASE Report
  BY <1>0, <1>1 DEF Report, wait, notes, All
<1>2. CASE Delete \/ DeleteAgent
  <2>1. seen' = seen
    BY <1>2 DEF Delete, DeleteAgent, Undeploy, wait
  <2>2. seen = 0
    BY <1>2 DEF Delete, DeleteAgent, Undeploy, RunOK, At
  <2>3. CASE ready' = {} /\ status' = [ready |-> 0, desired |-> 0]
    BY <2>1, <2>2, <2>3
  <2>4. CASE UNCHANGED <<ready, status, allReady>>
    BY <2>1, <2>4
  <2> QED  BY <1>2, <2>3, <2>4 DEF Delete, DeleteAgent
<1>3. CASE ReadReady
  BY <1>3 DEF ReadReady, kube, notes
<1>4. CASE ReadDesired \/ Cut
  <2>1. seen' = 0 /\ UNCHANGED <<ready, status, allReady>>
    BY <1>4 DEF ReadDesired, Cut, kube, notes
  <2> QED  BY <2>1
<1>5. ASSUME NEW n \in Nodes, Attest(n) PROVE CountOK'
  BY <1>5 DEF Attest, wait
<1>6. ASSUME NEW n \in Nodes, LoseAgent(n) PROVE CountOK'
  BY <1>6 DEF LoseAgent, wait, notes
<1>7. CASE UNCHANGED <<ready, status, seen, allReady>>
  BY <1>7
<1>8. ASSUME Next, ~Report, ~(Delete \/ DeleteAgent), ~ReadReady, ~(ReadDesired \/ Cut),
             ~(\E n \in Nodes : Attest(n) \/ LoseAgent(n))
      PROVE  UNCHANGED <<ready, status, seen, allReady>>
  BY <1>8 DEF Next, Make, Step, Kubernetes, Generate, Clean, Create, HalfCreate,
              TruncateKubeconfig, WriteKubeconfig, RemoveKubeconfig, ApplySecret,
              ApplyWorkload, Rollout, Undeploy, UndeployCsi, DeleteServer, DeleteSecrets,
              StartServer, LoseServer, StartAgent, kube, wait, notes
<1> QED  BY <1>1, <1>2, <1>3, <1>4, <1>5, <1>6, <1>7, <1>8

\* New certificates come only when nothing stands on the old ones, and everything else is
\* copied from what does (spire-server/deploy.sh 34-49, spire-agent/deploy.sh 33-36).
LEMMA TrustStep == ASSUME TypeOK, GoneOK, DownOK, TrustAgrees, Next PROVE TrustAgrees'
<1> USE DEF TrustAgrees
<1>0. Pointer
  BY DEF Pointer, TypeOK
<1>a. ~cluster => /\ \A s \in Secrets : secret[s] = None
                  /\ \A s \in ServerSecrets : server[s] = None
                  /\ \A n \in Nodes : agents[n] = None
  BY DEF GoneOK
<1>1. CASE Generate
  <2>1. UNCHANGED <<secret, server, agents>>
    BY <1>1 DEF Generate, kube
  <2>2. CASE At("force")
    BY <1>1, <1>a, <2>1, <2>2 DEF Generate, Keeps
  <2>3. CASE ca = None
    BY <1>1, <1>a, <2>1, <2>3 DEF Generate
  <2>4. CASE ca' = ca
    BY <1>1, <2>1, <2>4 DEF Generate
  <2> QED  BY <1>1, <2>2, <2>3, <2>4 DEF Generate, Keeps
<1>2. CASE Clean
  <2>1. target = "clean" \/ ~cluster
    BY <1>0, <1>2, Here DEF Clean, At, Places, DownOK
  <2>2. UNCHANGED <<secret, server, agents>>
    BY <1>2 DEF Clean, kube
  <2> QED  BY <1>2, <1>a, <2>1, <2>2 DEF Clean
<1>3. CASE Create \/ HalfCreate
  <2>1. UNCHANGED <<secret, server, agents, ca>>
    BY <1>3 DEF Create, HalfCreate, kube, disk
  <2>2. ~cluster \/ replaced' = replaced
    BY <1>3 DEF Create, HalfCreate
  <2> QED  BY <1>a, <2>1, <2>2
<1>4. CASE Delete
  BY <1>4 DEF Delete
<1>5. CASE \E s \in Secrets : ApplySecret(s)
  <2>1. UNCHANGED <<ca, replaced, server, agents>>
    BY <1>5 DEF ApplySecret, disk, notes
  <2>2. ASSUME NEW x \in Secrets PROVE secret'[x] \in {secret[x], ca}
    BY <1>5 DEF ApplySecret, TypeOK
  <2> QED  BY <2>1, <2>2
<1>6. CASE DeleteAgent \/ DeleteServer
  BY <1>6 DEF DeleteAgent, DeleteServer, Undeploy, disk
<1>7. CASE DeleteSecrets("unbundle", {"bundle"}) \/ DeleteSecrets("unsecrets", ServerSecrets)
  BY <1>7 DEF DeleteSecrets, Undeploy, disk
<1>8. CASE StartServer \/ LoseServer
  BY <1>8 DEF StartServer, LoseServer, disk, notes, Secrets
<1>9. ASSUME NEW n \in Nodes, StartAgent(n) \/ Attest(n) \/ LoseAgent(n) PROVE TrustAgrees'
  BY <1>9 DEF StartAgent, Attest, LoseAgent, disk, notes, TypeOK, Secrets
<1>10. CASE UNCHANGED <<ca, secret, server, agents, replaced>>
  BY <1>10
<1>11. \/ \E t \in DOMAIN Recipe : Make(t)
       \/ Cut \/ TruncateKubeconfig \/ WriteKubeconfig \/ RemoveKubeconfig \/ Rollout
       \/ ReadReady \/ ReadDesired \/ UndeployCsi \/ Report
       \/ \E o \in {"server", "agent"} : ApplyWorkload(o)
       => UNCHANGED <<ca, secret, server, agents, replaced>>
  BY DEF Make, Cut, TruncateKubeconfig, WriteKubeconfig, RemoveKubeconfig, Rollout, ReadReady,
         ReadDesired, UndeployCsi, Undeploy, Report, ApplyWorkload, kube, notes, disk
<1> QED  BY <1>1, <1>2, <1>3, <1>4, <1>5, <1>6, <1>7, <1>8, <1>9, <1>10, <1>11
            DEF Next, Step, Kubernetes

\* The wait ends well only on a number that stands for all agents (deploy.sh 51-53).
LEMMA AgentsStep == ASSUME TypeOK, RunOK, CountOK, AgentsWereReady, Next PROVE AgentsWereReady'
<1> USE DEF AgentsWereReady
<1>0. Pointer
  BY DEF Pointer, TypeOK
<1>1. CASE ReadDesired
  <2>1. PICK d \in {status.desired, 0} : IF IsReady(seen, d) THEN Proceed /\ polls' = 0 ELSE PollAgain
    BY <1>1 DEF ReadDesired
  <2>2. CASE IsReady(seen, d)
    BY <1>1, <2>2 DEF IsReady, CountOK, ReadDesired, notes
  <2>3. CASE PollAgain
    BY <1>1, <2>3 DEF PollAgain, Stop, RunOK, ReadDesired, At
  <2> QED  BY <2>1, <2>2, <2>3
<1>2. CASE \/ \E t \in DOMAIN Recipe : Make(t)
           \/ Cut \/ HalfCreate
  BY <1>2 DEF Make, Cut, HalfCreate
<1>3. CASE Kubernetes
  BY <1>3 DEF Kubernetes, StartServer, LoseServer, Report, StartAgent, Attest, LoseAgent,
              make, notes
<1>4. CASE Step /\ ~ReadDesired /\ ~HalfCreate
  <2>1. line > 0 /\ (Proceed \/ Stop) /\ ~At("desired")
    BY <1>4 DEF Step, At, Generate, Clean, Create, TruncateKubeconfig, WriteKubeconfig,
                Delete, RemoveKubeconfig, ApplySecret, ApplyWorkload, Rollout, Undeploy,
                UndeployCsi, Secrets, ServerSecrets, DeleteAgent, DeleteServer, DeleteSecrets,
                ReadReady
  <2>2. CASE Proceed
    BY <1>0, <2>1, <2>2, Here, Advance DEF At, Places, RunOK
  <2>3. CASE Stop
    BY <2>3 DEF Stop
  <2> QED  BY <2>1, <2>2, <2>3
<1> QED  BY <1>1, <1>2, <1>3, <1>4 DEF Next

\* A step of env-down fails only for want of a cluster or of a kubeconfig.
LEMMA StoppedStep ==
    ASSUME TypeOK, RunOK, DownOK, FileOK, StoppedDownLeavesNoCluster, Next
    PROVE  StoppedDownLeavesNoCluster'
<1> USE DEF StoppedDownLeavesNoCluster
<1>0. Pointer
  BY DEF Pointer, TypeOK
<1>1. CASE Delete \/ HalfCreate \/ (\E t \in DOMAIN Recipe : Make(t)) \/ Cut
  BY <1>1 DEF Delete, HalfCreate, Make, Cut
<1>2. CASE Kubernetes
  BY <1>2 DEF Kubernetes, StartServer, LoseServer, Report, StartAgent, Attest, LoseAgent,
              make, kind, notes
<1>3. CASE line > 0 /\ Proceed
  BY <1>0, <1>3, Advance DEF RunOK
<1>4. CASE Stop /\ (target = "env_down" => ~Reach) /\ UNCHANGED <<cluster, torn, replaced>>
  BY <1>4 DEF Stop, Reach, FileOK
<1>5. CASE ReadDesired \/ TruncateKubeconfig \/ WriteKubeconfig
  <2>1. target # "env_down" /\ target' = target
    BY <1>0, <1>5, Here DEF ReadDesired, TruncateKubeconfig, WriteKubeconfig, At, Places,
                            Proceed, PollAgain, Stop
  <2> QED  BY <2>1
<1>6. ASSUME Step, ~(ReadDesired \/ TruncateKubeconfig \/ WriteKubeconfig), ~Delete, ~HalfCreate,
             ~(line > 0 /\ Proceed)
      PROVE  Stop /\ (target = "env_down" => ~Reach) /\ UNCHANGED <<cluster, torn, replaced>>
  <2>1. target = "env_down" => /\ ~At("rollout") /\ ~At("server") /\ ~At("agent")
                               /\ \A s \in Secrets : ~At(s)
    BY <1>0, EnvDownShape, RecipeShape DEF At, Pointer, Secrets, ServerSecrets
  <2>2. CASE \E s \in Secrets : ApplySecret(s)
    BY <1>6, <2>1, <2>2 DEF ApplySecret, At, kind, notes
  <2>3. CASE \E o \in {"server", "agent"} : ApplyWorkload(o)
    BY <1>6, <2>1, <2>3 DEF ApplyWorkload, At, kind, notes
  <2>4. CASE Rollout
    BY <1>6, <2>1, <2>4 DEF Rollout, At, kind, notes
  <2>5. CASE UndeployCsi \/ DeleteAgent \/ DeleteServer \/ DeleteSecrets("unbundle", {"bundle"})
             \/ DeleteSecrets("unsecrets", ServerSecrets)
    BY <1>6, <2>5 DEF UndeployCsi, DeleteAgent, DeleteServer, DeleteSecrets, Undeploy, At, kind
  <2> QED  BY <1>6, <2>2, <2>3, <2>4, <2>5 DEF Step, Generate, Clean, Create, RemoveKubeconfig,
                                              ReadReady, At
<1> QED  BY <1>1, <1>2, <1>3, <1>4, <1>5, <1>6 DEF Next

-----------------------------------------------------------------------------
(* Theorems *)

LEMMA InitInv == Init => IInv
<1> SUFFICES ASSUME Init PROVE IInv
  OBVIOUS
<1> USE DEF Init
<1>1. TypeOK
  <2>1. target \in DOMAIN Recipe /\ line \in 0..Len(Recipe[target])
    <3>1. "clean" \in DOMAIN Recipe
      BY DEF Recipe
    <3> QED  BY <3>1, RecipeShape
  <2>2. DiskType
    BY DEF DiskType, Versions
  <2>3. KubeType
    BY DEF KubeType, Versions
  <2>4. WaitType
    BY EnvironmentAssumption DEF WaitType
  <2> QED  BY <2>1, <2>2, <2>3, <2>4 DEF TypeOK, DiskType, KubeType, WaitType
<1>2. RunOK /\ GoneOK /\ DownOK /\ FileOK
  BY DEF RunOK, GoneOK, DownOK, FileOK
<1>3. CountOK
  BY EnvironmentAssumption, FS_CardinalityType DEF CountOK, All
<1>4. Safe
  BY DEF Safe, TrustAgrees, AgentsWereReady, StoppedDownLeavesNoCluster
<1> QED  BY <1>1, <1>2, <1>3, <1>4 DEF IInv

LEMMA NextInv == IInv /\ [Next]_vars => IInv'
<1> SUFFICES ASSUME IInv, [Next]_vars PROVE IInv'
  OBVIOUS
<1>1. CASE Next
  BY <1>1, TypeStep, RunStep, GoneStep, DownStep, FileStep, CountStep, TrustStep, AgentsStep,
     StoppedStep DEF IInv, Safe
<1>2. CASE UNCHANGED vars
  <2>1. TypeOK'
    BY <1>2, TypeStep DEF IInv
  <2>2. (RunOK /\ GoneOK /\ DownOK /\ FileOK /\ CountOK)'
    BY <1>2 DEF IInv, vars, RunOK, GoneOK, DownOK, FileOK, CountOK, At
  <2>3. Safe'
    BY <1>2 DEF IInv, vars, Safe, TrustAgrees, AgentsWereReady, StoppedDownLeavesNoCluster
  <2> QED  BY <2>1, <2>2, <2>3 DEF IInv
<1> QED  BY <1>1, <1>2

LEMMA Invariant == Spec => []IInv
BY InitInv, NextInv, PTL DEF Spec

\* Every variable keeps to its values; the readiness wait polls at most Polls times
\* (spire-agent/deploy.sh 46-61).
THEOREM TypeCorrect == Spec => []TypeOK
BY Invariant, PTL DEF IInv

\* Whatever was cut short or restarted, one CA is trusted by all, on disk and in the
\* cluster (spire-server/deploy.sh 34-58, spire-agent/deploy.sh 33-43).
THEOREM OneCa == Spec => []TrustAgrees
BY Invariant, PTL DEF IInv, Safe

\* The readiness wait does not take the numbers of a DaemonSet that never came up for
\* the ones of one that did (spire-agent/deploy.sh 49-59).
THEOREM ReadyMeansReady == Spec => []AgentsWereReady
BY Invariant, PTL DEF IInv, Safe

\* A teardown that stops has no cluster to remove, unless the user removed or replaced
\* the certificates, and with `make clean` the kubeconfig, under a live cluster, or the
\* last cluster-up was cut short or failed while it made the cluster or rewrote its
\* kubeconfig (Makefile 31-40, 133-135, cluster-up.sh 25, 30).
THEOREM TeardownCanBeRunAgain == Spec => []StoppedDownLeavesNoCluster
BY Invariant, PTL DEF IInv, Safe
=============================================================================
