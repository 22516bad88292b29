# A TLA+ model of spire-agent

TLA+ modules, TLC configurations and TLAPS proofs about this repository: a Rust
command-line client of the SPIFFE Workload API (`src/spire-agent`), a mock SPIRE
agent that answers it (`src/spire-agent-mock`), and a sandbox of shell scripts
that sets up a real SPIRE in a kind cluster (`src/sandbox`, `src/Makefile`).
Line numbers below are those of the files under `src/`.

    tlc -config MCFetchX509.cfg MCFetchX509     # a run
    tlapm FetchX509Proofs.tla                   # a proof module

## 1. Inventory

### 1.1 The client: `spire-agent`

| part | state it keeps | operations |
|---|---|---|
| CLI dispatch, durations (`main.rs`, `commands.rs`) | none | choose the command; parse `--timeout` |
| Workload API client (`rpc/mod.rs`, `healthcheck.rs`, first half of `fetch_x509.rs`) | one connection, one stream, one deadline at a time | connect, call, await headers, await first message; shallow probe |
| printing and writing SVIDs (second half of `fetch_x509.rs`) | the directory of `--write` | parse every SVID, check and create the directory, open and write three files per SVID |

An invocation is a sequential async program. What makes it hard is around it:
the server may die, hang or end the call at any await; the two awaits have
separate deadlines; the files are written in place with neither a lock nor a
rename, so a second invocation, an I/O error or a kill can fall between any two
of them. Correct means: it ends, it fails only for a cause, it succeeds only
with an answer, and exit code 0 means a complete set of files that belong
together.

### 1.2 The mock agent: `spire-agent-mock`

| part | state it keeps | operations |
|---|---|---|
| start-up (`main.rs`) | the file at the socket path | remove what is there, bind |
| the service (`server.rs`) | per call: a stream that yields a reply, is polled again, sleeps | accept or refuse by header, stream SVIDs or bundles, refuse the JWT methods |
| the generator (`svid.rs`) | one root and one signing CA per process | mint an SVID with a TTL |

Hard here: two processes that start on one path; a killed process whose file
stays; backpressure, since the sleep between two SVIDs begins only when the
transport polls the stream again; `--x509-internal` against the TTL; roots that
change with every restart. Correct means: a restart works, a client
that keeps up always holds a valid SVID, a slow one meets no burst of replies,
and the stream never stops.

### 1.3 The sandbox

| part | state it keeps | operations |
|---|---|---|
| certificates (`scripts/generate-certs.sh`, `make certs`, `make clean`) | six files in `artifacts/certs` | make or skip the CA, the server certificate, the bundle |
| registration (`scripts/registration/*.sh`) | the entries on the SPIRE server | create the node alias and one entry per workload; delete the entries |
| deployment (`scripts/spire-server/*.sh`, `scripts/spire-agent/*.sh`) | Secrets, Deployment and DaemonSet in the cluster, and what their pods have loaded | apply, wait, delete |
| environment (`Makefile`, `scripts/cluster-up.sh`) | the kind cluster, `artifacts/kubeconfig`, the certificates | create and delete the cluster; chains of the targets above |
| CSI driver, httpbin, debug image | Kubernetes objects | apply, delete |

Hard here: skipping by the existence of files whatever they hold; a run that is
cut short; execs that fail after the server has done the work; two terminals
that run the scripts at once; a server whose entries live in an `emptyDir` and
go with its pod; pods that keep what they loaded when a Secret changes; a
readiness wait that makes two reads of a status which lags behind; a teardown
whose steps need the very things the next steps remove. Correct means: a
directory an interrupted run leaves can be repaired, registered entries have
their parent, everything in the cluster trusts the CA on disk, and a teardown
can be run again until nothing is left.

### 1.4 How they interact

The client and the mock (or a real agent) share a Unix socket: `WorkloadCall`
is the client's side of a call against any server, `MockAgent` the mock's side
against any client, and `Session` the two together, from the command line to the
exit. What the call returns is written by the second half of `api fetch x509`:
`FetchX509`. The scripts share files and the SPIRE server: `GenerateCerts` makes
the files of one set, `Environment` follows whole sets from the disk through
Secrets into pods, and `Registration` needs a server pod that is up.

What a request promises, without connections, awaits or frames, is `Request`;
what writing promises, without files, opens or modes, is `Publish`. The modules
refine each other like this (the names are those of the theorems):

    Session  --SessionImplementsCall-->  WorkloadCall  --Implements-->  Request
       |`------------SessionImplementsRequest----------------------------^
        `-------SessionIsMock--------->  MockAgent
    FetchX509  --Publishes-->  Publish

`PROJECT.json` lists every component with its status, and under `hazards` what
is hard to test in this code, at the line where it bites, with the properties
that would catch it.

## 2. Modules

Every component has a module `M`, a module `MCM` with the constants TLC uses, a
configuration per run, and `MProofs`. Operators named `Bug...` are plausible
slips; each stands next to the definition that it could replace, is used by
nothing, and shows with which error in the code a property breaks.

| module | code | state | actions |
|---|---|---|---|
| `FetchX509` | `fetch_x509.rs` from the response on | the directory (`path`), the blocks and the mode of each file, and per invocation its flags, its response and its cursor in the loop of `write_svids` | `FetchFails`, `FetchReturns`, `PrintSvids`, `CheckDir`, `CreateDir(Fails)`, `EncodeFails`, `OpenFile`, `OpenFails`, `WriteFile`, `WriteFails`, `Kill` |
| `Publish` | what `--write` promises of the sets of files | per index the owner of the whole set there, per invocation its place and the indices it has yet to publish | `Decline`, `Begin`, `Spoil`, `Complete`, `Stop` |
| `WorkloadCall` | `rpc/mod.rs`, `healthcheck.rs`, the awaits of `fetch_x509.rs` | the program, its timeout and its await; the server's socket, connection and answer | client: `Probe`, `Connect`, `Receive`, `Fail`, `TimesOut`; time: `Tick`; server: `SendHeaders`, `SendMessage`, `EndCall`, `Crash`, `Unlisten`, `Restart` |
| `Request` | what the client promises of a request | the limit, the time spent, the answer, the outcome | `Wait`, `Answer`, `Fault`, `Finish` |
| `MockAgent` | `spire-agent-mock` | the socket path, the processes, per call the stream (`parked`, `left`) and the client (`unread`, `held`) | `Check`, `Remove`, `Bind`, `Serve`, `Kill`; `Dial`, `Accept`, `HangUp`, `Read`; `Emit`, `Poll`; `Tick` |
| `Session` (extends `MockAgent`) | `commands.rs`, `main.rs`, and the client of `WorkloadCall` again, on the mock's own streams | the command line, the place of the invocation, its await | `Dispatch`, `Probe`, `Connect`, `ReceiveHeaders`, `ReceiveMessage`, `Fail`, `TimesOut`, `Leave`; `MockStep`; `Clock` |
| `GenerateCerts` | `generate-certs.sh`, `make clean` | the six files, where the run is, the keys used up | `Begin`, one action per file made or group skipped, `CutShort`, `Clean`, `Lose` |
| `Registration` | `registration/deploy.sh`, `registration/undeploy.sh` | the entries and the pod of the server; per run its script, place, pod, line and count | `Begin`, `CheckAlias`, `MakeAlias`, `CheckEntry`, `MakeEntry`, `FindEntry`, `DeleteEntry`, `Finish`, `Interrupt`; `LosePod`, `NewPod` |
| `Environment` | `Makefile`, `cluster-up.sh`, the deploy and undeploy scripts of server and agent | the CA on disk, the cluster, the kubeconfig; Secrets, workloads, what each pod loaded, the DaemonSet's status; the target, the step it is at, and the readiness wait | `Make`, `Cut`, one action per step: `Generate`, `Clean`, `Create`, `HalfCreate`, `TruncateKubeconfig`, `WriteKubeconfig`, `Delete`, `RemoveKubeconfig`, `ApplySecret`, `ApplyWorkload`, `Rollout`, `ReadReady`, `ReadDesired`, `UndeployCsi`, `DeleteAgent`, `DeleteServer`, `DeleteSecrets`; Kubernetes: `StartServer`, `LoseServer`, `StartAgent`, `Attest`, `LoseAgent`, `Report` |

History variables (`rival`, `prior`, `quiet`, `fault`, `stalled`, `begun`,
`refused`, `failed`, `crossed`, `rough`, `replaced`, `torn`, `allReady`, `wide`) record what the
properties speak of; no guard reads them.

### 2.1 What is abstracted

- **FetchX509.** A PEM file is the sequence of its blocks and a block is the
  name of who wrote it; certificate contents, dates and the text printed are
  left out. A DER blob parses or not, and has a number of certificates, possibly
  none. `write_all` is one step unless it fails, and then some blocks are there.
- **WorkloadCall.** `connect` on a Unix socket finds a listener or fails at once,
  so it takes no time. `tokio::time::timeout` polls the answer before the timer,
  and a timer fires when it is due: an answer that has arrived at the deadline is
  received. A broken connection may lose an answer that was not read
  yet.
- **MockAgent.** Time is in ticks. An SVID is its root and its age. The HTTP/2
  flow-control window is a number of unread replies. A stream that can run does
  so before the clock moves, which is the claim that the runtime is not
  starved. A root certificate is named by the process that made it, so that the
  replies of one process agree is built in and no property says so. A client may
  find a process that has served for long (`Init`) or see it start. The ten
  years of the root and the year of the signing CA are left out. A start
  fails only for what is at the socket path; a parent directory that cannot be
  made is left out.
- **Session.** A tick is a millisecond. A duration is its digits, as one number,
  and a unit; a string that is not one has the unit "other". The width of `u64`,
  1000 and 60 are constants, so that small numbers wrap and saturate. HTTP/2
  shows the client the headers as soon as the call is accepted, and the first
  message as soon as the stream yields it; bytes a broken connection still holds
  may be read or not.
- **Environment.** A set of certificates is complete and named by its CA. `make`
  runs one at a time. A Deployment or a DaemonSet goes with its pods and its
  status; a pod loads its Secrets when it starts and keeps them. The objects no
  property tells apart (namespaces, accounts, roles, ConfigMaps, Services) are
  left out. A kubectl call fails when there is no cluster or the kubeconfig does
  not reach it; any other failure is the same as a cut.
- **GenerateCerts.** A certificate is a pair: the key it certifies and the key
  that signed it. openssl's truncated output is an empty file; a partial one that
  is not empty is left out. `file_exists` is `-f` and `-s`, as in the script.
- **Registration.** Selectors and the rewriting of the parent are left out: an
  entry is its SPIFFE ID. `entry create` of an entry that exists is refused by
  the server (external). An exec fails before or after the server did the work.
  Each exec is one step; `grep -q` that ends a pipe early is left out.

## 3. Runs

All bounds are constants of the configurations.

| run | instance | checks | what it shows |
|---|---|---|---|
| `fetch_files` | two invocations, five responses of up to two SVIDs, every choice of flags, a directory that is absent, a file, or holds 0 to 2 earlier sets | `TypeOK`, `MixedSetExplained`, `BadBlobStopsBeforeDisk`, `UncoveredSetsStay`, `WideKeysArePrior`, `SoloRunPublishes`, `ImplementsPublish`, `EveryRunEnds` | a set of files of mixed origin is at the index of an invocation that is unfinished, failed, or overlapped another; an undisturbed exit code 0 means a complete set; the world can read the keys it could read before, and no others; set by set the directory behaves as `Publish` |
| `call` | timeouts 0 to 3, all three programs, any server | `TypeOK`, `FailureHasCause`, `EveryCallEnds`, `ImplementsRequest` | every call ends and fails only for a cause; it is one `Request`: one final outcome, within twice its timeout, a success only with a message (`BoundedWait` and `SuccessWasServed`, which have theorems of their own, are parts of this) |
| `call_help` | timeout 2 | `WaitsAtMostTimeout` (violated) | finding 1 |
| `mock_streams` | two processes, one call, TTL 2, intervals 0 to 3, window 2 | `TypeOK`, `PromptReaderCovered`, `RepliesArePaced`, `RepliesKeepComing` | a client that keeps up is covered; replies are an interval apart, also after a parked stream goes on, and it always does |
| `mock_socket` | three processes, one call, window 1 | `FailedStartHadRival` | a start fails only by a rival or a directory, whatever was killed or displaced before |
| `certs` | four keys, forced and plain runs, any file lost | `TypeOK`, `DoneConsistent`, `RerunIsIdempotent`, `CutShortIsRepairable` | which runs end with files that fit together; plain runs that are cut short never make a directory the next run cannot repair |
| `certs_lost` | four keys, no `FORCE`, any file lost | `CompleteMeansConsistent` (violated) | finding 2 |
| `certs_rotate` | four keys, no `FORCE`, nothing lost | `RerunRotates` (violated) | finding 3 |
| `registration` | two terminals, three workloads, two pods | `TypeOK`, `ParentsExist`, `CountIsHonest`, `UndeployClears` | parents exist, a full count is true, a clean undeploy leaves nothing |
| `registration_alias` | the same | `RefusedAliasContinues` (violated) | finding 4 |
| `session` | every command and option, durations around each boundary, two mock processes, one call | `SessionTypeOK`, `ErrorsAreAbsence`, `SlowMeansNotServing`, `TimeoutHonoured`, `SvidIsFresh`, `ImplementsCall`, `SessionEnds` | the mock is a server `WorkloadCall` allows; errors and timeouts come only from a process that is absent or still starting; the timeout is the one asked for; an SVID that is printed was made for this very call |
| `env` | two CAs, two nodes, two polls | `TypeOK`, `TrustAgrees`, `AgentsWereReady`, `StoppedDownLeavesNoCluster` | whatever is cut short and whichever pods restart, one CA is trusted; a readiness wait does not lie; a stopped `env-down` leaves no cluster, but for the exceptions of section 6 |

Why the bounds are enough to be interesting:

- Two invocations already give every overlap of two writers on one file, and a
  third process adds only one more owner of blocks. Two SVIDs distinguish a
  response that is shorter than what the directory holds, a failure in the first
  and in the second SVID, and a loop that ends early. A chain of three blocks is
  longer than the two that were there, a chain of one is shorter, and both tails
  of `Overlay` occur.
- Timeouts 0 to 3 include the boundary `--timeout 0s`, and long enough waits for
  headers that arrive in the last tick.
- Intervals 0 to 3 around a TTL of 2 are below, at and above it; a window of 2
  holds a fresh reply behind a stale one. `mock_socket` has no liveness, so it
  may use symmetry and a third process instead: two rivals, and the one they displace.
- A run of `generate-certs.sh` uses up at most two keys, so four keys
  are two whole runs, or more that were cut short. When the
  keys are used up nothing new can be made; so the configurations allow deadlock.
- Two pods are one replacement of the server; three workloads are a first, a
  middle and a last line. Runs are restarted without bound.
- `session` shrinks the units: 1000 and 60 become 2, and `u64::MAX` 5, so
  that a number fits, saturates in `m` or `h`, does not parse, and exceeds the
  clock's horizon, all within a few ticks. The health check's second is two
  ticks. Two processes are the one that is connected and the one that displaces
  it. A TTL of 1 tells the reply of this tick, an older one and an expired one apart.
- Two CAs are the one on disk and the one that a pod or a Secret may still hold;
  two nodes make "all ready" differ from "one ready"; two polls are a wait that
  goes on and one that gives up.

Distinct states: `fetch_files` 847 thousand, `session` 822 thousand, `env` 587
thousand, the others less.
Deadlock is checked for `WorkloadCall`, `MockAgent`, `Registration`, `Session`
and `Environment`.
`FetchX509` stops when its invocations have ended.

Symmetry is used only in runs without liveness properties, over constants that
no definition tells apart.

### Fairness

- `FetchX509!FairSpec`: weak fairness of each invocation. A process the kernel
  schedules takes its next step or fails; `Kill` is not required to happen.
- `WorkloadCall!FairSpec`: weak fairness of the client's own steps and of the
  clock. Nothing is expected of the server, which may hang for ever.
- `MockAgent!FairSpec`: weak fairness of a process that is starting, of the
  streams and of a client that keeps its call open and reads; strong fairness of
  the clock. Calls that come and go without end make a stream ready, and so
  disable `Tick`, again and again; real time passes all the same, which weak
  fairness would not say.
- `Session!FairSession`: weak fairness of the invocation and of the clock, and of
  the mock only that a call it can accept or a stream it can run is run, since
  the clock waits for these. Nothing is expected of a process that is starting,
  so `SessionEnds` covers one that never serves.

## 4. Findings

1. `call_help`. The help of `--timeout` says "Time to wait for a response"
   (`commands.rs:47`). The timeout is started for the headers (`fetch_x509.rs:45`)
   and once more for the first message (`fetch_x509.rs:51`), so a call can take
   almost twice as long. `BoundedWait` is what does hold (theorem `Bounded`, part of
   `ImplementsRequest`).
2. `certs_lost`. When the CA key is lost, `make check-certs` says to run `make
   certs`. That run makes a new CA, keeps the server certificate and the bundle
   of the old one because the files exist, and reports completion
   (`generate-certs.sh:62, 90, 115`).
3. `certs_rotate`. README.md:48 describes rotation as another `make certs`. With
   `FORCE` at its default, a run over a complete directory changes nothing.
4. `registration_alias`. `deploy.sh:63` says "but continuing..." and the script
   ends, since the next line returns 1 to a plain call under `set -e`. It is
   good that it ends: `BugContinues`, which does what the message says, breaks
   `ParentsExist`.

`DoneConsistent` has a condition for a further reason: a run with `FORCE=1` that
is cut short after it has made a new CA leaves the old server certificate
beside it, and the next plain run skips that.

## 5. Proofs

Every theorem is about `Spec`, for all values of the constants that meet the
named assumptions, which say only that numbers are numbers, that names differ
from the sentinels, and for `Registration` that no workload is listed twice and
the alias is not one of them. The two theorems about `Publish` state what they
need of its constants, which `FetchX509` assumes.

| module | theorems | inductive invariant, and why it is needed |
|---|---|---|
| `FetchX509Proofs` | `TypeCorrect`, `MixedSets`, `SoloRuns`, `BadBlobs`, `Uncovered`, `WideKeys`, `Publishes`, `FetchInherits`, `StepsRunOut` | `CursorOK` (the cursor stays within the response), `EncodedOK` (what the current SVID has written was encodable), `PrintedOK` (a response that was printed parses), `SoloOK` (a writer that met nobody has exactly its own blocks in the files behind its cursor). `SoloOK` holds because a writer enters `rival`, and puts the others there, when it begins to write. `FirstOK` (whose block a file begins with has come to its write loop) is what `Publishes` needs: a set that is whole again by chance belongs to somebody who was busy |
| `PublishProofs` | `AlonePublishes`, `PriorGoes` | `InOrder`: what is left to publish is an interval, what is behind it is the invocation's own unless it met a rival, and two that are busy are both rivals |
| `WorkloadCallProofs` | `TypeCorrect`, `Bounded`, `Causes`, `Served`, `Implements`, `StepsRunOut` | `BudgetOK` (what was spent, by place), `QuietOK` (an await never outlasts the silence of the server), `CauseOK`, `ServedOK` |
| `MockAgentProofs` | `TypeCorrect`, `PromptReaders`, `StartsAlone`, `PacedReplies` | `SoloStart` (a start without rivals knows what is at the path), `RootsOf` (every reply, read or not, has the root of its process), `FreshOf` (at a client that keeps up, the age of the reply it holds plus what the stream still sleeps is within the interval, and unread replies are of this tick). `PacedReplies` is about slow readers too: `PacedOK` (the age of the last reply made and the rest of the sleep are an interval together) keeps the replies of a stream an interval apart, however long it was parked |
| `GenerateCertsProofs` | `TypeCorrect`, `DoneRuns`, `CutShortRuns`, `Idempotent` | `MadeOK` (what a step reads is there), `ProgressOK` (what fits together when a run comes to each file), `CarefulOK` (no certificate outlives its key). `CutShortRuns` speaks of directories that saw neither a forced run nor the loss of a file no run reissues (`rough`); without that it is false, as `certs_lost` shows |
| `RegistrationProofs` | `TypeCorrect`, `Parents`, `Counts`, `Clears` | `PodsOK` (names of pods are not reused), `CursorOK`, `CrossedOK` (two different scripts that run together know it), `AliasOK` (a deploy beyond its alias finds it there). `EntriesGrow` and `EntriesShrink` say which steps touch an entry |
| `SessionProofs` | `SessionIsMock`, `SessionTypeCorrect`, `NeverRefused`, `AnsweredAtOnce`, `WaitsAsAsked`, `FreshSvids`, `SessionImplementsCall`, `SessionInherits`, `SessionImplementsRequest` | `ArgsOK` (past the dispatch, the duration parses), `LinkOK` (the place of the invocation and the state of its call), `ArrivedOK` (what has arrived against what the stream sent), `FaultOK` (a call that lost its process, or a path without a listener, is a fault), `WaitOK` (the await has lasted as long as the silence), `FreshOK` (the reply that waits was made no longer ago than the last frame, within what the call has waited). `SessionIsMock` makes every step of a session one of `MockAgent`, so its theorems apply |
| `EnvironmentProofs` | `TypeCorrect`, `OneCa`, `ReadyMeansReady`, `TeardownCanBeRunAgain` | `GoneOK` (what depends on a deleted thing is gone), `DownOK` (past its deletion step a teardown has no cluster), `FileOK` (a cluster has its kubeconfig, but for the exceptions of section 6), `CountOK` (a number that equals all nodes was read of a DaemonSet whose agents were all ready), `RunOK`. `RecipeShape` says where in the recipes the steps are |

Action properties (`SoloRunPublishes`, `RerunIsIdempotent`) are proved from the
same invariants. Only model-checked: the liveness properties `EveryRunEnds`,
`EveryCallEnds`, `RepliesKeepComing` and `SessionEnds`, since the prover does not
reach fairness, and the four violated statements.

The three refinements (`SessionImplementsCall`, `Implements`, `Publishes`) are
proved as step simulations: initial states map to initial states, and each step
to one step or to none. Their theorems compose: `SessionProofs` instantiates
`WorkloadCallProofs` with the refinement mapping, so that what is proved of a
call against any server holds of the CLI with mock processes (`SessionInherits`),
and the whole session is one `Request` (`SessionImplementsRequest`).
`FetchX509Proofs` instantiates `PublishProofs` in the same way (`FetchInherits`).

The safety half of two liveness properties is proved as a variant. `StepsRunOut`
of `FetchX509Proofs` says that each step of an invocation uses up one of at most
`6 * MaxSvids + 4` and none of another's; `StepsRunOut` of `WorkloadCallProofs`
that each step of the client, ticks included, uses up one of at most
`2 * timeout + 4`, and that one which has not ended has a step left. What remains
of `EveryRunEnds` and `EveryCallEnds` is that such a step is enabled and, under
fairness, taken: that is for TLC.

## 6. Not modelled

- The lifetime of the mock's CAs (`svid.rs:77`): a year against replies that live
  for minutes is beyond a clock of ticks.
- clap's parsing and the exit codes of its errors. `--output json` is rejected
  (`commands.rs:137`) although the help names it (`commands.rs:29`): in `Session`
  it ends at "usage".
- The full backlog of a listener, which would make a connect wait.
- In the scripts: the objects no property tells apart, `tools`, the `check-*`
  targets, and what `env-up` does after the agents are ready. The CSI driver,
  httpbin and debug image scripts are lines of `kubectl apply` and `delete` with no
  state of their own; of these only the place where `undeploy-spire-csi` stops
  `env-down` is in `Environment`. It stops there whenever there is no cluster or no
  kubeconfig, although the undeploy scripts after it and `cluster-down` provide for
  that (`spire-agent/undeploy.sh:14-17`, `Makefile:36-37`): the certificates then
  stay until `make clean`, which `StoppedDownLeavesNoCluster` allows.

  In three cases `env-down` stops with the cluster still there, and these are the
  exceptions of the property: after a `make clean` under a live cluster (`replaced`);
  after a `kind create` that was interrupted; and after a cluster-up that failed or was
  interrupted while it rewrote the kubeconfig (`torn`). The last can happen to a healthy
  cluster: `kind get kubeconfig > file` empties the file before kind runs
  (`cluster-up.sh:30`). The way out is a cluster-up that gets to its end, or
  `make cluster-down`. `replaced` also covers `FORCE=1`, which `TrustAgrees` needs: it
  says nothing of certificates that the user replaced under a running server.
- Two `make` at once on one sandbox.
- `scripts/codex_cross_session_iterate.sh`, a loop around an external command;
  manifests and Dockerfiles, which configure external systems.
- The X.509 and protobuf encodings, and the text that is printed.

## 7. Plan

Done, in this order: `FetchX509`, `WorkloadCall`, `GenerateCerts`, `MockAgent`,
`Registration`, then `Request`, `Session`, `Environment` and `Publish`, each with its runs
and proofs, and the refinements between them.

What could follow:

1. `Session` followed by `FetchX509`: an invocation that fetches again after the
   mock rotated, over the files of the one before.
2. `Environment` with `Registration` in place of the end of `env-up`, and with
   the incomplete sets of `GenerateCerts`.
