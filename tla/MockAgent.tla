------------------------------ MODULE MockAgent ------------------------------
(******************************************************************************)
(* The mock SPIRE agent (spire-agent-mock): processes that start on one       *)
(* socket path, and the streams of the Workload API calls they serve.         *)
(*                                                                            *)
(* A process is an element of Agents; a restart is another element.  It makes *)
(* one root CA when it starts, so a root is named by its process.  The clock  *)
(* is in ticks, relative: a reply has an age, a sleeping stream has ticks     *)
(* left.  A timer fires when it is due, and a stream that can run does so     *)
(* before the clock moves.                                                    *)
(******************************************************************************)
EXTENDS Naturals, Sequences

CONSTANTS
    Agents,      \* mock processes
    Calls,       \* call slots of the clients
    Rotations,   \* the values of --x509-internal
    Ttl,         \* ttl_seconds: how long an SVID is valid
    Window,      \* bound: unread replies the HTTP/2 window of a call holds
    Headers,     \* the values of workload.spiffe.io a request may carry, in order
    Nobody,      \* no file at the socket path; no reply read
    Stale,       \* a file of no running process at the socket path
    Directory    \* a directory at the socket path

ASSUME NumbersAssumption ==
    /\ Rotations \subseteq Nat
    /\ Ttl \in Nat
    /\ Window \in Nat \ {0}

ASSUME NamesAssumption ==
    /\ {Nobody, Stale, Directory} \cap Agents = {}
    /\ Nobody # Stale /\ Nobody # Directory /\ Stale # Directory

VARIABLES
    rotation,   \* --x509-internal, the same for every start
    path,       \* what is at the socket path
    pc,         \* where each process is
    call,       \* per call: "idle", "waiting", "open", "refused" or "broken"
    rpc,        \* per call: the method called
    to,         \* per call: the process it reached
    parked,     \* per call: its stream has yielded and was not polled since
    left,       \* per call: ticks its stream still sleeps
    unread,     \* per call: the replies the client has not read, oldest first
    held,       \* per call: the last reply the client read
    stalled,    \* history, per call: a reply waited in `unread` while time passed
    rival       \* history, per process: another process started while it did

starting == <<path, pc, rival>>
streams  == <<call, rpc, to, parked, left, unread, held, stalled>>
vars     == <<rotation, path, pc, call, rpc, to, parked, left, unread, held, stalled, rival>>

Starting == {"remove", "bind"}
Up       == {"bound", "serving"}
Live     == {"waiting", "open"}
Methods  == {"FetchX509SVID", "FetchX509Bundles", "JWT"}
Ages     == 0..Ttl + 1     \* Ttl + 1: expired
Replies  == [root : Agents, age : Ages]
NoReply  == [root |-> Nobody, age |-> 0]

TypeOK ==
    /\ rotation \in Rotations
    /\ path \in Agents \cup {Nobody, Stale, Directory}
    /\ pc \in [Agents -> {"off", "failed", "dead"} \cup Starting \cup Up]
    /\ call \in [Calls -> {"idle", "refused", "broken"} \cup Live]
    /\ rpc \in [Calls -> Methods]
    /\ to \in [Calls -> Agents \cup {Nobody}]
    /\ parked \in [Calls -> BOOLEAN]
    /\ left \in [Calls -> 0..rotation]
    /\ unread \in [Calls -> Seq(Replies)] /\ \A c \in Calls : Len(unread[c]) <= Window
    /\ held \in [Calls -> Replies \cup {NoReply}]
    /\ stalled \in [Calls -> BOOLEAN]
    /\ rival \in [Agents -> BOOLEAN]

\* The path is free or taken, or one process serves on it already.
Init ==
    /\ rotation \in Rotations
    /\ path \in Agents \cup {Nobody, Stale, Directory}
    /\ pc = [a \in Agents |-> IF path = a THEN "serving" ELSE "off"]
    /\ call = [c \in Calls |-> "idle"]
    /\ rpc = [c \in Calls |-> "JWT"]
    /\ to = [c \in Calls |-> Nobody]
    /\ parked = [c \in Calls |-> FALSE]
    /\ left = [c \in Calls |-> 0]
    /\ unread = [c \in Calls |-> <<>>]
    /\ held = [c \in Calls |-> NoReply]
    /\ stalled = [c \in Calls |-> FALSE]
    /\ rival = [a \in Agents |-> FALSE]

-----------------------------------------------------------------------------
(* A process starts: ensure_path, then bind, then the generator. *)

\* A plausible slip: the file a killed process left is not removed.
BugKeepsFile(f) == "bind"

AfterCheck(f) == IF f = Nobody THEN "bind" ELSE "remove"

\* `if path.exists()`.  Every process that starts meanwhile is noted as a rival.
Check(a) ==
    LET others == {b \in Agents \ {a} : pc[b] \in Starting} IN
    /\ pc[a] = "off"
    /\ pc' = [pc EXCEPT ![a] = AfterCheck(path)]
    /\ rival' = [b \in Agents |-> rival[b] \/ b \in others \/ (b = a /\ others # {})]
    /\ UNCHANGED <<rotation, path, streams>>

\* fs::remove_file: whoever made the file; an error when it has gone or is a directory.
Remove(a) ==
    /\ pc[a] = "remove"
    /\ IF path \in {Nobody, Directory}
       THEN pc' = [pc EXCEPT ![a] = "failed"] /\ UNCHANGED path
       ELSE pc' = [pc EXCEPT ![a] = "bind"] /\ path' = Nobody
    /\ UNCHANGED <<rotation, rival, streams>>

\* UnixListener::bind: an error when the path exists.
Bind(a) ==
    /\ pc[a] = "bind"
    /\ IF path # Nobody
       THEN pc' = [pc EXCEPT ![a] = "failed"] /\ UNCHANGED path
       ELSE pc' = [pc EXCEPT ![a] = "bound"] /\ path' = a
    /\ UNCHANGED <<rotation, rival, streams>>

\* SvidGenerator::new makes the root and the signing CA; then the server accepts the
\* connections that have queued since the bind.
Serve(a) ==
    /\ pc[a] = "bound"
    /\ pc' = [pc EXCEPT ![a] = "serving"]
    /\ UNCHANGED <<rotation, path, rival, streams>>

\* A process dies; its file stays, its connections break.
Kill(a) ==
    /\ pc[a] \in Starting \cup Up
    /\ pc' = [pc EXCEPT ![a] = "dead"]
    /\ call' = [c \in Calls |-> IF call[c] \in Live /\ to[c] = a THEN "broken" ELSE call[c]]
    /\ UNCHANGED <<rotation, path, rival, rpc, to, parked, left, unread, held, stalled>>

-----------------------------------------------------------------------------
(* A call. *)

\* verify_security_header: one value, "true"; those to_str() rejects do not count.
Accepted(h) ==
    \E i \in DOMAIN h : h[i] = "true" /\ \A j \in DOMAIN h \ {i} : h[j] = "opaque"

\* The client connects to the process that bound the path and sends a request.
Dial(c, m) ==
    /\ call[c] \notin Live
    /\ path \in Agents /\ pc[path] \in Up
    /\ call' = [call EXCEPT ![c] = "waiting"]
    /\ rpc' = [rpc EXCEPT ![c] = m]
    /\ to' = [to EXCEPT ![c] = path]
    /\ parked' = [parked EXCEPT ![c] = FALSE]
    /\ left' = [left EXCEPT ![c] = 0]
    /\ unread' = [unread EXCEPT ![c] = <<>>]
    /\ held' = [held EXCEPT ![c] = NoReply]
    /\ stalled' = [stalled EXCEPT ![c] = FALSE]
    /\ UNCHANGED <<rotation, starting>>

CanAccept(c) == call[c] = "waiting" /\ pc[to[c]] = "serving"

\* Plausible slip: the stream sleeps before its first reply.
BugSleepsFirst(c, h) ==
    /\ CanAccept(c)
    /\ call' = [call EXCEPT ![c] = IF Accepted(h) /\ rpc[c] # "JWT" THEN "open" ELSE "refused"]
    /\ left' = [left EXCEPT ![c] = rotation]
    /\ UNCHANGED <<rotation, starting, rpc, to, parked, unread, held, stalled>>

\* The server answers a request that carries the headers h; the interceptor and the
\* unimplemented JWT methods refuse.
Accept(c, h) ==
    /\ CanAccept(c)
    /\ call' = [call EXCEPT ![c] = IF Accepted(h) /\ rpc[c] # "JWT" THEN "open" ELSE "refused"]
    /\ UNCHANGED <<rotation, starting, rpc, to, parked, left, unread, held, stalled>>

\* The client drops the call: after one reply, as the CLI does, or at its deadline.
HangUp(c) ==
    /\ call[c] \in Live
    /\ call' = [call EXCEPT ![c] = "idle"]
    /\ UNCHANGED <<rotation, starting, rpc, to, parked, left, unread, held, stalled>>

HasRoom(c) == Len(unread[c]) < Window

\* Plausible slips: one SVID for all of a stream; one made before anybody called.
BugSameSvid(c) == [root |-> to[c], age |-> held[c].age]
BugMadeAtStart(c) == [root |-> to[c], age |-> Ttl]

\* The generator, and with it the root, is made once for a process and shared by all
\* its streams.
Root(c) == to[c]

\* generate_svid, or the cloned bundle (whose age no property reads).
Minted(c) == [root |-> Root(c), age |-> 0]

CanEmit(c) == call[c] = "open" /\ ~parked[c] /\ left[c] = 0 /\ HasRoom(c)
CanPoll(c) == call[c] = "open" /\ parked[c] /\ HasRoom(c)

\* The stream makes a reply and yields it.
Emit(c) ==
    /\ CanEmit(c)
    /\ unread' = [unread EXCEPT ![c] = Append(@, Minted(c))]
    /\ parked' = [parked EXCEPT ![c] = TRUE]
    /\ UNCHANGED <<rotation, starting, call, rpc, to, left, held, stalled>>

\* Plausible slips: a fixed sleep for every interval; a wait nothing ends.
BugFixedSleep == Ttl + 1
BugNeverWakes(c) ==
    /\ CanPoll(c)
    /\ left' = [left EXCEPT ![c] = rotation]
    /\ UNCHANGED <<rotation, starting, call, rpc, to, parked, unread, held, stalled>>

Pause == rotation

\* Plausible slip: time spent waiting for room counts against the sleep, as with a
\* timer that ticks at a fixed rate.
BugCatchesUp(c) ==
    /\ CanPoll(c)
    /\ parked' = [parked EXCEPT ![c] = FALSE]
    /\ left' = [left EXCEPT ![c] = IF stalled[c] THEN 0 ELSE Pause]
    /\ UNCHANGED <<rotation, starting, call, rpc, to, unread, held, stalled>>

\* The server polls the stream again once the window has room: only then does
\* tokio::time::sleep(rotation_interval) begin.
Poll(c) ==
    /\ CanPoll(c)
    /\ parked' = [parked EXCEPT ![c] = FALSE]
    /\ left' = [left EXCEPT ![c] = Pause]
    /\ UNCHANGED <<rotation, starting, call, rpc, to, unread, held, stalled>>

Read(c) ==
    /\ call[c] \in {"open", "broken"} /\ unread[c] # <<>>
    /\ held' = [held EXCEPT ![c] = Head(unread[c])]
    /\ unread' = [unread EXCEPT ![c] = Tail(@)]
    /\ UNCHANGED <<rotation, starting, call, rpc, to, parked, left, stalled>>

-----------------------------------------------------------------------------
(* Time, and the specification. *)

Older(r) == IF r.root = Nobody \/ r.age > Ttl THEN r ELSE [r EXCEPT !.age = @ + 1]

Tick ==
    /\ \A c \in Calls : ~CanAccept(c) /\ ~CanEmit(c) /\ ~CanPoll(c)
    /\ left' = [c \in Calls |-> IF call[c] = "open" /\ ~parked[c] /\ left[c] > 0
                                 THEN left[c] - 1 ELSE left[c]]
    /\ held' = [c \in Calls |-> Older(held[c])]
    /\ unread' = [c \in Calls |-> [i \in DOMAIN unread[c] |-> Older(unread[c][i])]]
    /\ stalled' = [c \in Calls |-> stalled[c] \/ (call[c] = "open" /\ unread[c] # <<>>)]
    /\ UNCHANGED <<rotation, starting, call, rpc, to, parked>>

Process(a) == Check(a) \/ Remove(a) \/ Bind(a) \/ Serve(a) \/ Kill(a)

Client(c) ==
    \/ \E m \in Methods : Dial(c, m)
    \/ HangUp(c)
    \/ Read(c)

Server(c) == (\E h \in Headers : Accept(c, h)) \/ Emit(c) \/ Poll(c)

Next ==
    \/ \E a \in Agents : Process(a)
    \/ \E c \in Calls : Client(c) \/ Server(c)
    \/ Tick

Spec == Init /\ [][Next]_vars

\* A started process runs on, a stream that can run runs, and a client that keeps
\* its call open keeps reading.  The clock moves: clients that open and drop
\* calls for ever do not hold it, which takes strong fairness.
FairSpec ==
    /\ Spec
    /\ \A a \in Agents : WF_vars(Remove(a) \/ Bind(a) \/ Serve(a))
    /\ \A c \in Calls : WF_vars(Server(c)) /\ WF_vars(Read(c))
    /\ SF_vars(Tick)

-----------------------------------------------------------------------------
(* Properties. *)

\* A client that reads each SVID before time passes holds a valid one for as long
\* as its call is open and the rotation interval is no longer than the TTL: the
\* next SVID is made before the last one expires (server.rs 111-126, svid.rs 153-155).
PromptReaderCovered ==
    \A c \in Calls :
        (call[c] = "open" /\ ~stalled[c] /\ rotation <= Ttl) => held[c].age <= Ttl

\* The replies of call c that the client has not left behind, oldest first.
Reply(c, i) == IF i = 0 THEN held[c] ELSE unread[c][i]

\* r is at least that old; the age of an expired reply is no longer counted.
AgedBy(r, age) == r.age >= age \/ r.age > Ttl

\* A stream makes its replies at least one interval apart, also after it was parked
\* behind a window without room for longer than that: it sleeps anew once it is
\* polled and never catches up, so a slow reader meets no burst (server.rs 119-127).
RepliesArePaced ==
    \A c \in Calls : \A i \in 1..Len(unread[c]) :
        Reply(c, i - 1) # NoReply => AgedBy(Reply(c, i - 1), Reply(c, i).age + rotation)

\* A start fails only because another process was starting on the same path at
\* the same time, or because the path is a directory: the file a dead process
\* left does not stop a restart (main.rs 43-54, server.rs 25).
FailedStartHadRival ==
    \A a \in Agents : pc[a] = "failed" => rival[a] \/ path = Directory

\* A client that has read everything gets another reply, unless it hangs up or
\* the process dies: backpressure never leaves a stream parked for good.
RepliesKeepComing ==
    \A c \in Calls :
        (call[c] = "open" /\ unread[c] = <<>>) ~> (call[c] # "open" \/ unread[c] # <<>>)
=============================================================================
