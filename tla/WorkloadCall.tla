---------------------------- MODULE WorkloadCall ----------------------------
(******************************************************************************)
(* One invocation of the agent CLI against the Workload API socket: `api      *)
(* fetch x509`, `healthcheck` or `healthcheck --shallow` (fetch_x509.rs,      *)
(* healthcheck.rs, rpc/mod.rs), and a server that may be down, crash and      *)
(* restart, hang, refuse the call, or end the stream without a message.       *)
(*                                                                            *)
(* connect() on a Unix socket either finds a listener or fails at once, and   *)
(* tonic does not wait for the peer to speak, so a connect takes no time.     *)
(* Each of the two awaits of a call runs under tokio::time::timeout, which    *)
(* polls the answer before it looks at the deadline.                          *)
(******************************************************************************)
EXTENDS Naturals

CONSTANT Timeouts   \* the values of the timeout, in ticks of the clock

ASSUME TimeoutsAssumption == Timeouts \subseteq Nat

VARIABLES
    prog,       \* "fetch", "deep" or "shallow"
    timeout,    \* --timeout, or DEFAULT_TIMEOUT of the health check
    pc,         \* where the invocation is
    waited,     \* ticks in the await it is in
    spent,      \* ticks in all its awaits
    listening,  \* a server listens on the socket
    conn,       \* the connection of the call: "none", "open" or "broken"
    arrived,    \* what of the answer has arrived: "nothing", "headers", "message"
    over,       \* how the server ended the call: "no", "end" or "status"
    quiet,      \* history: ticks the call has waited for the server's next frame
    fault       \* history: the server was down or crashed, or ended the call

client == <<prog, timeout, pc, waited, spent>>
server == <<listening, conn, arrived, over>>
vars   == <<prog, timeout, pc, waited, spent, listening, conn, arrived, over, quiet, fault>>

Awaits == {"call", "message"}
Ended  == {"ok", "err", "timedout"}

TypeOK ==
    /\ prog \in {"fetch", "deep", "shallow"}
    /\ timeout \in Timeouts
    /\ pc \in {"probe", "connect"} \cup Awaits \cup Ended
    /\ waited \in 0..timeout
    /\ spent \in Nat
    /\ listening \in BOOLEAN
    /\ conn \in {"none", "open", "broken"}
    /\ arrived \in {"nothing", "headers", "message"}
    /\ over \in {"no", "end", "status"}
    /\ quiet \in Nat
    /\ fault \in BOOLEAN

Init ==
    /\ prog \in {"fetch", "deep", "shallow"}
    /\ timeout \in Timeouts
    /\ pc = IF prog = "fetch" THEN "connect" ELSE "probe"
    /\ waited = 0 /\ spent = 0 /\ quiet = 0
    /\ listening \in BOOLEAN
    /\ fault = ~listening
    /\ conn = "none" /\ arrived = "nothing" /\ over = "no"

-----------------------------------------------------------------------------
(* The invocation                                                           *)

Goto(s) == pc' = s /\ waited' = 0 /\ UNCHANGED <<prog, timeout, spent>>

\* check_workload_health: a connection is all it asks for, and it is dropped.
Probe ==
    /\ pc = "probe"
    /\ Goto(IF ~listening THEN "err" ELSE IF prog = "shallow" THEN "ok" ELSE "connect")
    /\ UNCHANGED <<server, quiet, fault>>

\* connect_workload_client, then the call is sent.
Connect ==
    /\ pc = "connect"
    /\ Goto(IF listening THEN "call" ELSE "err")
    /\ conn' = IF listening THEN "open" ELSE conn
    /\ quiet' = 0
    /\ UNCHANGED <<listening, arrived, over, fault>>

\* What the await is for has arrived.
Answered == \/ pc = "call" /\ arrived # "nothing"
            \/ pc = "message" /\ arrived = "message"

Receive ==
    /\ Answered
    /\ Goto(IF pc = "call" THEN "message" ELSE "ok")
    /\ UNCHANGED <<server, quiet, fault>>

\* A status, the end of the stream ("empty response from server"), or a connection
\* that broke, even with an answer still unread in it.
Fail ==
    /\ pc \in Awaits
    /\ conn = "broken" \/ (~Answered /\ over # "no")
    /\ Goto("err")
    /\ UNCHANGED <<server, quiet, fault>>

\* The deadline of this await.  The mutants count one deadline for the whole call,
\* try again, and never give up.
BugOneDeadline ==
    /\ pc \in Awaits
    /\ spent >= timeout /\ ~Answered
    /\ Goto("timedout")
    /\ UNCHANGED <<server, quiet, fault>>
BugTriesAgain ==
    /\ pc \in Awaits
    /\ waited = timeout /\ ~Answered
    /\ Goto("connect")
    /\ UNCHANGED <<server, quiet, fault>>
BugNoDeadline == FALSE /\ UNCHANGED vars
TimesOut ==
    /\ pc \in Awaits
    /\ waited = timeout /\ ~Answered
    /\ Goto("timedout")
    /\ UNCHANGED <<server, quiet, fault>>

\* Time passes; a timer that is due fires before the clock goes on.
BugLateTimer ==
    /\ pc \in Awaits
    /\ waited' = waited + 1 /\ spent' = spent + 1 /\ quiet' = quiet + 1
    /\ UNCHANGED <<prog, timeout, pc, server, fault>>
Tick ==
    /\ pc \in Awaits
    /\ waited < timeout
    /\ waited' = waited + 1 /\ spent' = spent + 1 /\ quiet' = quiet + 1
    /\ UNCHANGED <<prog, timeout, pc, server, fault>>

-----------------------------------------------------------------------------
(* The server                                                               *)

Serving == conn = "open" /\ over = "no" /\ pc \in Awaits

SendHeaders ==
    /\ Serving /\ arrived = "nothing"
    /\ arrived' = "headers" /\ quiet' = 0
    /\ UNCHANGED <<client, listening, conn, over, fault>>

SendMessage ==
    /\ Serving /\ arrived = "headers"
    /\ arrived' = "message" /\ quiet' = 0
    /\ UNCHANGED <<client, listening, conn, over, fault>>

\* A status in place of the headers or of the message, or a stream that ends.
EndCall ==
    /\ Serving /\ arrived # "message"
    /\ over' \in IF arrived = "headers" THEN {"end", "status"} ELSE {"status"}
    /\ fault' = TRUE
    /\ UNCHANGED <<client, listening, conn, arrived, quiet>>

\* The process that holds the connection dies; the listener may be another's.
Crash ==
    /\ conn = "open"
    /\ conn' = "broken" /\ fault' = TRUE
    /\ listening' \in {FALSE, listening}
    /\ UNCHANGED <<client, arrived, over, quiet>>

\* The listener is lost, the connections it has accepted are not.
Unlisten ==
    /\ listening
    /\ listening' = FALSE /\ fault' = TRUE
    /\ UNCHANGED <<client, conn, arrived, over, quiet>>

Restart ==
    /\ ~listening
    /\ listening' = TRUE
    /\ UNCHANGED <<client, conn, arrived, over, quiet, fault>>

-----------------------------------------------------------------------------
Invocation  == Probe \/ Connect \/ Receive \/ Fail \/ TimesOut
Environment == SendHeaders \/ SendMessage \/ EndCall \/ Crash \/ Unlisten \/ Restart

Next == Invocation \/ Tick \/ Environment

\* The runtime polls what is ready and the clock goes on; of the server nothing is
\* expected.
Spec     == Init /\ [][Next]_vars
FairSpec == Spec /\ WF_vars(Invocation) /\ WF_vars(Tick)

-----------------------------------------------------------------------------
(* Properties                                                               *)

\* Whatever the server does and whenever, an invocation waits for at most twice its
\* timeout: once for the headers of the answer, once for its first message.
BoundedWait == spent <= 2 * timeout

\* No failure is spurious: an error comes from a server that was down, crashed or
\* ended the call, and a timeout from one that let the whole timeout pass without
\* sending what the call was waiting for, however the waits before it went.
FailureHasCause == /\ pc = "err" => fault
                   /\ pc = "timedout" => quiet >= timeout

\* `api fetch` has a response to print, and `healthcheck` says "Agent is healthy.",
\* only after a message arrived on the connection of the call.
SuccessWasServed == pc = "ok" /\ prog # "shallow" => arrived = "message" /\ conn # "none"

\* Every invocation ends, even if the server accepts it and then never answers.
EveryCallEnds == <>(pc \in Ended)

\* The invocation is one request: one outcome, which is final, within twice the
\* limit, a success only with an answer, an error only with a fault.
Request == INSTANCE Request WITH
    needsAnswer <- prog # "shallow",
    limit <- timeout,
    elapsed <- spent,
    answered <- (arrived = "message"),
    outcome <- IF pc \in Ended THEN pc ELSE "none"

ImplementsRequest == Request!Spec

\* commands.rs:47, the help of --timeout: "Time to wait for a response (default 1s)".
WaitsAtMostTimeout == spent <= timeout
=============================================================================
