------------------------------ MODULE Session ------------------------------
(******************************************************************************)
(* The two programs together: one invocation of the agent CLI, from its       *)
(* command line (commands.rs) to its exit, and mock processes that start,     *)
(* die and displace each other on the socket it connects to.  WorkloadCall    *)
(* has a server that may do anything; here the server is MockAgent, and       *)
(* what the CLI sees of it is shown to be what WorkloadCall allows.           *)
(*                                                                            *)
(* A tick is a millisecond, the resolution of tokio's timers.                 *)
(******************************************************************************)
EXTENDS MockAgent

CONSTANTS
    Cli,        \* the call of the invocation
    CommandLines,
    Thousand,   \* 1000: microseconds in a tick, ticks in a second
    Sixty,      \* 60
    MaxU64,     \* u64::MAX
    Horizon,    \* the longest time that can be added to an Instant, in ticks
    FarFuture   \* the deadline tokio sets instead when it cannot

Units == {"", "s", "ns", "us", "ms", "m", "h"}

\* A duration is digits and a unit; "other": whatever is not.
ASSUME CommandLinesAssumption ==
    CommandLines \subseteq [cmd : {"help", "watch", "fetch", "healthcheck"}, shallow : BOOLEAN,
                            output : {"pretty", "json"}, digits : Nat,
                            unit : Units \cup {"other"}]

ASSUME CliAssumption == Cli \in Calls /\ <<"true">> \in Headers

ASSUME ClockAssumption ==
    /\ Thousand \in Nat \ {0} /\ Sixty \in Nat \ {0}
    /\ MaxU64 \in Nat /\ Horizon \in Nat /\ FarFuture \in Nat
    /\ FarFuture <= Horizon /\ FarFuture <= MaxU64

VARIABLES
    args,      \* the command line
    at,        \* where the invocation is
    waited,    \* ticks in the await it is in
    spent,     \* ticks in all its awaits
    arrived,   \* what of the answer has arrived: "nothing", "headers", "message"
    quiet,     \* history: ticks the call has waited for the server's next frame
    fault      \* history: the server was down, died or refused the call

cli     == <<args, at, waited, spent>>
seen    == <<arrived, quiet, fault>>
session == <<args, at, waited, spent, arrived, quiet, fault, vars>>

Exits == {"ok", "err", "timedout"}
Waits == {"call", "message"}

-----------------------------------------------------------------------------
(* The command line *)

\* Plausible slip: a product that wraps around.
BugWrapping(v, k) == (v * k) % (MaxU64 + 1)

SaturatingMul(v, k) == IF v * k <= MaxU64 THEN v * k ELSE MaxU64

\* A timer rounds a fraction of a tick up.
CeilDiv(v, k) == (v + k - 1) \div k

\* split_duration and parse_duration: digits that fit a u64, and a unit.
Parses(a) == a.digits <= MaxU64 /\ a.unit \in Units

Parsed(v, unit) ==
    CASE unit = "h"  -> SaturatingMul(v, Sixty * Sixty) * Thousand
      [] unit = "m"  -> SaturatingMul(v, Sixty) * Thousand
      [] unit = "ms" -> v
      [] unit = "us" -> CeilDiv(v, Thousand)
      [] unit = "ns" -> CeilDiv(v, Thousand * Thousand)
      [] OTHER       -> v * Thousand

\* tokio::time::timeout.
Deadline(d) == IF d <= Horizon THEN d ELSE FarFuture

\* --timeout of a fetch; DEFAULT_TIMEOUT of the health check.
Limit == IF args.cmd = "fetch" /\ Parses(args)
         THEN Deadline(Parsed(args.digits, args.unit)) ELSE Thousand

\* The same without widths: what the user asked for.
Asked(v, unit) ==
    IF unit \in {"h", "m"} THEN v * (IF unit = "h" THEN Sixty * Sixty ELSE Sixty) * Thousand
    ELSE Parsed(v, unit)

Listening == path \in Agents /\ pc[path] \in Up

SessionInit ==
    /\ Init
    /\ args \in CommandLines
    /\ at = "args" /\ waited = 0 /\ spent = 0
    /\ arrived = "nothing" /\ quiet = 0 /\ fault = ~Listening

\* What a step of the mock, or of the client on it, changes for the invocation.
Observe ==
    /\ arrived' = IF at \notin Waits THEN arrived
                  ELSE IF unread'[Cli] # <<>> THEN "message"
                  ELSE IF call'[Cli] = "open" /\ arrived = "nothing" THEN "headers" ELSE arrived
    /\ quiet' = IF arrived' # arrived THEN 0 ELSE quiet
    /\ fault' = (fault \/ ~Listening' \/ call'[Cli] \in {"refused", "broken"})

Goto(s) == at' = s /\ waited' = 0 /\ UNCHANGED <<args, spent>>

\* run(): the command, then --output, then --timeout; `api watch` does nothing.
Dispatch ==
    /\ at = "args"
    /\ Goto(IF args.cmd \in {"help", "watch"} THEN "noop"
            ELSE IF args.cmd = "healthcheck" THEN "probe"
            ELSE IF args.output = "pretty" /\ Parses(args) THEN "connect" ELSE "usage")
    /\ UNCHANGED <<seen, vars>>

-----------------------------------------------------------------------------
(* The invocation and the mock *)

\* The first connection of the health check; no request is sent on it.
Probe ==
    /\ at = "probe"
    /\ Goto(IF ~Listening THEN "err" ELSE IF args.shallow THEN "ok" ELSE "connect")
    /\ UNCHANGED <<seen, vars>>

\* connect_workload_client: no process needs to accept the connection yet.
Connect ==
    /\ at = "connect"
    /\ IF Listening THEN Dial(Cli, "FetchX509SVID") ELSE UNCHANGED vars
    /\ Goto(IF Listening THEN "call" ELSE "err")
    /\ Observe

Answered == \/ at = "call" /\ arrived # "nothing"
            \/ at = "message" /\ arrived = "message"

ReceiveHeaders ==
    /\ at = "call" /\ Answered
    /\ Goto("message")
    /\ UNCHANGED <<seen, vars>>

ReceiveMessage ==
    /\ at = "message" /\ Answered
    /\ Read(Cli)
    /\ Goto("ok")
    /\ UNCHANGED seen

\* Plausible slips: a broken connection is tried again; only the second await has a
\* deadline; the deadline is looked at a tick late.
BugRetries ==
    /\ at \in Waits
    /\ call[Cli] = "broken" \/ (call[Cli] = "refused" /\ ~Answered)
    /\ Goto("connect")
    /\ UNCHANGED <<seen, vars>>
BugLateAwait ==
    /\ at = "message"
    /\ waited = Limit /\ ~Answered
    /\ Goto("timedout")
    /\ UNCHANGED <<seen, vars>>
BugLateClock ==
    /\ Tick
    /\ IF at \in Waits THEN waited' = waited + 1 /\ spent' = spent + 1 /\ quiet' = quiet + 1
                       ELSE UNCHANGED <<waited, spent, quiet>>
    /\ UNCHANGED <<args, at, arrived, fault>>

Fail ==
    /\ at \in Waits
    /\ call[Cli] = "broken" \/ (call[Cli] = "refused" /\ ~Answered)
    /\ Goto("err")
    /\ UNCHANGED <<seen, vars>>

TimesOut ==
    /\ at \in Waits
    /\ waited = Limit /\ ~Answered
    /\ Goto("timedout")
    /\ UNCHANGED <<seen, vars>>

\* The client is dropped, with the first message or without.
Leave ==
    /\ at \in Exits
    /\ HangUp(Cli)
    /\ UNCHANGED <<cli, seen>>

\* Plausible slip: the header added on top of one that is there.
BugTwice == <<"true", "true">>

\* add_security_header inserts the header, replacing any other value of it.
Sent == <<"true">>

MockStep ==
    /\ Accept(Cli, Sent) \/ Emit(Cli) \/ Poll(Cli) \/ (\E a \in Agents : Process(a))
    /\ Observe
    /\ UNCHANGED cli

\* Time passes for both; a deadline that has come is not passed.
Clock ==
    /\ Tick
    /\ IF at \in Waits
       THEN /\ waited < Limit
            /\ waited' = waited + 1 /\ spent' = spent + 1 /\ quiet' = quiet + 1
       ELSE UNCHANGED <<waited, spent, quiet>>
    /\ UNCHANGED <<args, at, arrived, fault>>

Invocation ==
    Dispatch \/ Probe \/ Connect \/ ReceiveHeaders \/ ReceiveMessage \/ Fail \/ TimesOut

SessionNext == Invocation \/ Leave \/ MockStep \/ Clock

SessionSpec == SessionInit /\ [][SessionNext]_session

\* The invocation runs and the clock moves; of the mock nothing is expected but that
\* a stream that can run does, since time waits for it.
FairSession ==
    /\ SessionSpec
    /\ WF_session(Invocation) /\ WF_session(Clock)
    /\ WF_session(MockStep /\ (Accept(Cli, Sent) \/ Emit(Cli) \/ Poll(Cli)))

-----------------------------------------------------------------------------
(* Properties *)

SessionTypeOK ==
    /\ TypeOK
    /\ args \in CommandLines
    /\ at \in {"args", "noop", "usage", "probe", "connect"} \cup Waits \cup Exits
    /\ waited \in 0..Limit
    /\ spent \in Nat /\ quiet \in Nat
    /\ arrived \in {"nothing", "headers", "message"}
    /\ fault \in BOOLEAN

\* The invocation as WorkloadCall has it.  One that needs no server, or has not looked
\* for it, has not started there; a call that was dropped keeps its connection.
Prog == IF args.cmd = "fetch" THEN "fetch" ELSE IF args.shallow THEN "shallow" ELSE "deep"
Pc   == IF at \in {"args", "noop", "usage"}
        THEN IF args.cmd = "fetch" THEN "connect" ELSE "probe" ELSE at
Conn == IF to[Cli] = Nobody THEN "none" ELSE IF call[Cli] = "broken" THEN "broken" ELSE "open"
Over == IF call[Cli] = "refused" THEN "status" ELSE "no"

Call == INSTANCE WorkloadCall WITH
    Timeouts <- Nat, prog <- Prog, timeout <- Limit, pc <- Pc,
    listening <- Listening, conn <- Conn, over <- Over

\* The mock is a server WorkloadCall allows, whatever its processes do to each other's
\* sockets and at whatever step they die: what is shown there of every invocation
\* (one outcome, bounded wait, a cause for each failure) holds of these two programs.
ImplementsCall == Call!Spec

\* The two programs agree on the protocol: an invocation that fails found no
\* listener or lost its process; the mock refused none (rpc/mod.rs 45-51 against
\* server.rs 49-74).
ErrorsAreAbsence == at = "err" => call[Cli] \in {"idle", "broken"}

\* A call that was accepted is answered before any timeout, however long the rotation
\* interval: an invocation times out only on a process that bound the socket and is
\* still making its CAs, or on one that was killed (server.rs 25-29, 119-127).
SlowMeansNotServing ==
    at = "timedout" /\ Limit > 0 => arrived = "nothing" \/ call[Cli] = "broken"

\* An invocation that times out has waited, without a frame from the server, for as
\* long as the command line asked, in every unit, however large the number; the
\* clock's own end is the only exception (commands.rs 94-124).
TimeoutHonoured ==
    at = "timedout" /\ args.cmd = "fetch" =>
        quiet >= Asked(args.digits, args.unit) \/ quiet >= FarFuture

\* A fetch prints an SVID that the process it reached made for this very call: its
\* root is that process's, and it is no older than the call (fetch_x509.rs 40-58,
\* server.rs 111-127), whatever starts and dies meanwhile.
SvidIsFresh ==
    [][at = "message" /\ at' = "ok" =>
          held'[Cli].root = to[Cli] /\ held'[Cli].age <= spent]_session

\* Every invocation ends, also one that connected to a process nobody accepts for.
SessionEnds == <>(at \in Exits \cup {"noop", "usage"})
=============================================================================
