--------------------------- MODULE SessionProofs ---------------------------
(******************************************************************************)
(* The safety theorems about Session: its steps on the mock are steps of      *)
(* MockAgent, so what MockAgentProofs shows holds of it, and what the CLI     *)
(* sees is a behaviour of WorkloadCall.                                       *)
(******************************************************************************)
EXTENDS Session, MockAgentProofs

Unstarted == {"args", "noop", "usage", "probe", "connect"}

\* The command line decides where the invocation can be.
ArgsOK ==
    /\ args \in CommandLines
    /\ at \in Unstarted \cup Waits \cup Exits
    /\ at = "probe" => args.cmd = "healthcheck"
    /\ at \in {"connect"} \cup Waits \cup Exits /\ args.cmd = "fetch" => Parses(args)

\* What the call of the mock says of the invocation that made it.
LinkOK ==
    /\ at \in Unstarted => call[Cli] = "idle" /\ to[Cli] = Nobody /\ arrived = "nothing"
    /\ at \in Waits => call[Cli] \in {"waiting", "open", "broken"}
    /\ at \in Exits => call[Cli] \in {"idle", "waiting", "open", "broken"}
    /\ call[Cli] \in Live => rpc[Cli] = "FetchX509SVID"
    /\ call[Cli] = "broken" => to[Cli] # Nobody
    /\ ErrorsAreAbsence

\* What has arrived, and what the stream has made of it.
ArrivedOK ==
    /\ arrived \in {"nothing", "headers", "message"}
    /\ at \in Waits /\ call[Cli] = "waiting" => arrived = "nothing"
    /\ at \in Waits /\ call[Cli] = "open" => arrived # "nothing"
    /\ at \in Waits => (unread[Cli] = <<>> <=> arrived # "message")
    /\ at \in Waits /\ call[Cli] = "open" /\ arrived = "headers" => ~parked[Cli] /\ left[Cli] = 0
    /\ at = "message" => arrived # "nothing"

FaultOK == fault \in BOOLEAN /\ (~Listening \/ call[Cli] = "broken" => fault)

\* The wait for a frame is never shorter than the await that asks for it, and a call
\* that is accepted waits for nothing.
WaitOK ==
    /\ waited \in 0..Limit /\ spent \in Nat /\ quiet \in Nat
    /\ at \in Unstarted => waited = 0 /\ spent = 0 /\ quiet = 0
    /\ at \in Waits /\ ~Answered => waited <= quiet
    /\ at = "timedout" => quiet >= Limit
    /\ at = "message" /\ call[Cli] = "open" /\ arrived = "headers" => waited = 0
    /\ SlowMeansNotServing

SInv == ArgsOK /\ LinkOK /\ ArrivedOK /\ FaultOK /\ WaitOK

-----------------------------------------------------------------------------
(* The operators *)

LEMMA CeilDivNat == ASSUME NEW v \in Nat, NEW k \in Nat \ {0} PROVE CeilDiv(v, k) \in Nat
  BY DEF CeilDiv

LEMMA ProductNat == ASSUME NEW v \in Nat, NEW k \in Nat PROVE v * k \in Nat
  OBVIOUS

LEMMA SaturatingMulNat ==
    ASSUME NEW v \in Nat, NEW k \in Nat PROVE SaturatingMul(v, k) \in Nat
  BY ClockAssumption, ProductNat DEF SaturatingMul

LEMMA ParsedNat == ASSUME NEW v \in Nat, NEW u PROVE Parsed(v, u) \in Nat
<1> USE ClockAssumption
<1>1. Sixty * Sixty \in Nat /\ Thousand * Thousand \in Nat \ {0}
  OBVIOUS
<1>2. SaturatingMul(v, Sixty * Sixty) \in Nat /\ SaturatingMul(v, Sixty) \in Nat
  BY <1>1, SaturatingMulNat
<1>3. CeilDiv(v, Thousand) \in Nat /\ CeilDiv(v, Thousand * Thousand) \in Nat
  BY <1>1, CeilDivNat
<1>4. /\ SaturatingMul(v, Sixty * Sixty) * Thousand \in Nat
      /\ SaturatingMul(v, Sixty) * Thousand \in Nat /\ v * Thousand \in Nat
  BY <1>2, ProductNat
<1> QED
  BY <1>3, <1>4 DEF Parsed

LEMMA LimitNat == ASSUME ArgsOK PROVE Limit \in Nat
<1>1. args.digits \in Nat
  BY CommandLinesAssumption DEF ArgsOK
<1>2. Parsed(args.digits, args.unit) \in Nat
  BY <1>1, ParsedNat
<1> QED
  BY <1>2, ClockAssumption DEF Limit, Deadline

\* A saturated product is still longer than the clock's own end.
LEMMA SaturatedIsFar ==
    ASSUME NEW v \in Nat, NEW k \in Nat
    PROVE  SaturatingMul(v, k) * Thousand = (v * k) * Thousand
           \/ SaturatingMul(v, k) * Thousand >= FarFuture
<1> USE ClockAssumption
<1>1. CASE v * k <= MaxU64
  BY <1>1 DEF SaturatingMul
<1>2. CASE ~(v * k <= MaxU64)
  <2>1. SaturatingMul(v, k) = MaxU64
    BY <1>2 DEF SaturatingMul
  <2>2. MaxU64 * Thousand >= MaxU64
    OBVIOUS
  <2> QED
    BY <2>1, <2>2
<1> QED
  BY <1>1, <1>2

LEMMA HonestLimit ==
    ASSUME NEW v \in Nat, NEW u, NEW d, d = Deadline(Parsed(v, u))
    PROVE  d >= Asked(v, u) \/ d >= FarFuture
<1> USE ClockAssumption
<1>1. Parsed(v, u) \in Nat /\ Sixty * Sixty \in Nat
  BY ParsedNat
<1>2. Parsed(v, u) = Asked(v, u) \/ Parsed(v, u) >= FarFuture
  <2>1. CASE u = "h"
    BY <2>1, <1>1, SaturatedIsFar DEF Parsed, Asked
  <2>2. CASE u = "m"
    BY <2>2, <1>1, SaturatedIsFar DEF Parsed, Asked
  <2>3. CASE u \notin {"h", "m"}
    BY <2>3 DEF Asked
  <2> QED
    BY <2>1, <2>2, <2>3
<1> QED
  BY <1>1, <1>2 DEF Deadline

LEMMA AskedNat == ASSUME NEW v \in Nat, NEW u PROVE Asked(v, u) \in Nat
<1> USE ClockAssumption
<1>1. v * Sixty \in Nat /\ v * (Sixty * Sixty) \in Nat
  BY ProductNat
<1>2. (v * Sixty) * Thousand \in Nat /\ (v * (Sixty * Sixty)) * Thousand \in Nat
  BY <1>1, ProductNat
<1> QED
  BY <1>2, ParsedNat DEF Asked

LEMMA SentAccepted == Accepted(Sent)
<1>1. DOMAIN Sent = {1} /\ Sent[1] = "true"
  BY DEF Sent
<1> QED
  BY <1>1 DEF Accepted

-----------------------------------------------------------------------------
(* Session and MockAgent *)

LEMMA StepOfMock == [SessionNext]_session => [Next]_vars
<1> SUFFICES ASSUME [SessionNext]_session PROVE [Next]_vars
  OBVIOUS
<1> USE CliAssumption
<1>1. CASE UNCHANGED session
  BY <1>1 DEF session
<1>2. CASE Dispatch \/ Probe \/ ReceiveHeaders \/ Fail \/ TimesOut
  BY <1>2 DEF Dispatch, Probe, ReceiveHeaders, Fail, TimesOut
<1>3. CASE Connect
  <2>1. UNCHANGED vars \/ Dial(Cli, "FetchX509SVID")
    BY <1>3 DEF Connect
  <2> QED
    BY <2>1 DEF Next, Client, Methods
<1>4. CASE ReceiveMessage
  BY <1>4 DEF ReceiveMessage, Next, Client
<1>5. CASE Leave
  BY <1>5 DEF Leave, Next, Client
<1>6. CASE MockStep
  BY <1>6 DEF MockStep, Next, Server, Sent
<1>7. CASE Clock
  BY <1>7 DEF Clock, Next
<1> QED
  BY <1>1, <1>2, <1>3, <1>4, <1>5, <1>6, <1>7 DEF SessionNext, Invocation

\* A session is a behaviour of the mock: every theorem about MockAgent holds of it.
THEOREM SessionIsMock == SessionSpec => Spec
  BY StepOfMock, PTL DEF SessionSpec, SessionInit, Spec

-----------------------------------------------------------------------------
(* What a step of the mock changes for the call of the invocation *)

LEMMA ListeningKept == UNCHANGED <<path, pc>> => Listening' = Listening
  BY DEF Listening

\* A process that starts or dies may break the call and may gain or lose the listener.
LEMMA ProcessEffect ==
    ASSUME IInv, NEW a \in Agents, Process(a)
    PROVE  /\ UNCHANGED <<rpc, to, parked, left, unread, held>>
           /\ \/ call'[Cli] = call[Cli]
              \/ /\ call[Cli] \in Live /\ call'[Cli] = "broken"
                 /\ to[Cli] # Nobody /\ Listening' \in {FALSE, Listening}
<1> USE CliAssumption DEF streams
<1>1. CASE Check(a) \/ Remove(a) \/ Bind(a) \/ Serve(a)
  <2>1. UNCHANGED streams
    BY <1>1 DEF Check, Remove, Bind, Serve
  <2> QED
    BY <2>1
<1>2. CASE Kill(a)
  <2>1. UNCHANGED <<path, rpc, to, parked, left, unread, held>>
    BY <1>2 DEF Kill
  <2>2. call'[Cli] = IF call[Cli] \in Live /\ to[Cli] = a THEN "broken" ELSE call[Cli]
    BY <1>2 DEF Kill, IInv, TypeOK
  <2>3. pc' = [pc EXCEPT ![a] = "dead"] /\ pc \in [Agents -> {"off", "failed", "dead"} \cup Starting \cup Up]
    BY <1>2 DEF Kill, IInv, TypeOK
  <2>4. Listening' \in {FALSE, Listening}
    <3>1. CASE path = a
      BY <2>1, <2>3, <3>1 DEF Listening, Up
    <3>2. CASE path # a
      BY <2>1, <2>3, <3>2 DEF Listening
    <3> QED
      BY <3>1, <3>2
  <2>5. a # Nobody
    BY NamesAssumption
  <2> QED
    BY <2>1, <2>2, <2>4, <2>5
<1> QED
  BY <1>1, <1>2 DEF Process

LEMMA DialEffect ==
    ASSUME IInv, Dial(Cli, "FetchX509SVID")
    PROVE  /\ UNCHANGED <<path, pc>> /\ Listening
           /\ call'[Cli] = "waiting" /\ rpc'[Cli] = "FetchX509SVID"
           /\ to'[Cli] # Nobody /\ unread'[Cli] = <<>>
  BY CliAssumption, NamesAssumption DEF Dial, IInv, TypeOK, starting, Listening, Methods

LEMMA AcceptEffect ==
    ASSUME IInv, LinkOK, Accept(Cli, Sent)
    PROVE  /\ UNCHANGED <<path, pc, rpc, to, parked, left, unread>>
           /\ call[Cli] = "waiting" /\ call'[Cli] = "open"
           /\ unread[Cli] = <<>> /\ ~parked[Cli] /\ left[Cli] = 0
<1>1. call[Cli] = "waiting" /\ rpc[Cli] # "JWT"
  BY DEF Accept, CanAccept, LinkOK, Live
<1>2. call'[Cli] = "open"
  BY <1>1, SentAccepted, CliAssumption DEF Accept, IInv, TypeOK
<1>3. unread[Cli] = <<>> /\ ~parked[Cli] /\ left[Cli] = 0
  BY <1>1, CliAssumption DEF IInv, CallsOK, RootsOf
<1> QED
  BY <1>1, <1>2, <1>3 DEF Accept, starting

LEMMA EmitEffect ==
    ASSUME IInv, Emit(Cli)
    PROVE  /\ UNCHANGED <<path, pc, rpc, to, call, left>>
           /\ call[Cli] = "open" /\ unread'[Cli] # <<>>
<1>1. unread[Cli] \in Seq(Replies)
  BY CliAssumption DEF IInv, TypeOK
<1>2. Append(unread[Cli], Minted(Cli)) # <<>>
  BY <1>1
<1>3. unread'[Cli] = Append(unread[Cli], Minted(Cli))
  BY CliAssumption DEF Emit, IInv, TypeOK
<1> QED
  BY <1>2, <1>3 DEF Emit, CanEmit, starting

LEMMA PollEffect ==
    ASSUME IInv, Poll(Cli)
    PROVE  /\ UNCHANGED <<path, pc, rpc, to, call, unread>>
           /\ call[Cli] = "open" /\ parked[Cli]
  BY DEF Poll, CanPoll, starting

LEMMA TickEffect ==
    ASSUME IInv, Tick
    PROVE  /\ UNCHANGED <<path, pc, rpc, to, call, parked>>
           /\ unread'[Cli] = <<>> <=> unread[Cli] = <<>>
           /\ left[Cli] = 0 => left'[Cli] = 0
           /\ ~CanEmit(Cli)
<1> USE CliAssumption
<1>1. unread[Cli] \in Seq(Replies) /\ left[Cli] \in 0..rotation /\ rotation \in Nat
  BY NumbersAssumption DEF IInv, TypeOK
<1>2. unread'[Cli] = [i \in DOMAIN unread[Cli] |-> Older(unread[Cli][i])]
  BY DEF Tick
<1>3. DOMAIN unread'[Cli] = DOMAIN unread[Cli]
  BY <1>2
<1>4. DOMAIN unread[Cli] = 1..Len(unread[Cli]) /\ Len(unread[Cli]) \in Nat
  BY <1>1
<1>5. unread[Cli] = <<>> => unread'[Cli] = <<>>
  BY <1>1, <1>2
<1>6. unread'[Cli] = <<>> => unread[Cli] = <<>>
  <2> SUFFICES ASSUME unread'[Cli] = <<>> PROVE unread[Cli] = <<>>
    OBVIOUS
  <2>1. 1 \notin 1..Len(unread[Cli])
    BY <1>3, <1>4
  <2>2. Len(unread[Cli]) = 0
    BY <1>4, <2>1
  <2> QED
    BY <1>1, <2>2
<1>7. left[Cli] = 0 => left'[Cli] = 0
  BY <1>1 DEF Tick
<1> QED
  BY <1>5, <1>6, <1>7 DEF Tick, starting

-----------------------------------------------------------------------------
(* The invariant *)

LEMMA SessionInitInv == SessionInit => SInv
<1> SUFFICES ASSUME SessionInit PROVE SInv
  OBVIOUS
<1> USE CliAssumption DEF SessionInit
<1>1. call[Cli] = "idle" /\ to[Cli] = Nobody
  BY DEF Init
<1>2. ArgsOK
  BY DEF ArgsOK, Unstarted, Waits, Exits
<1>3. 0 \in 0..Limit
  BY <1>2, LimitNat
<1>4. LinkOK /\ ArrivedOK /\ FaultOK
  BY <1>1 DEF LinkOK, ArrivedOK, FaultOK, Unstarted, Waits, Exits, Live, ErrorsAreAbsence, Listening
<1>5. WaitOK
  BY <1>3 DEF WaitOK, Waits, SlowMeansNotServing
<1> QED
  BY <1>2, <1>4, <1>5 DEF SInv

\* A step of the invocation that leaves the mock and what it sees of it alone.
LEMMA QuietStep ==
    ASSUME SInv, UNCHANGED <<seen, vars>>, Dispatch \/ Probe \/ ReceiveHeaders \/ Fail \/ TimesOut
    PROVE  SInv'
<1> USE DEF seen, vars, Goto, SInv
<1>1. /\ UNCHANGED <<args, spent, path, pc, call, rpc, to, parked, left, unread, arrived, quiet, fault>>
      /\ waited' = 0
  BY DEF Dispatch, Probe, ReceiveHeaders, Fail, TimesOut
<1>2. Limit' = Limit /\ Limit \in Nat
  BY <1>1, LimitNat DEF Limit, Parses
<1>3. Listening' = Listening
  BY <1>1, ListeningKept
<1>4. FaultOK'
  BY <1>1, <1>3 DEF FaultOK
<1>5. CASE Dispatch
  <2>1. /\ at = "args" /\ at' \in {"noop", "probe", "connect", "usage"}
        /\ at' = "probe" => args.cmd = "healthcheck"
        /\ at' = "connect" => Parses(args)
    BY <1>5 DEF Dispatch
  <2>2. ArgsOK'
    BY <1>1, <2>1 DEF ArgsOK, Unstarted, Waits, Exits, Parses
  <2>3. LinkOK' /\ ArrivedOK'
    BY <1>1, <2>1 DEF LinkOK, ArrivedOK, Unstarted, Waits, Exits, Live, ErrorsAreAbsence
  <2>4. WaitOK'
    BY <1>1, <1>2, <2>1 DEF WaitOK, Unstarted, Waits, Exits, SlowMeansNotServing
  <2> QED
    BY <1>4, <2>2, <2>3, <2>4
<1>6. CASE Probe
  <2>1. at = "probe" /\ at' \in {"err", "ok", "connect"} /\ args.cmd = "healthcheck"
    BY <1>6 DEF Probe, ArgsOK
  <2>2. ArgsOK'
    BY <1>1, <2>1 DEF ArgsOK, Unstarted, Waits, Exits, Parses
  <2>3. LinkOK' /\ ArrivedOK'
    BY <1>1, <2>1 DEF LinkOK, ArrivedOK, Unstarted, Waits, Exits, Live, ErrorsAreAbsence
  <2>4. WaitOK'
    BY <1>1, <1>2, <2>1 DEF WaitOK, Unstarted, Waits, Exits, SlowMeansNotServing
  <2> QED
    BY <1>4, <2>2, <2>3, <2>4
<1>7. CASE ReceiveHeaders
  <2>1. at = "call" /\ at' = "message" /\ arrived # "nothing"
    BY <1>7 DEF ReceiveHeaders, Answered
  <2>2. ArgsOK'
    BY <1>1, <2>1 DEF ArgsOK, Unstarted, Waits, Exits, Parses
  <2>3. LinkOK' /\ ArrivedOK'
    BY <1>1, <2>1 DEF LinkOK, ArrivedOK, Unstarted, Waits, Exits, Live, ErrorsAreAbsence
  <2>4. WaitOK'
    BY <1>1, <1>2, <2>1 DEF WaitOK, Unstarted, Waits, Exits, SlowMeansNotServing
  <2> QED
    BY <1>4, <2>2, <2>3, <2>4
<1>8. CASE Fail
  <2>1. at \in Waits /\ at' = "err" /\ call[Cli] = "broken"
    BY <1>8 DEF Fail, LinkOK
  <2>2. ArgsOK'
    BY <1>1, <2>1 DEF ArgsOK, Unstarted, Waits, Exits, Parses
  <2>3. LinkOK' /\ ArrivedOK'
    BY <1>1, <2>1 DEF LinkOK, ArrivedOK, Unstarted, Waits, Exits, Live, ErrorsAreAbsence
  <2>4. WaitOK'
    BY <1>1, <1>2, <2>1 DEF WaitOK, Unstarted, Waits, Exits, SlowMeansNotServing
  <2> QED
    BY <1>4, <2>2, <2>3, <2>4
<1>9. CASE TimesOut
  <2>1. at \in Waits /\ at' = "timedout" /\ waited = Limit /\ ~Answered
    BY <1>9 DEF TimesOut
  <2>2. ArgsOK'
    BY <1>1, <2>1 DEF ArgsOK, Unstarted, Waits, Exits, Parses
  <2>3. LinkOK' /\ ArrivedOK'
    BY <1>1, <2>1 DEF LinkOK, ArrivedOK, Unstarted, Waits, Exits, Live, ErrorsAreAbsence
  <2>4. quiet >= Limit
    BY <1>2, <2>1 DEF WaitOK
  <2>5. Limit > 0 => arrived = "nothing" \/ call[Cli] = "broken"
    BY <1>2, <2>1 DEF WaitOK, ArrivedOK, LinkOK, Answered, Waits
  <2>6. WaitOK'
    BY <1>1, <1>2, <2>1, <2>4, <2>5 DEF WaitOK, Unstarted, Waits, Exits, SlowMeansNotServing
  <2> QED
    BY <1>4, <2>2, <2>3, <2>6
<1> QED
  BY <1>5, <1>6, <1>7, <1>8, <1>9

\* A step of the mock alone, or of the client on it: what the invocation observes.
LEMMA ObserveFault == ASSUME Observe PROVE FaultOK'
  BY DEF Observe, FaultOK

LEMMA ConnectInv == ASSUME SInv, IInv, Connect PROVE SInv'
<1> USE DEF Goto, SInv
<1>1. /\ at = "connect" /\ UNCHANGED <<args, spent>> /\ waited' = 0 /\ Observe
      /\ at' = IF Listening THEN "call" ELSE "err"
  BY DEF Connect
<1>2. Limit' = Limit /\ Limit \in Nat
  BY <1>1, LimitNat DEF Limit, Parses
<1>3. UNCHANGED <<arrived, quiet>> /\ arrived = "nothing" /\ quiet = 0
  <2>1. at \notin Waits /\ at \in Unstarted
    BY <1>1 DEF Waits, Unstarted
  <2>2. arrived' = arrived
    BY <1>1, <2>1 DEF Observe
  <2>3. quiet' = quiet
    BY <1>1, <2>2 DEF Observe
  <2> QED
    BY <2>1, <2>2, <2>3 DEF LinkOK, WaitOK
<1>4. FaultOK'
  BY <1>1, ObserveFault
<1>5. ArgsOK'
  BY <1>1 DEF ArgsOK, Unstarted, Waits, Exits, Parses
<1>6. WaitOK'
  BY <1>1, <1>2, <1>3 DEF WaitOK, Unstarted, Waits, Exits, SlowMeansNotServing
<1>7. LinkOK' /\ ArrivedOK'
  <2>1. CASE Listening
    <3>1. Dial(Cli, "FetchX509SVID")
      BY <2>1 DEF Connect
    <3> QED
      BY <1>1, <1>3, <2>1, <3>1, DialEffect
      DEF LinkOK, ArrivedOK, Unstarted, Waits, Exits, Live, ErrorsAreAbsence
  <2>2. CASE ~Listening
    <3>1. UNCHANGED vars
      BY <2>2 DEF Connect
    <3> QED
      BY <1>1, <1>3, <2>2, <3>1 DEF vars, LinkOK, ArrivedOK, Unstarted, Waits, Exits, Live, ErrorsAreAbsence
  <2> QED
    BY <2>1, <2>2
<1> QED
  BY <1>4, <1>5, <1>6, <1>7

LEMMA ReadInv == ASSUME SInv, IInv, ReceiveMessage PROVE SInv'
<1> USE DEF Goto, SInv, seen
<1>1. /\ at = "message" /\ at' = "ok" /\ UNCHANGED <<args, spent, arrived, quiet, fault>> /\ waited' = 0
      /\ UNCHANGED <<path, pc, call, rpc, to, parked, left>>
  BY DEF ReceiveMessage, Read, starting
<1>2. Limit' = Limit /\ Limit \in Nat
  BY <1>1, LimitNat DEF Limit, Parses
<1>3. FaultOK'
  BY <1>1, ListeningKept DEF FaultOK
<1>4. ArgsOK'
  BY <1>1 DEF ArgsOK, Unstarted, Waits, Exits, Parses
<1>5. LinkOK' /\ ArrivedOK'
  BY <1>1 DEF LinkOK, ArrivedOK, Unstarted, Waits, Exits, Live, ErrorsAreAbsence
<1>6. WaitOK'
  BY <1>1, <1>2 DEF WaitOK, Unstarted, Waits, Exits, SlowMeansNotServing
<1> QED
  BY <1>3, <1>4, <1>5, <1>6

LEMMA LeaveInv == ASSUME SInv, IInv, Leave PROVE SInv'
<1> USE DEF SInv, seen, cli
<1>1. /\ at \in Exits /\ UNCHANGED <<args, at, waited, spent, arrived, quiet, fault>>
      /\ UNCHANGED <<path, pc, rpc, to, parked, left, unread>>
      /\ call'[Cli] = "idle" /\ call[Cli] \in Live
  BY CliAssumption DEF Leave, HangUp, starting, IInv, TypeOK
<1>2. Limit' = Limit /\ Answered' = Answered
  BY <1>1 DEF Limit, Parses, Answered
<1>3. FaultOK'
  BY <1>1, ListeningKept DEF FaultOK, Live
<1>4. ArgsOK'
  BY <1>1 DEF ArgsOK, Unstarted, Waits, Exits, Parses
<1>5. LinkOK' /\ ArrivedOK'
  BY <1>1 DEF LinkOK, ArrivedOK, Unstarted, Waits, Exits, Live, ErrorsAreAbsence
<1>6. WaitOK'
  BY <1>1, <1>2 DEF WaitOK, Unstarted, Waits, Exits, SlowMeansNotServing, Live
<1> QED
  BY <1>3, <1>4, <1>5, <1>6

LEMMA ClockInv == ASSUME SInv, IInv, Clock PROVE SInv'
<1> USE DEF SInv
<1>1. UNCHANGED <<args, at, arrived, fault>> /\ Tick
  BY DEF Clock
<1>2. Limit' = Limit /\ Limit \in Nat /\ Answered' = Answered
  BY <1>1, LimitNat DEF Limit, Parses, Answered
<1>3. FaultOK'
  BY <1>1, TickEffect, ListeningKept DEF FaultOK
<1>4. ArgsOK'
  BY <1>1 DEF ArgsOK, Unstarted, Waits, Exits, Parses
<1>5. LinkOK' /\ ArrivedOK'
  BY <1>1, TickEffect DEF LinkOK, ArrivedOK, Unstarted, Waits, Exits, Live, ErrorsAreAbsence
<1>6. ~(at = "message" /\ call[Cli] = "open" /\ arrived = "headers")
  <2> SUFFICES ASSUME at = "message", call[Cli] = "open", arrived = "headers" PROVE CanEmit(Cli)
    BY <1>1, TickEffect
  <2>1. unread[Cli] = <<>> /\ ~parked[Cli] /\ left[Cli] = 0
    BY DEF ArrivedOK, Waits
  <2>2. HasRoom(Cli)
    BY <2>1, NumbersAssumption DEF HasRoom
  <2> QED
    BY <2>1, <2>2 DEF CanEmit
<1>7. WaitOK'
  <2>1. CASE at \in Waits
    <3>1. /\ waited < Limit /\ waited' = waited + 1 /\ spent' = spent + 1 /\ quiet' = quiet + 1
      BY <2>1 DEF Clock
    <3> QED
      BY <1>1, <1>2, <1>6, <2>1, <3>1, TickEffect
      DEF WaitOK, Unstarted, Waits, Exits, SlowMeansNotServing
  <2>2. CASE at \notin Waits
    <3>1. UNCHANGED <<waited, spent, quiet>>
      BY <2>2 DEF Clock
    <3> QED
      BY <1>1, <1>2, <2>2, <3>1, TickEffect DEF WaitOK, Unstarted, Waits, Exits, SlowMeansNotServing
  <2> QED
    BY <2>1, <2>2
<1> QED
  BY <1>3, <1>4, <1>5, <1>7

LEMMA MockStepInv == ASSUME SInv, IInv, MockStep PROVE SInv'
<1> USE DEF SInv
<1>1. UNCHANGED <<args, at, waited, spent>> /\ Observe
  BY DEF MockStep, cli
<1>2. Limit' = Limit /\ Limit \in Nat
  BY <1>1, LimitNat DEF Limit, Parses
<1>3. FaultOK'
  BY <1>1, ObserveFault
<1>4. ArgsOK'
  BY <1>1 DEF ArgsOK, Unstarted, Waits, Exits, Parses
<1>5. ASSUME UNCHANGED arrived, call'[Cli] = call[Cli] \/ call'[Cli] # "open" \/ at \notin Waits,
             call[Cli] = "broken" => call'[Cli] = "broken"
      PROVE  WaitOK'
  <2>1. quiet' = quiet
    BY <1>1, <1>5 DEF Observe
  <2>2. Answered' = Answered
    BY <1>1, <1>5 DEF Answered
  <2> QED
    BY <1>1, <1>2, <1>5, <2>1, <2>2 DEF WaitOK, Unstarted, Waits, SlowMeansNotServing
<1>6. CASE Accept(Cli, Sent)
  <2>1. /\ UNCHANGED <<path, pc, rpc, to, parked, left, unread>>
        /\ call[Cli] = "waiting" /\ call'[Cli] = "open"
        /\ unread[Cli] = <<>> /\ ~parked[Cli] /\ left[Cli] = 0
    BY <1>6, AcceptEffect
  <2>2. LinkOK'
    <3>1. at \notin Unstarted
      BY <2>1 DEF LinkOK
    <3> QED
      BY <1>1, <2>1, <3>1 DEF LinkOK, Waits, Exits, Live, ErrorsAreAbsence
  <2>3. CASE at \in Waits
    <3>1. arrived = "nothing" /\ arrived' = "headers"
      BY <1>1, <2>1, <2>3 DEF ArrivedOK, Observe
    <3>2. quiet' = 0
      BY <1>1, <3>1 DEF Observe
    <3>3. at = "call"
      BY <2>3, <3>1 DEF Waits, ArrivedOK
    <3>4. ArrivedOK'
      BY <1>1, <2>1, <3>1, <3>3 DEF ArrivedOK, Waits
    <3>5. WaitOK'
      BY <1>1, <1>2, <3>1, <3>2, <3>3 DEF WaitOK, Unstarted, Waits, Answered, SlowMeansNotServing
    <3> QED
      BY <1>3, <1>4, <2>2, <3>4, <3>5
  <2>4. CASE at \notin Waits
    <3>1. arrived' = arrived
      BY <1>1, <2>4 DEF Observe
    <3>2. at # "message"
      BY <2>4 DEF Waits
    <3>3. ArrivedOK'
      BY <1>1, <2>4, <3>1, <3>2 DEF ArrivedOK
    <3>4. WaitOK'
      BY <1>5, <2>1, <2>4, <3>1
    <3> QED
      BY <1>3, <1>4, <2>2, <3>3, <3>4
  <2> QED
    BY <2>3, <2>4
<1>7. CASE Emit(Cli)
  <2>1. /\ UNCHANGED <<path, pc, rpc, to, call, left>>
        /\ call[Cli] = "open" /\ unread'[Cli] # <<>>
    BY <1>7, EmitEffect
  <2>2. LinkOK'
    BY <1>1, <2>1 DEF LinkOK, Waits, Exits, Live, ErrorsAreAbsence
  <2>3. CASE at \in Waits
    <3>1. arrived # "nothing" /\ arrived' = "message"
      BY <1>1, <2>1, <2>3 DEF ArrivedOK, Observe
    <3>2. quiet' \in Nat
      BY <1>1 DEF Observe, WaitOK
    <3>3. Answered'
      BY <1>1, <2>3, <3>1 DEF Answered, Waits
    <3>4. ArrivedOK'
      BY <1>1, <2>1, <2>3, <3>1 DEF ArrivedOK
    <3>5. WaitOK'
      BY <1>1, <1>2, <2>3, <3>1, <3>2, <3>3 DEF WaitOK, Unstarted, Waits, SlowMeansNotServing
    <3> QED
      BY <1>3, <1>4, <2>2, <3>4, <3>5
  <2>4. CASE at \notin Waits
    <3>1. arrived' = arrived
      BY <1>1, <2>4 DEF Observe
    <3>2. at # "message"
      BY <2>4 DEF Waits
    <3>3. ArrivedOK'
      BY <1>1, <2>4, <3>1, <3>2 DEF ArrivedOK
    <3>4. WaitOK'
      BY <1>5, <2>1, <2>4, <3>1
    <3> QED
      BY <1>3, <1>4, <2>2, <3>3, <3>4
  <2> QED
    BY <2>3, <2>4
<1>8. CASE Poll(Cli)
  <2>1. /\ UNCHANGED <<path, pc, rpc, to, call, unread>>
        /\ call[Cli] = "open" /\ parked[Cli]
    BY <1>8, PollEffect
  <2>2. at \in Waits => arrived = "message"
    BY <2>1 DEF ArrivedOK
  <2>3. arrived' = arrived
    BY <1>1, <2>1, <2>2 DEF Observe
  <2>4. LinkOK'
    BY <1>1, <2>1 DEF LinkOK, Waits, Exits, Live, ErrorsAreAbsence
  <2>5. ArrivedOK'
    BY <1>1, <2>1, <2>2, <2>3 DEF ArrivedOK
  <2>6. WaitOK'
    BY <1>5, <2>1, <2>3
  <2> QED
    BY <1>3, <1>4, <2>4, <2>5, <2>6
<1>9. ASSUME NEW a \in Agents, Process(a) PROVE SInv'
  <2>1. /\ UNCHANGED <<rpc, to, parked, left, unread, held>>
        /\ \/ call'[Cli] = call[Cli]
           \/ call[Cli] \in Live /\ call'[Cli] = "broken" /\ to[Cli] # Nobody
    BY <1>9, ProcessEffect
  <2>2. arrived' = arrived
    BY <1>1, <2>1 DEF Observe, ArrivedOK, LinkOK
  <2>3. LinkOK'
    <3>1. CASE call'[Cli] = call[Cli]
      <4>1. at' = at /\ to'[Cli] = to[Cli] /\ rpc'[Cli] = rpc[Cli] /\ arrived' = arrived
        BY <1>1, <2>1, <2>2
      <4> QED
        BY <3>1, <4>1 DEF LinkOK, Unstarted, Waits, Exits, Live, ErrorsAreAbsence
    <3>2. CASE call[Cli] \in Live /\ call'[Cli] = "broken" /\ to[Cli] # Nobody
      BY <1>1, <2>1, <3>2 DEF LinkOK, Live, ErrorsAreAbsence
    <3> QED
      BY <2>1, <3>1, <3>2
  <2>4. ArrivedOK'
    BY <1>1, <2>1, <2>2 DEF ArrivedOK, Live
  <2>5. WaitOK'
    BY <1>5, <2>1, <2>2 DEF Live
  <2> QED
    BY <1>3, <1>4, <2>3, <2>4, <2>5
<1> QED
  BY <1>6, <1>7, <1>8, <1>9 DEF MockStep

LEMMA SessionStepInv == SInv /\ IInv /\ [SessionNext]_session => SInv'
<1> SUFFICES ASSUME SInv, IInv, [SessionNext]_session PROVE SInv'
  OBVIOUS
<1>1. CASE UNCHANGED session
  <2>1. UNCHANGED <<args, at, waited, spent, arrived, quiet, fault, path, pc, call, rpc, to, parked, left, unread>>
    BY <1>1 DEF session, vars
  <2>2. Limit' = Limit /\ Listening' = Listening /\ Answered' = Answered
    BY <2>1 DEF Limit, Parses, Listening, Answered
  <2>3. ArgsOK' /\ LinkOK' /\ ArrivedOK' /\ FaultOK'
    BY <2>1, <2>2 DEF SInv, ArgsOK, LinkOK, ArrivedOK, FaultOK, Parses, ErrorsAreAbsence
  <2>4. WaitOK'
    BY <2>1, <2>2 DEF SInv, WaitOK, SlowMeansNotServing
  <2> QED
    BY <2>3, <2>4 DEF SInv
<1>2. CASE Dispatch \/ Probe \/ ReceiveHeaders \/ Fail \/ TimesOut
  <2>1. UNCHANGED <<seen, vars>>
    BY <1>2 DEF Dispatch, Probe, ReceiveHeaders, Fail, TimesOut
  <2> QED
    BY <1>2, <2>1, QuietStep
<1> QED
  BY <1>1, <1>2, ConnectInv, ReadInv, LeaveInv, MockStepInv, ClockInv DEF SessionNext, Invocation

LEMMA SessionInvariant == SessionSpec => [](SInv /\ IInv)
<1>1. SessionSpec => []IInv
  BY SessionIsMock, Invariant, PTL
<1> QED
  BY <1>1, SessionInitInv, SessionStepInv, PTL DEF SessionSpec

-----------------------------------------------------------------------------
(* The theorems *)

\* The two programs and what is between them keep their types; no await outlives
\* the timeout of the command line.
THEOREM SessionTypeCorrect == SessionSpec => []SessionTypeOK
<1>1. SInv /\ IInv => SessionTypeOK
  BY DEF SInv, IInv, SessionTypeOK, ArgsOK, WaitOK, ArrivedOK, FaultOK, Unstarted, Waits, Exits
<1> QED
  BY <1>1, SessionInvariant, PTL

\* The CLI's header is the one the mock asks for: an error means that there was no
\* listener or that its process died.
THEOREM NeverRefused == SessionSpec => []ErrorsAreAbsence
<1>1. SInv => ErrorsAreAbsence
  BY DEF SInv, LinkOK
<1> QED
  BY <1>1, SessionInvariant, PTL

\* An accepted call is answered before any timeout, for every rotation interval.
THEOREM AnsweredAtOnce == SessionSpec => []SlowMeansNotServing
<1>1. SInv => SlowMeansNotServing
  BY DEF SInv, WaitOK
<1> QED
  BY <1>1, SessionInvariant, PTL

\* parse_duration and the two awaits together never wait for less than was asked.
THEOREM WaitsAsAsked == SessionSpec => []TimeoutHonoured
<1>1. ASSUME SInv PROVE TimeoutHonoured
  <2> SUFFICES ASSUME at = "timedout", args.cmd = "fetch"
               PROVE  quiet >= Asked(args.digits, args.unit) \/ quiet >= FarFuture
    BY DEF TimeoutHonoured
  <2>1. args.digits \in Nat /\ Parses(args)
    BY <1>1, CommandLinesAssumption DEF SInv, ArgsOK, Exits
  <2>2. Limit = Deadline(Parsed(args.digits, args.unit)) /\ Limit \in Nat
    BY <1>1, <2>1, LimitNat DEF Limit, SInv
  <2>3. quiet \in Nat /\ quiet >= Limit
    BY <1>1 DEF SInv, WaitOK
  <2>4. Limit >= Asked(args.digits, args.unit) \/ Limit >= FarFuture
    BY <2>1, <2>2, HonestLimit
  <2>5. CASE Limit >= FarFuture
    BY <2>2, <2>3, <2>5, ClockAssumption
  <2>6. CASE Limit >= Asked(args.digits, args.unit)
    <3>1. Asked(args.digits, args.unit) \in Nat
      BY <2>1, AskedNat
    <3> QED
      BY <2>2, <2>3, <2>6, <3>1
  <2> QED
    BY <2>4, <2>5, <2>6
<1> QED
  BY <1>1, SessionInvariant, PTL

-----------------------------------------------------------------------------
(* What a fetch is given *)

\* The reply that waits for the invocation was made no longer ago than the last frame,
\* and the call has not waited longer for that frame than in all.
FreshOK ==
    /\ quiet <= spent
    /\ at \in Waits /\ arrived = "message" => unread[Cli][1].age <= quiet

LEMMA FirstUnread ==
    ASSUME SInv, IInv, at \in Waits, arrived = "message"
    PROVE  unread[Cli] \in Seq(Replies) /\ Len(unread[Cli]) \in Nat \ {0}
           /\ unread[Cli][1] \in Replies
<1>1. unread[Cli] \in Seq(Replies) /\ unread[Cli] # <<>>
  BY CliAssumption DEF IInv, TypeOK, SInv, ArrivedOK
<1> QED
  BY <1>1

\* Nothing that the age of the first reply is compared with has changed.
LEMMA FreshKept ==
    ASSUME FreshOK, quiet' = quiet, spent' = spent, at' \in Waits => at \in Waits,
           arrived' = arrived, at' \in Waits => unread'[Cli] = unread[Cli]
    PROVE  FreshOK'
  BY DEF FreshOK

LEMMA FreshMock == ASSUME SInv, IInv, FreshOK, MockStep PROVE FreshOK'
<1>1. UNCHANGED <<at, spent>> /\ Observe /\ quiet' \in {0, quiet}
  BY DEF MockStep, cli, Observe
<1>2. spent \in Nat /\ quiet \in Nat
  BY DEF SInv, WaitOK
<1>3. ASSUME unread'[Cli] = unread[Cli], arrived' = arrived PROVE FreshOK'
  <2>1. quiet' = quiet
    BY <1>1, <1>3 DEF Observe
  <2> QED
    BY <1>1, <1>3, <2>1, FreshKept
<1>4. CASE Accept(Cli, Sent)
  <2>1. unread'[Cli] = unread[Cli] /\ unread[Cli] = <<>>
    BY <1>4, AcceptEffect DEF SInv
  <2>2. at \in Waits => arrived' # "message"
    BY <1>1, <2>1 DEF Observe, SInv, ArrivedOK
  <2> QED
    BY <1>1, <1>2, <2>2 DEF FreshOK
<1>5. CASE Emit(Cli)
  <2>1. unread[Cli] \in Seq(Replies) /\ Minted(Cli).age = 0
    BY CliAssumption DEF IInv, TypeOK, Minted
  <2>2. unread'[Cli] = Append(unread[Cli], Minted(Cli))
    BY <1>5, CliAssumption DEF Emit, IInv, TypeOK
  <2>3. CASE at \in Waits /\ arrived = "message"
    <3>1. Len(unread[Cli]) \in Nat \ {0}
      BY <2>3, FirstUnread
    <3>2. unread'[Cli][1] = unread[Cli][1]
      BY <2>1, <2>2, <3>1
    <3>3. arrived' = arrived
      BY <1>1, <1>5, <2>3, EmitEffect DEF Observe
    <3>4. quiet' = quiet
      BY <1>1, <3>3 DEF Observe
    <3> QED
      BY <1>1, <2>3, <3>2, <3>4 DEF FreshOK
  <2>4. CASE at \in Waits /\ arrived # "message"
    <3>1. unread[Cli] = <<>>
      BY <2>4 DEF SInv, ArrivedOK
    <3>2. unread'[Cli][1] = Minted(Cli)
      BY <2>2, <3>1
    <3> QED
      BY <1>1, <1>2, <2>1, <3>2 DEF FreshOK
  <2>5. CASE at \notin Waits
    BY <1>1, <1>2, <2>5 DEF FreshOK
  <2> QED
    BY <2>3, <2>4, <2>5
<1>6. CASE Poll(Cli)
  <2>1. unread'[Cli] = unread[Cli] /\ call'[Cli] = "open" /\ parked[Cli]
    BY <1>6, PollEffect
  <2>2. at \in Waits => arrived = "message"
    BY <1>6, PollEffect DEF SInv, ArrivedOK
  <2>3. arrived' = arrived
    BY <1>1, <2>1, <2>2 DEF Observe, SInv, ArrivedOK
  <2> QED
    BY <1>3, <2>1, <2>3
<1>7. ASSUME NEW a \in Agents, Process(a) PROVE FreshOK'
  <2>1. unread'[Cli] = unread[Cli] /\ (call'[Cli] = call[Cli] \/ call'[Cli] = "broken")
    BY <1>7, ProcessEffect
  <2>2. arrived' = arrived
    BY <1>1, <2>1 DEF Observe, SInv, ArrivedOK, LinkOK
  <2> QED
    BY <1>3, <2>1, <2>2
<1> QED
  BY <1>4, <1>5, <1>6, <1>7 DEF MockStep

LEMMA FreshClock == ASSUME SInv, IInv, FreshOK, Clock PROVE FreshOK'
<1>1. UNCHANGED <<at, arrived>> /\ Tick /\ spent \in Nat /\ quiet \in Nat
  BY DEF Clock, SInv, WaitOK
<1>2. CASE at \notin Waits
  BY <1>1, <1>2 DEF Clock, FreshOK
<1>3. CASE at \in Waits
  <2>1. spent' = spent + 1 /\ quiet' = quiet + 1
    BY <1>3 DEF Clock
  <2>2. CASE arrived # "message"
    BY <1>1, <2>1, <2>2 DEF FreshOK
  <2>3. CASE arrived = "message"
    <3>1. /\ unread[Cli] \in Seq(Replies) /\ Len(unread[Cli]) \in Nat \ {0}
          /\ unread[Cli][1] \in Replies
      BY <1>3, <2>3, FirstUnread
    <3>2. unread'[Cli] = [i \in DOMAIN unread[Cli] |-> Older(unread[Cli][i])]
      BY <1>1, CliAssumption DEF Tick
    <3>3. unread'[Cli][1] = Older(unread[Cli][1])
      BY <3>1, <3>2
    <3>4. /\ unread[Cli][1].age \in Nat /\ Older(unread[Cli][1]).age \in Nat
          /\ Older(unread[Cli][1]).age <= unread[Cli][1].age + 1
      <4> DEFINE r == unread[Cli][1]
      <4>1. r \in Replies \cup {NoReply} /\ r \in Replies
        BY <3>1
      <4>2. Older(r) \in Replies /\ Older(r).age <= r.age + 1
        BY <4>1, OlderReply
      <4>3. \A q \in Replies : q.age \in Nat
        BY NumbersAssumption DEF Replies, Ages
      <4> QED
        BY <4>1, <4>2, <4>3
    <3> QED
      BY <1>1, <1>3, <2>1, <2>3, <3>3, <3>4 DEF FreshOK
  <2> QED
    BY <2>2, <2>3
<1> QED
  BY <1>2, <1>3

LEMMA FreshStep == SInv /\ IInv /\ FreshOK /\ [SessionNext]_session => FreshOK'
<1> SUFFICES ASSUME SInv, IInv, FreshOK, [SessionNext]_session PROVE FreshOK'
  OBVIOUS
<1> USE DEF Goto, seen, vars
<1>1. CASE UNCHANGED session
  BY <1>1, FreshKept DEF session
<1>2. CASE Dispatch \/ Probe \/ Fail \/ TimesOut
  <2>1. UNCHANGED <<spent, quiet, arrived, unread>> /\ at' \notin Waits
    BY <1>2 DEF Dispatch, Probe, Fail, TimesOut, Waits
  <2> QED
    BY <2>1, FreshKept
<1>3. CASE ReceiveHeaders
  <2>1. UNCHANGED <<spent, quiet, arrived, unread>> /\ at \in Waits
    BY <1>3 DEF ReceiveHeaders, Waits
  <2> QED
    BY <2>1, FreshKept
<1>4. CASE Connect
  <2>1. spent' = spent /\ Observe /\ at \notin Waits /\ arrived = "nothing"
    BY <1>4 DEF Connect, Waits, SInv, LinkOK, Unstarted
  <2>2. arrived' = arrived
    BY <2>1 DEF Observe
  <2>3. quiet' = quiet
    BY <2>1, <2>2 DEF Observe
  <2> QED
    BY <2>1, <2>2, <2>3 DEF FreshOK
<1>5. CASE ReceiveMessage \/ Leave
  <2>1. UNCHANGED <<spent, quiet, arrived>> /\ at' \notin Waits
    BY <1>5 DEF ReceiveMessage, Leave, cli, Waits, Exits
  <2> QED
    BY <2>1, FreshKept
<1> QED
  BY <1>1, <1>2, <1>3, <1>4, <1>5, FreshMock, FreshClock DEF SessionNext, Invocation

\* What a fetch prints was made for it by the process it reached, however many others
\* there were before or since, and is no older than the call.
THEOREM FreshSvids == SessionSpec => SvidIsFresh
<1>1. SessionInit => FreshOK
  BY DEF SessionInit, FreshOK, Waits
<1>2. SInv /\ IInv /\ FreshOK /\ [SessionNext]_session
      => [at = "message" /\ at' = "ok" =>
            held'[Cli].root = to[Cli] /\ held'[Cli].age <= spent]_session
  <2> SUFFICES ASSUME SInv, IInv, FreshOK, SessionNext, at = "message", at' = "ok"
               PROVE  held'[Cli].root = to[Cli] /\ held'[Cli].age <= spent
    OBVIOUS
  <2>1. ReceiveMessage
    BY DEF SessionNext, Invocation, Dispatch, Probe, Connect, ReceiveHeaders, Fail, TimesOut,
           Leave, MockStep, Clock, Goto, cli, Waits, Exits
  <2>2. Read(Cli) /\ arrived = "message" /\ at \in Waits
    BY <2>1 DEF ReceiveMessage, Answered, Waits
  <2>3. /\ unread[Cli] \in Seq(Replies) /\ Len(unread[Cli]) \in Nat \ {0}
        /\ unread[Cli][1] \in Replies
    BY <2>2, FirstUnread
  <2>4. held'[Cli] = unread[Cli][1]
    BY <2>2, <2>3, CliAssumption DEF Read, IInv, TypeOK
  <2>5. unread[Cli][1].root = to[Cli]
    BY <2>3, CliAssumption DEF IInv, CallsOK, RootsOf
  <2>6. unread[Cli][1].age <= quiet /\ quiet <= spent
    BY <2>2 DEF FreshOK
  <2>7. unread[Cli][1].age \in Nat /\ quiet \in Nat /\ spent \in Nat
    BY <2>3, NumbersAssumption DEF Replies, Ages, SInv, WaitOK
  <2> QED
    BY <2>4, <2>5, <2>6, <2>7
<1> QED
  BY <1>1, <1>2, FreshStep, SessionInvariant, PTL DEF SessionSpec, SvidIsFresh

-----------------------------------------------------------------------------
(* Session implements WorkloadCall *)

\* In every state of a session the mapped server has not ended the call.
LEMMA MappedState ==
    ASSUME SInv, IInv
    PROVE  /\ Over = "no"
           /\ at \in Waits => Conn # "none" /\ Pc = at
           /\ at \in {"probe", "connect"} \cup Exits => Pc = at
           /\ call[Cli] \in Live => Conn = "open"
           /\ call[Cli] = "broken" => Conn = "broken"
<1>1. call[Cli] \in Live => to[Cli] # Nobody
  BY CliAssumption, NamesAssumption DEF IInv, CallsOK, RootsOf
<1>2. at \in Waits => to[Cli] # Nobody
  BY <1>1 DEF SInv, LinkOK, Live
<1>3. Over = "no"
  BY DEF SInv, LinkOK, Over, Unstarted, Waits, Exits, ArgsOK
<1>4. at \in {"probe", "connect"} \cup Waits \cup Exits => Pc = at
  BY DEF Pc, Waits, Exits
<1> QED
  BY <1>1, <1>2, <1>3, <1>4 DEF SInv, LinkOK, Conn, Live

\* The parts of the mapping that depend on the command line never change.
LEMMA MappedArgs == UNCHANGED args => UNCHANGED <<Prog, Limit>>
  BY DEF Prog, Limit, Parses

LEMMA InitMapped == SessionInit => Call!Init
<1> SUFFICES ASSUME SessionInit PROVE Call!Init
  OBVIOUS
<1>1. SInv
  BY SessionInitInv
<1>2. Limit \in Nat
  BY <1>1, LimitNat DEF SInv
<1>3. Conn = "none" /\ Over = "no"
  BY <1>1 DEF SInv, LinkOK, SessionInit, Unstarted, Conn, Over
<1>4. Prog \in {"fetch", "deep", "shallow"} /\ Pc = IF Prog = "fetch" THEN "connect" ELSE "probe"
  BY DEF SessionInit, Prog, Pc
<1>5. Listening \in BOOLEAN
  BY DEF Listening
<1> QED
  BY <1>2, <1>3, <1>4, <1>5 DEF SessionInit, Call!Init

\* The steps of the invocation that leave the mock alone.
LEMMA QuietMapped ==
    ASSUME SInv, IInv, Dispatch \/ Probe \/ ReceiveHeaders \/ Fail \/ TimesOut
    PROVE  Call!Next \/ UNCHANGED Call!vars
<1> USE DEF Goto, seen, Call!Goto, Call!server
<1>1. /\ UNCHANGED <<args, spent, path, pc, call, to, arrived, quiet, fault>> /\ waited' = 0
  BY DEF Dispatch, Probe, ReceiveHeaders, Fail, TimesOut, vars
<1>2. UNCHANGED <<Prog, Limit, Listening, Conn, Over>>
  BY <1>1, MappedArgs, ListeningKept DEF Conn, Over
<1>3. CASE Dispatch
  <2>0. args.cmd \in {"help", "watch", "fetch", "healthcheck"}
    BY CommandLinesAssumption DEF SInv, ArgsOK
  <2>1. Pc' = Pc
    <3>1. at = "args" /\ at' \in {"noop", "probe", "connect", "usage"}
      BY <1>3 DEF Dispatch
    <3>2. (at' = "probe" => args.cmd = "healthcheck") /\ (at' = "connect" => args.cmd = "fetch")
      BY <1>3, <2>0 DEF Dispatch
    <3> QED
      BY <1>1, <3>1, <3>2 DEF Pc
  <2>2. waited = 0
    BY <1>3 DEF Dispatch, SInv, WaitOK, Unstarted
  <2> QED
    BY <1>1, <1>2, <2>1, <2>2 DEF Call!vars
<1>4. CASE Probe
  <2>1. /\ Pc = "probe" /\ args.shallow = (Prog = "shallow")
    BY <1>4, CommandLinesAssumption DEF Probe, Pc, Prog, SInv, ArgsOK
  <2>2. Pc' = IF ~Listening THEN "err" ELSE IF args.shallow THEN "ok" ELSE "connect"
    BY <1>4 DEF Probe, Pc
  <2>3. Call!Probe
    BY <1>1, <1>2, <2>1, <2>2 DEF Call!Probe
  <2> QED
    BY <2>3 DEF Call!Next, Call!Invocation
<1>5. CASE ReceiveHeaders
  <2>1. Pc = "call" /\ Pc' = "message" /\ arrived # "nothing"
    BY <1>5 DEF ReceiveHeaders, Pc, Answered
  <2>2. Call!Receive
    BY <1>1, <1>2, <2>1 DEF Call!Receive, Call!Answered
  <2> QED
    BY <2>2 DEF Call!Next, Call!Invocation
<1>6. CASE Fail
  <2>1. Pc \in {"call", "message"} /\ Pc' = "err" /\ Conn = "broken"
    BY <1>6, MappedState DEF Fail, Pc, Waits, SInv, LinkOK
  <2>2. Call!Fail
    BY <1>1, <1>2, <2>1 DEF Call!Fail, Call!Awaits
  <2> QED
    BY <2>2 DEF Call!Next, Call!Invocation
<1>7. CASE TimesOut
  <2>1. Pc = at /\ Pc \in {"call", "message"} /\ Pc' = "timedout" /\ waited = Limit
    BY <1>7 DEF TimesOut, Pc, Waits
  <2>2. ~Call!Answered
    BY <1>7, <2>1 DEF TimesOut, Answered, Call!Answered
  <2>3. Call!TimesOut
    BY <1>1, <1>2, <2>1, <2>2 DEF Call!TimesOut, Call!Awaits
  <2> QED
    BY <2>3 DEF Call!Next, Call!Invocation
<1> QED
  BY <1>3, <1>4, <1>5, <1>6, <1>7

LEMMA ConnectMapped == ASSUME SInv, IInv, SInv', Connect PROVE Call!Next
<1> USE DEF Goto, Call!Goto
<1>1. /\ at = "connect" /\ UNCHANGED <<args, spent>> /\ waited' = 0 /\ Observe
      /\ at' = IF Listening THEN "call" ELSE "err"
  BY DEF Connect
<1>2. UNCHANGED <<Prog, Limit>> /\ Pc = "connect" /\ Pc' = at'
  BY <1>1, MappedArgs DEF Pc
<1>3. arrived' = arrived /\ quiet' = 0
  BY <1>1 DEF Observe, SInv, WaitOK, Waits, Unstarted
<1>4. Conn = "none" /\ Over = "no"
  BY <1>1 DEF Conn, Over, SInv, LinkOK, Unstarted
<1>5. /\ UNCHANGED <<Listening, fault>> /\ Over' = "no"
      /\ Conn' = IF Listening THEN "open" ELSE "none"
  <2>1. CASE Listening
    <3>1. Dial(Cli, "FetchX509SVID")
      BY <2>1 DEF Connect
    <3>2. Listening' = Listening /\ call'[Cli] = "waiting" /\ to'[Cli] # Nobody
      BY <3>1, DialEffect, ListeningKept
    <3>3. fault' = fault
      BY <1>1, <2>1, <3>2 DEF Observe, SInv, FaultOK
    <3> QED
      BY <2>1, <3>2, <3>3 DEF Conn, Over
  <2>2. CASE ~Listening
    <3>1. UNCHANGED <<path, pc, call, to>>
      BY <2>2 DEF Connect, vars
    <3>2. fault = TRUE /\ fault' = TRUE
      BY <1>1, <2>2, <3>1, ListeningKept DEF Observe, SInv, FaultOK
    <3> QED
      BY <1>4, <2>2, <3>1, <3>2, ListeningKept DEF Conn, Over
  <2> QED
    BY <2>1, <2>2
<1>6. Call!Connect
  BY <1>1, <1>2, <1>3, <1>4, <1>5 DEF Call!Connect
<1> QED
  BY <1>6 DEF Call!Next, Call!Invocation

LEMMA ReadMapped == ASSUME SInv, IInv, ReceiveMessage PROVE Call!Next
<1> USE DEF Goto, Call!Goto, seen, Call!server
<1>1. /\ at = "message" /\ at' = "ok" /\ arrived = "message"
      /\ UNCHANGED <<args, spent, arrived, quiet, fault, path, pc, call, to>> /\ waited' = 0
  BY DEF ReceiveMessage, Read, starting, Answered
<1>2. UNCHANGED <<Prog, Limit, Listening, Conn, Over>>
  BY <1>1, MappedArgs, ListeningKept DEF Conn, Over
<1>3. Pc = "message" /\ Pc' = "ok"
  BY <1>1 DEF Pc
<1>4. Call!Receive
  BY <1>1, <1>2, <1>3 DEF Call!Receive, Call!Answered
<1> QED
  BY <1>4 DEF Call!Next, Call!Invocation

LEMMA LeaveMapped == ASSUME SInv, IInv, Leave PROVE UNCHANGED Call!vars
<1>1. /\ UNCHANGED <<args, at, waited, spent, arrived, quiet, fault, path, pc, to>>
      /\ call'[Cli] = "idle" /\ call[Cli] \in Live
  BY CliAssumption DEF Leave, HangUp, starting, IInv, TypeOK, cli, seen
<1>2. UNCHANGED <<Prog, Limit, Listening, Pc>>
  BY <1>1, MappedArgs, ListeningKept DEF Pc
<1>3. UNCHANGED <<Conn, Over>>
  BY <1>1 DEF Conn, Over, Live
<1> QED
  BY <1>1, <1>2, <1>3 DEF Call!vars

LEMMA ClockMapped == ASSUME SInv, IInv, Clock PROVE Call!Next \/ UNCHANGED Call!vars
<1>1. UNCHANGED <<args, at, arrived, fault, path, pc, call, to>>
  BY TickEffect DEF Clock
<1>2. UNCHANGED <<Prog, Limit, Listening, Pc, Conn, Over>>
  BY <1>1, MappedArgs, ListeningKept DEF Pc, Conn, Over
<1>3. CASE at \in Waits
  <2>1. Pc = at
    BY <1>3, MappedState
  <2>2. waited < Limit /\ waited' = waited + 1 /\ spent' = spent + 1 /\ quiet' = quiet + 1
    BY <1>3 DEF Clock
  <2>3. Call!Tick
    BY <1>1, <1>2, <1>3, <2>1, <2>2 DEF Call!Tick, Call!Awaits, Call!server, Waits
  <2> QED
    BY <2>3 DEF Call!Next
<1>4. CASE at \notin Waits
  BY <1>1, <1>2, <1>4 DEF Clock, Call!vars
<1> QED
  BY <1>3, <1>4

LEMMA MockMapped == ASSUME SInv, IInv, SInv', MockStep PROVE Call!Next \/ UNCHANGED Call!vars
<1> USE DEF Call!client, Call!Environment, Call!Next
<1>1. UNCHANGED <<args, at, waited, spent>> /\ Observe
  BY DEF MockStep, cli
<1>2. UNCHANGED <<Prog, Limit, Pc>> /\ Over = "no"
  BY <1>1, MappedArgs, MappedState DEF Pc
<1>3. ASSUME UNCHANGED <<Listening, Conn, Over, arrived>>, call'[Cli] \notin {"refused", "broken"}
             \/ call'[Cli] = call[Cli]
      PROVE  UNCHANGED Call!vars
  <2>1. quiet' = quiet
    BY <1>1, <1>3 DEF Observe
  <2>2. fault' = fault
    BY <1>1, <1>3 DEF Observe, SInv, FaultOK, LinkOK, ArgsOK, Unstarted, Waits, Exits
  <2> QED
    BY <1>1, <1>2, <1>3, <2>1, <2>2 DEF Call!vars
<1>4. CASE Accept(Cli, Sent)
  <2>1. /\ UNCHANGED <<path, pc, rpc, to, parked, left, unread>>
        /\ call[Cli] = "waiting" /\ call'[Cli] = "open" /\ unread[Cli] = <<>>
    BY <1>4, AcceptEffect DEF SInv
  <2>2. UNCHANGED <<Listening, Conn, Over>>
    BY <2>1, ListeningKept DEF Conn, Over
  <2>3. CASE at \in Waits
    <3>1. arrived = "nothing" /\ arrived' = "headers"
      BY <1>1, <2>1, <2>3 DEF SInv, ArrivedOK, Observe
    <3>2. quiet' = 0
      BY <1>1, <3>1 DEF Observe
    <3>3. fault' = fault
      BY <1>1, <2>1, <2>2 DEF Observe, SInv, FaultOK
    <3>4. Conn = "open" /\ Pc \in Waits
      BY <2>1, <2>3, MappedState DEF Live
    <3>5. Call!SendHeaders
      BY <1>1, <1>2, <2>2, <3>1, <3>2, <3>3, <3>4
      DEF Call!SendHeaders, Call!Serving, Call!Awaits, Waits
    <3> QED
      BY <3>5
  <2>4. CASE at \notin Waits
    <3>1. arrived' = arrived
      BY <1>1, <2>4 DEF Observe
    <3> QED
      BY <1>3, <2>1, <2>2, <3>1
  <2> QED
    BY <2>3, <2>4
<1>5. CASE Emit(Cli)
  <2>1. /\ UNCHANGED <<path, pc, rpc, to, call, left>>
        /\ call[Cli] = "open" /\ unread'[Cli] # <<>>
    BY <1>5, EmitEffect
  <2>2. UNCHANGED <<Listening, Conn, Over>>
    BY <2>1, ListeningKept DEF Conn, Over
  <2>3. CASE at \in Waits /\ arrived # "message"
    <3>1. arrived = "headers" /\ arrived' = "message"
      BY <1>1, <2>1, <2>3 DEF SInv, ArrivedOK, Observe
    <3>2. quiet' = 0
      BY <1>1, <3>1 DEF Observe
    <3>3. fault' = fault
      BY <1>1, <2>1, <2>2 DEF Observe, SInv, FaultOK
    <3>4. Conn = "open" /\ Pc \in Waits
      BY <2>1, <2>3, MappedState DEF Live
    <3>5. Call!SendMessage
      BY <1>1, <1>2, <2>2, <3>1, <3>2, <3>3, <3>4
      DEF Call!SendMessage, Call!Serving, Call!Awaits, Waits
    <3> QED
      BY <3>5
  <2>4. CASE at \notin Waits \/ arrived = "message"
    <3>1. arrived' = arrived
      BY <1>1, <2>1, <2>4 DEF Observe
    <3> QED
      BY <1>3, <2>1, <2>2, <3>1
  <2> QED
    BY <2>3, <2>4
<1>6. CASE Poll(Cli)
  <2>1. /\ UNCHANGED <<path, pc, rpc, to, call, unread>>
        /\ call[Cli] = "open" /\ parked[Cli]
    BY <1>6, PollEffect
  <2>2. at \in Waits => arrived = "message"
    BY <2>1 DEF SInv, ArrivedOK
  <2>3. arrived' = arrived
    BY <1>1, <2>1, <2>2 DEF Observe
  <2>4. UNCHANGED <<Listening, Conn, Over>>
    BY <2>1, ListeningKept DEF Conn, Over
  <2> QED
    BY <1>3, <2>1, <2>3, <2>4
<1>7. ASSUME NEW a \in Agents, Process(a) PROVE Call!Next \/ UNCHANGED Call!vars
  <2>1. /\ UNCHANGED <<rpc, to, parked, left, unread, held>>
        /\ \/ call'[Cli] = call[Cli]
           \/ /\ call[Cli] \in Live /\ call'[Cli] = "broken"
              /\ to[Cli] # Nobody /\ Listening' \in {FALSE, Listening}
    BY <1>7, ProcessEffect
  <2>2. arrived' = arrived
    BY <1>1, <2>1 DEF Observe, SInv, ArrivedOK, LinkOK
  <2>3. quiet' = quiet
    BY <1>1, <2>2 DEF Observe
  <2>4. CASE call'[Cli] = call[Cli]
    <3>1. UNCHANGED <<Conn, Over>>
      BY <2>1, <2>4 DEF Conn, Over
    <3>2. fault' = (fault \/ ~Listening')
      BY <1>1, <2>4 DEF Observe, SInv, FaultOK, LinkOK, ArgsOK, Unstarted, Waits, Exits
    <3>3. CASE Listening' = Listening
      BY <1>3, <2>2, <2>4, <3>1, <3>3
    <3>4. CASE Listening /\ ~Listening'
      <4>1. Listening' = FALSE /\ fault' = TRUE
        BY <3>2, <3>4 DEF Listening
      <4>2. Call!Unlisten
        BY <1>1, <1>2, <2>2, <2>3, <3>1, <3>4, <4>1 DEF Call!Unlisten
      <4> QED
        BY <4>2
    <3>5. CASE ~Listening /\ Listening'
      <4>1. Listening' = TRUE /\ fault' = fault
        BY <3>2, <3>5 DEF Listening, SInv, FaultOK
      <4>2. Call!Restart
        BY <1>1, <1>2, <2>2, <2>3, <3>1, <3>5, <4>1 DEF Call!Restart
      <4> QED
        BY <4>2
    <3> QED
      BY <3>3, <3>4, <3>5 DEF Listening
  <2>5. CASE call[Cli] \in Live /\ call'[Cli] = "broken"
    <3>1. to'[Cli] # Nobody /\ Listening' \in {FALSE, Listening}
      BY <2>1, <2>5 DEF Live
    <3>2. Conn = "open" /\ Conn' = "broken" /\ Over' = "no"
      BY <2>5, <3>1, MappedState DEF Conn, Over
    <3>3. fault' = TRUE
      BY <1>1, <2>5 DEF Observe
    <3>4. Call!Crash
      BY <1>1, <1>2, <2>2, <2>3, <3>1, <3>2, <3>3 DEF Call!Crash
    <3> QED
      BY <3>4
  <2> QED
    BY <2>1, <2>4, <2>5
<1> QED
  BY <1>4, <1>5, <1>6, <1>7 DEF MockStep

\* What the CLI sees of the mock is what WorkloadCall allows a server to do.
THEOREM SessionImplementsCall == SessionSpec => ImplementsCall
<1>1. SInv /\ IInv /\ SInv' /\ [SessionNext]_session => [Call!Next]_(Call!vars)
  <2> SUFFICES ASSUME SInv, IInv, SInv', [SessionNext]_session
               PROVE  Call!Next \/ UNCHANGED Call!vars
    OBVIOUS
  <2>1. CASE UNCHANGED session
    BY <2>1 DEF session, vars, Call!vars, Prog, Limit, Parses, Pc, Listening, Conn, Over
  <2>2. CASE Dispatch \/ Probe \/ ReceiveHeaders \/ Fail \/ TimesOut
    BY <2>2, QuietMapped
  <2>3. CASE Connect \/ ReceiveMessage \/ Leave
    BY <2>3, ConnectMapped, ReadMapped, LeaveMapped
  <2>4. CASE MockStep
    BY <2>4, MockMapped
  <2>5. CASE Clock
    BY <2>5, ClockMapped
  <2> QED
    BY <2>1, <2>2, <2>3, <2>4, <2>5 DEF SessionNext, Invocation
<1> QED
  BY InitMapped, <1>1, SessionInvariant, PTL DEF SessionSpec, ImplementsCall, Call!Spec
-----------------------------------------------------------------------------
(* What WorkloadCallProofs shows of every invocation *)

CallProofs == INSTANCE WorkloadCallProofs WITH
    Timeouts <- Nat, prog <- Prog, timeout <- Limit, pc <- Pc,
    listening <- Listening, conn <- Conn, over <- Over

\* The invocation that WorkloadCallProofs is about is the one of ImplementsCall.
LEMMA SameCall == Call!Spec => CallProofs!Spec
<1>1. Call!Init => CallProofs!Init
  BY DEF Call!Init, CallProofs!Init
<1>2. Call!Next => CallProofs!Next
  <2> USE DEF Call!client, CallProofs!client, Call!server, CallProofs!server,
          Call!Awaits, CallProofs!Awaits, Call!Goto, CallProofs!Goto,
          Call!Answered, CallProofs!Answered, Call!Serving, CallProofs!Serving
  <2>1. Call!Invocation => CallProofs!Invocation
    BY DEF Call!Invocation, CallProofs!Invocation, Call!Probe, CallProofs!Probe,
           Call!Connect, CallProofs!Connect, Call!Receive, CallProofs!Receive,
           Call!Fail, CallProofs!Fail, Call!TimesOut, CallProofs!TimesOut
  <2>2. Call!Tick => CallProofs!Tick
    BY DEF Call!Tick, CallProofs!Tick
  <2>3. Call!Environment => CallProofs!Environment
    BY DEF Call!Environment, CallProofs!Environment, Call!SendHeaders, CallProofs!SendHeaders,
           Call!SendMessage, CallProofs!SendMessage, Call!EndCall, CallProofs!EndCall,
           Call!Crash, CallProofs!Crash, Call!Unlisten, CallProofs!Unlisten,
           Call!Restart, CallProofs!Restart
  <2> QED
    BY <2>1, <2>2, <2>3 DEF Call!Next, CallProofs!Next
<1>3. Call!vars' = Call!vars => CallProofs!vars' = CallProofs!vars
  BY DEF Call!vars, CallProofs!vars
<1>4. [Call!Next]_(Call!vars) => [CallProofs!Next]_(CallProofs!vars)
  BY <1>2, <1>3
<1> QED
  BY <1>1, <1>4, PTL DEF Call!Spec, CallProofs!Spec

\* Against mock processes that start, die and displace each other an invocation waits
\* for at most twice the timeout of its command line, fails and times out with a cause
\* only, and succeeds with a message only.
THEOREM SessionInherits ==
    SessionSpec => [](Call!BoundedWait /\ Call!FailureHasCause /\ Call!SuccessWasServed)
<1>1. /\ CallProofs!Spec => []CallProofs!BoundedWait
      /\ CallProofs!Spec => []CallProofs!FailureHasCause
      /\ CallProofs!Spec => []CallProofs!SuccessWasServed
  BY CallProofs!Bounded, CallProofs!Causes, CallProofs!Served
<1>2. CallProofs!BoundedWait => Call!BoundedWait
  BY DEF CallProofs!BoundedWait, Call!BoundedWait
<1>3. CallProofs!FailureHasCause => Call!FailureHasCause
  BY DEF CallProofs!FailureHasCause, Call!FailureHasCause
<1>4. CallProofs!SuccessWasServed => Call!SuccessWasServed
  BY DEF CallProofs!SuccessWasServed, Call!SuccessWasServed
<1> QED
  BY <1>1, <1>2, <1>3, <1>4, SameCall, SessionImplementsCall, PTL DEF ImplementsCall

\* From the command line to the exit, with everything the mock does, an invocation is
\* one Request: Session implements WorkloadCall and WorkloadCall implements Request.
THEOREM SessionImplementsRequest == SessionSpec => Call!ImplementsRequest
<1> USE DEF Call!Ended, CallProofs!Ended
<1>1. CallProofs!Spec => CallProofs!ImplementsRequest
  BY CallProofs!Implements
<1>2. CallProofs!Request!Init => Call!Request!Init
  BY DEF CallProofs!Request!Init, Call!Request!Init
<1>3. CallProofs!Request!Next => Call!Request!Next
  BY DEF CallProofs!Request!Next, Call!Request!Next, CallProofs!Request!Wait, Call!Request!Wait,
         CallProofs!Request!Answer, Call!Request!Answer, CallProofs!Request!Fault,
         Call!Request!Fault, CallProofs!Request!Finish, Call!Request!Finish,
         CallProofs!Request!Justified, Call!Request!Justified
<1>4. CallProofs!Request!vars' = CallProofs!Request!vars => Call!Request!vars' = Call!Request!vars
  BY DEF CallProofs!Request!vars, Call!Request!vars
<1>5. [CallProofs!Request!Next]_(CallProofs!Request!vars) => [Call!Request!Next]_(Call!Request!vars)
  BY <1>3, <1>4
<1>6. CallProofs!ImplementsRequest => Call!ImplementsRequest
  BY <1>2, <1>5, PTL DEF CallProofs!ImplementsRequest, Call!ImplementsRequest,
     CallProofs!Request!Spec, Call!Request!Spec
<1> QED
  BY <1>1, <1>6, SameCall, SessionImplementsCall, PTL DEF ImplementsCall
=============================================================================
