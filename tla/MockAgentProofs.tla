--------------------------- MODULE MockAgentProofs ---------------------------
(******************************************************************************)
(* The safety theorems about MockAgent, for any processes, calls, intervals,  *)
(* TTL and window.                                                            *)
(******************************************************************************)
EXTENDS MockAgent, TLAPS

\* Two processes that start at the same time know of each other; one that knows
\* of none finds the path as it left it.
SoloStart ==
    \A a \in Agents :
        /\ pc[a] \in Starting /\ ~rival[a] =>
              /\ \A b \in Agents \ {a} : pc[b] \notin Starting
              /\ (pc[a] = "remove") = (path # Nobody)
        /\ pc[a] = "failed" => rival[a] \/ path = Directory

\* Every reply of a call carries the root of the process that answers it; before the
\* server accepts there is none.
RootsOf(c) ==
    /\ call[c] \in Live => to[c] \in Agents
    /\ call[c] = "waiting" => held[c] = NoReply /\ unread[c] = <<>> /\ ~parked[c] /\ left[c] = 0
    /\ held[c] # NoReply => held[c].root = to[c]
    /\ \A i \in 1..Len(unread[c]) : unread[c][i].root = to[c]

\* While no reply has waited, what is unread was made since the clock last moved,
\* and the age of the reply held plus the rest of the sleep is within the interval.
FreshOf(c) ==
    call[c] = "open" /\ ~stalled[c] =>
        /\ \A i \in 1..Len(unread[c]) : unread[c][i].age = 0
        /\ held[c].age <= rotation
        /\ unread[c] = <<>> => IF parked[c] THEN held[c].age = 0
                                            ELSE held[c].age + left[c] <= rotation

CallsOK == \A c \in Calls : RootsOf(c) /\ FreshOf(c)

IInv == TypeOK /\ SoloStart /\ CallsOK

-----------------------------------------------------------------------------
(* The operators                                                            *)

\* A tick keeps a reply a reply of the same process, and adds at most one to its age.
LEMMA OlderReply ==
    ASSUME NEW r \in Replies \cup {NoReply}
    PROVE  /\ Older(r) \in Replies \cup {NoReply}
           /\ r \in Replies => Older(r) \in Replies
           /\ Older(r).root = r.root
           /\ Older(r).age <= r.age + 1
           /\ r = NoReply => Older(r) = NoReply
           /\ Older(r) = NoReply => r = NoReply
  BY NumbersAssumption, NamesAssumption DEF Older, Replies, NoReply, Ages

\* A tick keeps the unread replies, each older.
LEMMA OlderUnread ==
    ASSUME NEW s \in Seq(Replies)
    PROVE  LET t == [i \in DOMAIN s |-> Older(s[i])] IN
           /\ t \in Seq(Replies)
           /\ Len(t) = Len(s)
           /\ \A i \in 1..Len(s) : t[i].root = s[i].root
           /\ s = <<>> => t = <<>>
<1> DEFINE t == [i \in DOMAIN s |-> Older(s[i])]
<1>1. DOMAIN s = 1..Len(s) /\ Len(s) \in Nat /\ \A i \in 1..Len(s) : s[i] \in Replies
  OBVIOUS
<1>2. \A i \in 1..Len(s) : t[i] \in Replies /\ t[i].root = s[i].root
  BY <1>1, OlderReply
<1>3. t \in [1..Len(s) -> Replies]
  BY <1>1, <1>2
<1>4. t \in Seq(Replies) /\ Len(t) = Len(s)
  BY <1>1, <1>3
<1>5. s = <<>> => t = <<>>
  BY <1>4
<1> QED
  BY <1>2, <1>4, <1>5

-----------------------------------------------------------------------------
(* The inductive invariant                                                  *)

LEMMA InitIInv == Init => IInv
<1> SUFFICES ASSUME Init PROVE IInv
  OBVIOUS
<1> USE NumbersAssumption, NamesAssumption DEF Init
<1>1. rotation \in Nat /\ NoReply.age = 0
  BY DEF NoReply
<1>2. TypeOK
  <2>1. pc \in [Agents -> {"off", "failed", "dead"} \cup Starting \cup Up]
    BY DEF Starting, Up
  <2>2. left \in [Calls -> 0..rotation]
    BY <1>1
  <2>3. unread \in [Calls -> Seq(Replies)] /\ \A c \in Calls : Len(unread[c]) <= Window
    BY DEF Init
  <2> QED
    BY <2>1, <2>2, <2>3 DEF TypeOK, Methods
<1>3. SoloStart
  BY DEF SoloStart, Starting
<1>4. CallsOK
  BY <1>1 DEF CallsOK, RootsOf, FreshOf, Live
<1> QED
  BY <1>2, <1>3, <1>4 DEF IInv

LEMMA TypeStep == IInv /\ [Next]_vars => TypeOK'
<1> SUFFICES ASSUME IInv, [Next]_vars PROVE TypeOK'
  OBVIOUS
<1> USE NumbersAssumption, NamesAssumption DEF IInv
<1>0. rotation \in Nat
  BY DEF TypeOK
<1>1. ASSUME NEW a \in Agents, Check(a) PROVE TypeOK'
  BY <1>1 DEF Check, AfterCheck, TypeOK, Starting, streams
<1>2. ASSUME NEW a \in Agents, Remove(a) PROVE TypeOK'
  BY <1>2 DEF Remove, TypeOK, Starting, streams
<1>3. ASSUME NEW a \in Agents, Bind(a) PROVE TypeOK'
  BY <1>3 DEF Bind, TypeOK, Starting, Up, streams
<1>4. ASSUME NEW a \in Agents, Serve(a) PROVE TypeOK'
  BY <1>4 DEF Serve, TypeOK, Up, streams
<1>5. ASSUME NEW a \in Agents, Kill(a) PROVE TypeOK'
  <2>1. pc' \in [Agents -> {"off", "failed", "dead"} \cup Starting \cup Up]
    BY <1>5 DEF Kill, TypeOK
  <2>2. call' \in [Calls -> {"idle", "refused", "broken"} \cup Live]
    BY <1>5 DEF Kill, TypeOK
  <2> QED
    BY <1>5, <2>1, <2>2 DEF Kill, TypeOK
<1>6. ASSUME NEW c \in Calls, NEW m \in Methods, Dial(c, m) PROVE TypeOK'
  <2>1. call' \in [Calls -> {"idle", "refused", "broken"} \cup Live] /\ rpc' \in [Calls -> Methods]
    BY <1>6 DEF Dial, Live, TypeOK
  <2>2. to' \in [Calls -> Agents \cup {Nobody}] /\ parked' \in [Calls -> BOOLEAN]
    BY <1>6 DEF Dial, TypeOK
  <2>3. left' \in [Calls -> 0..rotation] /\ stalled' \in [Calls -> BOOLEAN]
    BY <1>0, <1>6 DEF Dial, TypeOK
  <2>4. unread' \in [Calls -> Seq(Replies)] /\ \A d \in Calls : Len(unread'[d]) <= Window
    BY <1>6 DEF Dial, TypeOK
  <2>5. held' \in [Calls -> Replies \cup {NoReply}]
    BY <1>6 DEF Dial, TypeOK
  <2> QED
    BY <1>6, <2>1, <2>2, <2>3, <2>4, <2>5 DEF Dial, TypeOK, starting
<1>13. ASSUME NEW c \in Calls, NEW h \in Headers, Accept(c, h) PROVE TypeOK'
  BY <1>13 DEF Accept, Live, TypeOK, starting
<1>7. ASSUME NEW c \in Calls, HangUp(c) PROVE TypeOK'
  BY <1>7 DEF HangUp, TypeOK, starting
<1>8. ASSUME NEW c \in Calls, Emit(c) PROVE TypeOK'
  <2>1. Minted(c) \in Replies
    BY <1>8 DEF Emit, CanEmit, Live, CallsOK, RootsOf, Minted, Root, Replies, Ages
  <2>2. unread[c] \in Seq(Replies) /\ Len(unread[c]) < Window
    BY <1>8 DEF Emit, CanEmit, HasRoom, TypeOK
  <2>3. Append(unread[c], Minted(c)) \in Seq(Replies)
        /\ Len(Append(unread[c], Minted(c))) <= Window
    BY <2>1, <2>2
  <2>4. unread' \in [Calls -> Seq(Replies)] /\ \A d \in Calls : Len(unread'[d]) <= Window
    BY <1>8, <2>3 DEF Emit, TypeOK
  <2>5. parked' \in [Calls -> BOOLEAN]
    BY <1>8 DEF Emit, TypeOK
  <2> QED
    BY <1>8, <2>4, <2>5 DEF Emit, TypeOK, starting
<1>9. ASSUME NEW c \in Calls, Poll(c) PROVE TypeOK'
  <2>1. left' \in [Calls -> 0..rotation] /\ parked' \in [Calls -> BOOLEAN]
    BY <1>0, <1>9 DEF Poll, Pause, TypeOK
  <2> QED
    BY <1>9, <2>1 DEF Poll, TypeOK, starting
<1>10. ASSUME NEW c \in Calls, Read(c) PROVE TypeOK'
  <2>1. unread[c] \in Seq(Replies) /\ unread[c] # <<>> /\ Len(unread[c]) <= Window
    BY <1>10 DEF Read, TypeOK
  <2>2. Head(unread[c]) \in Replies /\ Tail(unread[c]) \in Seq(Replies)
        /\ Len(Tail(unread[c])) <= Window
    BY <2>1
  <2>3. unread' \in [Calls -> Seq(Replies)] /\ \A d \in Calls : Len(unread'[d]) <= Window
    BY <1>10, <2>2 DEF Read, TypeOK
  <2>4. held' \in [Calls -> Replies \cup {NoReply}]
    BY <1>10, <2>2 DEF Read, TypeOK
  <2> QED
    BY <1>10, <2>3, <2>4 DEF Read, TypeOK, starting
<1>11. CASE Tick
  <2>1. left' \in [Calls -> 0..rotation]
    BY <1>0, <1>11 DEF Tick, TypeOK
  <2>2. held' \in [Calls -> Replies \cup {NoReply}]
    BY <1>11, OlderReply DEF Tick, TypeOK
  <2>3. unread' \in [Calls -> Seq(Replies)] /\ \A d \in Calls : Len(unread'[d]) <= Window
    BY <1>11, OlderUnread DEF Tick, TypeOK
  <2>4. stalled' \in [Calls -> BOOLEAN]
    BY <1>11 DEF Tick, TypeOK
  <2> QED
    BY <1>11, <2>1, <2>2, <2>3, <2>4 DEF Tick, TypeOK, starting
<1>12. CASE UNCHANGED vars
  BY <1>12 DEF vars, TypeOK
<1> QED
  BY <1>1, <1>2, <1>3, <1>4, <1>5, <1>6, <1>7, <1>8, <1>9, <1>10, <1>11, <1>12, <1>13
  DEF Next, Process, Client, Server

\* What the starts know of each other survives every step.
LEMMA StartStep == IInv /\ [Next]_vars => SoloStart'
<1> SUFFICES ASSUME IInv, [Next]_vars PROVE SoloStart'
  OBVIOUS
<1> USE NamesAssumption DEF IInv, TypeOK, SoloStart, Starting
<1>1. ASSUME NEW a \in Agents, Check(a) PROVE SoloStart'
  BY <1>1 DEF Check, AfterCheck
<1>2. ASSUME NEW a \in Agents, Remove(a) PROVE SoloStart'
  BY <1>2 DEF Remove
<1>3. ASSUME NEW a \in Agents, Bind(a) PROVE SoloStart'
  BY <1>3 DEF Bind
<1>4. ASSUME NEW a \in Agents, Serve(a) PROVE SoloStart'
  BY <1>4 DEF Serve
<1>5. ASSUME NEW a \in Agents, Kill(a) PROVE SoloStart'
  BY <1>5 DEF Kill
<1>6. ASSUME UNCHANGED starting PROVE SoloStart'
  BY <1>6 DEF starting
<1>7. /\ \A c \in Calls, m \in Methods : Dial(c, m) => UNCHANGED starting
      /\ \A c \in Calls, h \in Headers : Accept(c, h) => UNCHANGED starting
  BY DEF Dial, Accept
<1>8. \A c \in Calls : HangUp(c) \/ Emit(c) \/ Poll(c) \/ Read(c) => UNCHANGED starting
  BY DEF HangUp, Emit, Poll, Read
<1>9. Tick \/ UNCHANGED vars => UNCHANGED starting
  BY DEF Tick, vars, starting
<1> QED
  BY <1>1, <1>2, <1>3, <1>4, <1>5, <1>6, <1>7, <1>8, <1>9 DEF Next, Process, Client, Server

\* A step of one call leaves the others as they are.
LEMMA OtherCalls ==
    ASSUME CallsOK, NEW c \in Calls, RootsOf(c)', FreshOf(c)', rotation' = rotation,
           \A d \in Calls \ {c} :
              /\ call'[d] = call[d] /\ to'[d] = to[d] /\ held'[d] = held[d]
              /\ unread'[d] = unread[d] /\ parked'[d] = parked[d]
              /\ left'[d] = left[d] /\ stalled'[d] = stalled[d]
    PROVE  CallsOK'
<1> SUFFICES ASSUME NEW d \in Calls \ {c} PROVE RootsOf(d)' /\ FreshOf(d)'
  BY DEF CallsOK
<1>1. RootsOf(d)'
  BY DEF CallsOK, RootsOf
<1>2. FreshOf(d)'
  BY DEF CallsOK, FreshOf
<1> QED
  BY <1>1, <1>2

\* Roots and ages survive every step.
LEMMA CallStep == IInv /\ [Next]_vars => CallsOK'
<1> SUFFICES ASSUME IInv, [Next]_vars PROVE CallsOK'
  OBVIOUS
<1> USE NumbersAssumption, NamesAssumption DEF IInv
<1>0. rotation \in Nat
  BY DEF TypeOK
<1>1. ASSUME UNCHANGED <<rotation, streams>> PROVE CallsOK'
  BY <1>1 DEF streams, CallsOK, RootsOf, FreshOf
<1>2. \A a \in Agents : Check(a) \/ Remove(a) \/ Bind(a) \/ Serve(a)
                        => UNCHANGED <<rotation, streams>>
  BY DEF Check, Remove, Bind, Serve
<1>3. ASSUME NEW a \in Agents, Kill(a) PROVE CallsOK'
  <2> SUFFICES ASSUME NEW d \in Calls PROVE RootsOf(d)' /\ FreshOf(d)'
    BY DEF CallsOK
  <2>1. /\ call'[d] = "open" => call[d] = "open"
        /\ call'[d] \in Live => call'[d] = call[d]
    BY <1>3 DEF Kill, Live
  <2>2. RootsOf(d)'
    BY <1>3, <2>1 DEF Kill, CallsOK, RootsOf
  <2>3. FreshOf(d)'
    BY <1>3, <2>1 DEF Kill, CallsOK, FreshOf
  <2> QED
    BY <2>2, <2>3
<1>4. ASSUME NEW c \in Calls, NEW m \in Methods, Dial(c, m) PROVE CallsOK'
  <2>1. to'[c] \in Agents /\ held'[c] = NoReply /\ unread'[c] = <<>>
        /\ parked'[c] = FALSE /\ left'[c] = 0
    BY <1>4 DEF Dial, TypeOK
  <2>2. RootsOf(c)' /\ FreshOf(c)'
    BY <1>0, <1>4, <2>1 DEF Dial, RootsOf, FreshOf, NoReply
  <2> QED
    BY <1>4, <2>2, OtherCalls DEF Dial, TypeOK
<1>11. ASSUME NEW c \in Calls, NEW h \in Headers, Accept(c, h) PROVE CallsOK'
  <2>1. held[c] = NoReply /\ unread[c] = <<>> /\ ~parked[c] /\ left[c] = 0 /\ to[c] \in Agents
    BY <1>11 DEF Accept, CanAccept, Live, CallsOK, RootsOf
  <2>2. call'[c] \in {"open", "refused"}
    BY <1>11 DEF Accept, TypeOK
  <2>3. RootsOf(c)'
    BY <1>11, <2>1, <2>2 DEF Accept, RootsOf
  <2>4. FreshOf(c)'
    BY <1>0, <1>11, <2>1 DEF Accept, FreshOf, NoReply
  <2> QED
    BY <1>11, <2>3, <2>4, OtherCalls DEF Accept, TypeOK
<1>5. ASSUME NEW c \in Calls, HangUp(c) PROVE CallsOK'
  <2>1. call'[c] = "idle"
    BY <1>5 DEF HangUp, TypeOK
  <2>2. RootsOf(c)' /\ FreshOf(c)'
    BY <1>5, <2>1 DEF HangUp, Live, CallsOK, RootsOf, FreshOf
  <2> QED
    BY <1>5, <2>2, OtherCalls DEF HangUp, TypeOK
<1>6. ASSUME NEW c \in Calls, Emit(c) PROVE CallsOK'
  <2>1. to[c] \in Agents /\ unread[c] \in Seq(Replies) /\ Len(unread[c]) \in Nat
    BY <1>6 DEF Emit, CanEmit, Live, CallsOK, RootsOf, TypeOK
  <2>2. unread'[c] = Append(unread[c], Minted(c))
    BY <1>6 DEF Emit, TypeOK
  <2>3. \A i \in 1..Len(unread'[c]) :
            unread'[c][i] = IF i <= Len(unread[c]) THEN unread[c][i] ELSE Minted(c)
    BY <2>1, <2>2
  <2>4. Len(unread'[c]) = Len(unread[c]) + 1 /\ unread'[c] # <<>>
    <3>1. Minted(c) \in Replies
      BY <2>1, NumbersAssumption DEF Minted, Root, Replies, Ages
    <3> QED
      BY <2>1, <2>2, <3>1
  <2>5. RootsOf(c)'
    <3>1. call'[c] = "open"
      BY <1>6 DEF Emit, CanEmit
    <3> QED
      BY <1>6, <2>1, <2>3, <2>4, <3>1 DEF Emit, CallsOK, RootsOf, Minted, Root
  <2>6. FreshOf(c)'
    BY <1>6, <2>1, <2>3, <2>4 DEF Emit, CallsOK, FreshOf, Minted
  <2> QED
    BY <1>6, <2>5, <2>6, OtherCalls DEF Emit, TypeOK
<1>7. ASSUME NEW c \in Calls, Poll(c) PROVE CallsOK'
  <2>1. parked[c] /\ parked'[c] = FALSE /\ left'[c] = rotation
    BY <1>7 DEF Poll, CanPoll, Pause, TypeOK
  <2>2. RootsOf(c)' /\ FreshOf(c)'
    BY <1>0, <1>7, <2>1 DEF Poll, CallsOK, RootsOf, FreshOf
  <2> QED
    BY <1>7, <2>2, OtherCalls DEF Poll, TypeOK
<1>8. ASSUME NEW c \in Calls, Read(c) PROVE CallsOK'
  <2>1. call'[c] = call[c] /\ unread[c] \in Seq(Replies) /\ unread[c] # <<>>
    BY <1>8 DEF Read, TypeOK
  <2>2. held'[c] = unread[c][1] /\ unread'[c] = Tail(unread[c])
    BY <1>8, <2>1 DEF Read, TypeOK
  <2>3. Len(unread[c]) \in Nat \ {0} /\ Len(unread'[c]) = Len(unread[c]) - 1
        /\ \A i \in 1..Len(unread'[c]) : unread'[c][i] = unread[c][i + 1]
    BY <2>1, <2>2
  <2>4. RootsOf(c)'
    BY <1>8, <2>2, <2>3 DEF Read, CallsOK, RootsOf
  <2>5. call[c] = "open" /\ ~stalled[c] => held'[c].age = 0
    BY <2>1, <2>2, <2>3 DEF CallsOK, FreshOf
  <2>6. left[c] \in 0..rotation
    BY DEF TypeOK
  <2>7. FreshOf(c)'
    BY <1>0, <1>8, <2>1, <2>3, <2>5, <2>6 DEF Read, CallsOK, FreshOf
  <2> QED
    BY <1>8, <2>4, <2>7, OtherCalls DEF Read, TypeOK
<1>9. CASE Tick
  <2> SUFFICES ASSUME NEW d \in Calls PROVE RootsOf(d)' /\ FreshOf(d)'
    BY DEF CallsOK
  <2>1. unread[d] \in Seq(Replies) /\ held[d] \in Replies \cup {NoReply} /\ left[d] \in 0..rotation
    BY DEF TypeOK
  <2>2. /\ held'[d] = Older(held[d])
        /\ unread'[d] = [i \in DOMAIN unread[d] |-> Older(unread[d][i])]
        /\ stalled'[d] = (stalled[d] \/ (call[d] = "open" /\ unread[d] # <<>>))
        /\ call'[d] = call[d] /\ to'[d] = to[d] /\ parked'[d] = parked[d]
        /\ rotation' = rotation
    BY <1>9 DEF Tick
  <2>0. left'[d] = IF call[d] = "open" /\ ~parked[d] /\ left[d] > 0 THEN left[d] - 1 ELSE left[d]
    BY <1>9 DEF Tick
  <2>3. RootsOf(d)'
    BY <2>0, <2>1, <2>2, OlderReply, OlderUnread DEF CallsOK, RootsOf
  <2>4. ASSUME call[d] = "open", ~stalled'[d] PROVE FreshOf(d)'
    <3>1. unread[d] = <<>> /\ ~stalled[d]
      BY <2>2, <2>4
    <3>2. ~parked[d] /\ left[d] # 0
      BY <1>9, <2>4, <3>1 DEF Tick, CanEmit, CanPoll, HasRoom
    <3>3. left'[d] = left[d] - 1
      BY <1>9, <2>1, <2>4, <3>2 DEF Tick
    <3>4. held[d].age \in Nat /\ held'[d].age \in Nat /\ held'[d].age <= held[d].age + 1
      BY <2>1, <2>2, OlderReply DEF Replies, NoReply, Ages
    <3>5. held[d].age + left[d] <= rotation
      BY <2>4, <3>1, <3>2 DEF CallsOK, FreshOf
    <3>6. unread'[d] = <<>>
      BY <2>1, <2>2, <3>1, OlderUnread
    <3>7. rotation' = rotation /\ ~parked'[d]
      BY <2>2, <3>2
    <3>8. rotation \in Nat /\ left[d] \in Nat
      BY <2>1, NumbersAssumption DEF TypeOK
    <3>9. held'[d].age + left'[d] <= rotation'
      BY <3>2, <3>3, <3>4, <3>5, <3>7, <3>8
    <3>10. held'[d].age <= rotation'
      BY <3>2, <3>3, <3>4, <3>7, <3>8, <3>9
    <3> QED
      BY <3>6, <3>7, <3>9, <3>10 DEF FreshOf
  <2> QED
    BY <2>2, <2>3, <2>4 DEF FreshOf
<1>10. UNCHANGED vars => UNCHANGED <<rotation, streams>>
  BY DEF vars, streams
<1> QED
  BY <1>1, <1>2, <1>3, <1>4, <1>5, <1>6, <1>7, <1>8, <1>9, <1>10, <1>11 DEF Next, Process, Client, Server

LEMMA Invariant == Spec => []IInv
<1>1. IInv /\ [Next]_vars => IInv'
  BY TypeStep, StartStep, CallStep DEF IInv
<1> QED
  BY InitIInv, <1>1, PTL DEF Spec

-----------------------------------------------------------------------------
(* The theorems                                                             *)

\* The processes, the streams and what the clients hold stay within their types:
\* no stream fills its window beyond the bound or sleeps longer than the interval.
THEOREM TypeCorrect == Spec => []TypeOK
<1>1. IInv => TypeOK
  BY DEF IInv
<1> QED
  BY Invariant, <1>1, PTL

\* A client that keeps up with its stream never holds an expired SVID, for every
\* interval within the TTL and every window (server.rs 111-126, svid.rs 153-155).
THEOREM PromptReaders == Spec => []PromptReaderCovered
<1>1. ASSUME IInv PROVE PromptReaderCovered
  <2> SUFFICES ASSUME NEW c \in Calls, call[c] = "open", ~stalled[c], rotation <= Ttl
               PROVE  held[c].age <= Ttl
    BY DEF PromptReaderCovered
  <2>1. held[c].age <= rotation
    BY <1>1 DEF IInv, CallsOK, FreshOf
  <2>2. held[c].age \in Nat /\ rotation \in Nat /\ Ttl \in Nat
    BY <1>1, NumbersAssumption DEF IInv, TypeOK, Replies, NoReply, Ages
  <2> QED
    BY <2>1, <2>2
<1> QED
  BY Invariant, <1>1, PTL

\* A start with no rival fails on a directory only, whatever a killed process left
\* at the path (main.rs 43-54, server.rs 25).
THEOREM StartsAlone == Spec => []FailedStartHadRival
<1>1. IInv => FailedStartHadRival
  BY DEF IInv, SoloStart, FailedStartHadRival
<1> QED
  BY Invariant, <1>1, PTL
-----------------------------------------------------------------------------
(* The pace of a stream                                                     *)

\* The last reply made and the rest of the sleep make up an interval.
SleepOf(c) ==
    LET last == Reply(c, Len(unread[c]))
    IN  ~parked[c] /\ last # NoReply => AgedBy(last, rotation - left[c])

PacedOK == RepliesArePaced /\ \A c \in Calls : SleepOf(c)

LEMMA ReplyType ==
    ASSUME TypeOK, NEW c \in Calls
    PROVE  /\ rotation \in Nat /\ Ttl \in Nat /\ left[c] \in 0..rotation
           /\ unread[c] \in Seq(Replies) /\ Len(unread[c]) \in Nat
           /\ \A i \in 0..Len(unread[c]) : Reply(c, i) \in Replies \cup {NoReply}
           /\ \A i \in 1..Len(unread[c]) : Reply(c, i) \in Replies
<1>1. held[c] \in Replies \cup {NoReply} /\ unread[c] \in Seq(Replies)
  BY DEF TypeOK
<1>2. \A i \in 1..Len(unread[c]) : Reply(c, i) \in Replies
  BY <1>1 DEF Reply
<1> QED
  BY <1>1, <1>2, NumbersAssumption DEF Reply, TypeOK

LEMMA OlderAge ==
    ASSUME NEW r \in Replies
    PROVE  r.age \in Nat /\ Older(r).age = IF r.age > Ttl THEN r.age ELSE r.age + 1
<1>1. r.root # Nobody /\ r.age \in Ages
  BY NamesAssumption DEF Replies
<1> QED
  BY <1>1, NumbersAssumption DEF Older, Replies, Ages

\* Two replies stay as far apart as they are.
LEMMA AgedBoth ==
    ASSUME NEW r \in Replies, NEW s \in Replies, NEW n \in Nat, AgedBy(r, s.age + n)
    PROVE  AgedBy(Older(r), Older(s).age + n)
  BY OlderAge, NumbersAssumption DEF AgedBy

LEMMA PacedFrame ==
    ASSUME PacedOK, UNCHANGED <<rotation, held, unread, parked, left>>
    PROVE  PacedOK'
  BY DEF PacedOK, RepliesArePaced, SleepOf, Reply, AgedBy

\* A step of one call leaves the pace of the others alone.
LEMMA PacedOthers ==
    ASSUME PacedOK, NEW c \in Calls, rotation' = rotation,
           \A i \in 1..Len(unread'[c]) :
              Reply(c, i - 1)' # NoReply => AgedBy(Reply(c, i - 1)', Reply(c, i)'.age + rotation),
           SleepOf(c)',
           \A d \in Calls \ {c} : /\ held'[d] = held[d] /\ unread'[d] = unread[d]
                                  /\ parked'[d] = parked[d] /\ left'[d] = left[d]
    PROVE  PacedOK'
<1>1. ASSUME NEW d \in Calls \ {c} PROVE SleepOf(d)'
  BY <1>1 DEF PacedOK, SleepOf, Reply, AgedBy
<1>2. ASSUME NEW d \in Calls \ {c}, NEW i \in 1..Len(unread'[d]), Reply(d, i - 1)' # NoReply
      PROVE  AgedBy(Reply(d, i - 1)', Reply(d, i)'.age + rotation)
  <2>1. Reply(d, i - 1)' = Reply(d, i - 1) /\ Reply(d, i)' = Reply(d, i)
    BY DEF Reply
  <2> QED
    BY <1>2, <2>1 DEF PacedOK, RepliesArePaced
<1> QED
  BY <1>1, <1>2 DEF PacedOK, RepliesArePaced, AgedBy

LEMMA PacedStep == IInv /\ PacedOK /\ [Next]_vars => PacedOK'
<1> SUFFICES ASSUME IInv, PacedOK, [Next]_vars PROVE PacedOK'
  OBVIOUS
<1> USE DEF IInv
<1>1. ASSUME NEW a \in Agents, Process(a) PROVE PacedOK'
  BY <1>1, PacedFrame DEF Process, Check, Remove, Bind, Serve, Kill, streams
<1>2. ASSUME NEW c \in Calls, (\E h \in Headers : Accept(c, h)) \/ HangUp(c) PROVE PacedOK'
  BY <1>2, PacedFrame DEF Accept, HangUp
<1>3. CASE UNCHANGED vars
  BY <1>3, PacedFrame DEF vars
<1>4. ASSUME NEW c \in Calls, NEW m \in Methods, Dial(c, m) PROVE PacedOK'
  <2>1. unread'[c] = <<>> /\ held'[c] = NoReply /\ Len(unread'[c]) = 0
    BY <1>4 DEF Dial, TypeOK
  <2>2. SleepOf(c)'
    BY <2>1 DEF SleepOf, Reply
  <2>3. \A i \in 1..Len(unread'[c]) :
            Reply(c, i - 1)' # NoReply => AgedBy(Reply(c, i - 1)', Reply(c, i)'.age + rotation)
    <3>1. \A i \in 1..Len(unread'[c]) : FALSE
      BY <2>1
    <3> QED
      BY <3>1
  <2>4. /\ rotation' = rotation
        /\ \A d \in Calls \ {c} : /\ held'[d] = held[d] /\ unread'[d] = unread[d]
                                 /\ parked'[d] = parked[d] /\ left'[d] = left[d]
    BY <1>4 DEF Dial, TypeOK
  <2> QED
    BY <2>2, <2>3, <2>4, PacedOthers
<1>5. ASSUME NEW c \in Calls, Emit(c) PROVE PacedOK'
  <2>0. PICK n \in Nat : n = Len(unread[c])
    BY ReplyType
  <2>1. unread[c] \in Seq(Replies) /\ ~parked[c] /\ left[c] = 0 /\ rotation \in Nat
    BY <1>5, ReplyType DEF Emit, CanEmit
  <2>2. /\ unread'[c] = Append(unread[c], Minted(c)) /\ held'[c] = held[c] /\ parked'[c]
        /\ rotation' = rotation
    BY <1>5 DEF Emit, TypeOK
  <2>3. /\ Len(unread'[c]) = n + 1
        /\ \A i \in 0..n : Reply(c, i)' = Reply(c, i)
        /\ Reply(c, n + 1)' = Minted(c)
    <3>1. Minted(c) \in Replies
      <4>1. to[c] \in Agents
        BY <1>5 DEF Emit, CanEmit, Live, CallsOK, RootsOf
      <4> QED
        BY <4>1, NumbersAssumption DEF Minted, Root, Replies, Ages
    <3>2. Len(unread'[c]) = n + 1 /\ \A i \in 1..n : unread'[c][i] = unread[c][i]
      BY <2>0, <2>1, <2>2, <3>1
    <3>3. unread'[c][n + 1] = Minted(c)
      BY <2>0, <2>1, <2>2, <3>1
    <3> QED
      BY <2>0, <2>2, <3>2, <3>3 DEF Reply
  <2>4. Reply(c, n) # NoReply => AgedBy(Reply(c, n), rotation)
    <3>1. rotation - left[c] = rotation
      BY <2>1
    <3> QED
      BY <2>0, <2>1, <3>1 DEF PacedOK, SleepOf
  <2>5. ASSUME NEW i \in 1..Len(unread'[c]), Reply(c, i - 1)' # NoReply
        PROVE  AgedBy(Reply(c, i - 1)', Reply(c, i)'.age + rotation)
    <3>1. CASE i = n + 1
      <4>1. Reply(c, i - 1)' = Reply(c, n)
        <5>1. i - 1 = n /\ n \in 0..n
          BY <2>0, <3>1
        <5> QED
          BY <2>3, <5>1
      <4>2. Reply(c, i)'.age + rotation = rotation
        <5>1. Reply(c, i)' = Minted(c) /\ Minted(c).age = 0
          BY <2>3, <3>1 DEF Minted
        <5> QED
          BY <2>1, <5>1
      <4> QED
        BY <2>4, <2>5, <4>1, <4>2
    <3>2. CASE i # n + 1
      <4>1. i \in 1..n /\ i - 1 \in 0..n /\ i \in 0..n
        BY <2>0, <2>3, <3>2
      <4>2. Reply(c, i - 1)' = Reply(c, i - 1) /\ Reply(c, i)' = Reply(c, i)
        BY <2>3, <4>1
      <4> QED
        BY <2>0, <2>5, <4>1, <4>2 DEF PacedOK, RepliesArePaced
    <3> QED
      BY <3>1, <3>2
  <2>6. SleepOf(c)'
    BY <2>2 DEF SleepOf
  <2> QED
    BY <1>5, <2>2, <2>5, <2>6, PacedOthers DEF Emit, TypeOK
<1>6. ASSUME NEW c \in Calls, Poll(c) PROVE PacedOK'
  <2>1. /\ unread' = unread /\ held' = held /\ rotation' = rotation /\ left'[c] = rotation
        /\ rotation \in Nat
    BY <1>6, ReplyType DEF Poll, Pause, TypeOK
  <2>2. SleepOf(c)'
    <3>1. PICK n \in Nat : n = Len(unread[c])
      BY ReplyType
    <3>2. Reply(c, n) \in Replies \cup {NoReply}
      BY <3>1, ReplyType
    <3>3. Reply(c, n) # NoReply => Reply(c, n).age \in Nat
      BY <3>2, OlderAge
    <3>4. Reply(c, n)' = Reply(c, n) /\ Len(unread'[c]) = n
      BY <2>1, <3>1 DEF Reply
    <3>5. rotation' - left'[c] = 0
      BY <2>1
    <3> QED
      BY <3>3, <3>4, <3>5 DEF SleepOf, AgedBy
  <2>3. \A i \in 1..Len(unread'[c]) :
            Reply(c, i - 1)' # NoReply => AgedBy(Reply(c, i - 1)', Reply(c, i)'.age + rotation)
    BY <2>1 DEF PacedOK, RepliesArePaced, Reply
  <2> QED
    BY <1>6, <2>1, <2>2, <2>3, PacedOthers DEF Poll, TypeOK
<1>7. ASSUME NEW c \in Calls, Read(c) PROVE PacedOK'
  <2>1. PICK n \in Nat \ {0} : n = Len(unread[c]) /\ unread[c] \in Seq(Replies)
    BY <1>7, ReplyType DEF Read
  <2>2. /\ unread'[c] = Tail(unread[c]) /\ held'[c] = unread[c][1] /\ rotation' = rotation
        /\ parked' = parked /\ left' = left
    BY <1>7, <2>1 DEF Read, TypeOK
  <2>3. Len(unread'[c]) = n - 1 /\ \A i \in 0..(n - 1) : Reply(c, i)' = Reply(c, i + 1)
    BY <2>1, <2>2 DEF Reply
  <2>4. ASSUME NEW i \in 1..Len(unread'[c]), Reply(c, i - 1)' # NoReply
        PROVE  AgedBy(Reply(c, i - 1)', Reply(c, i)'.age + rotation)
    <3>1. i - 1 \in 0..(n - 1) /\ i \in 0..(n - 1) /\ i - 1 + 1 = i /\ i + 1 \in 1..n
          /\ (i + 1) - 1 = i
      BY <2>1, <2>3
    <3>2. Reply(c, i - 1)' = Reply(c, i) /\ Reply(c, i)' = Reply(c, i + 1)
      BY <2>3, <3>1
    <3>3. i + 1 \in 1..Len(unread[c]) /\ Reply(c, i) # NoReply
      BY <2>1, <2>4, <3>1, <3>2
    <3>4. AgedBy(Reply(c, i), Reply(c, i + 1).age + rotation)
      BY <3>1, <3>3 DEF PacedOK, RepliesArePaced
    <3> QED
      BY <3>2, <3>4
  <2>5. SleepOf(c)'
    <3>1. Reply(c, n - 1)' = Reply(c, n)
      <4>1. n - 1 \in 0..(n - 1) /\ n - 1 + 1 = n
        BY <2>1
      <4> QED
        BY <2>3, <4>1
    <3> QED
      BY <2>1, <2>2, <2>3, <3>1 DEF PacedOK, SleepOf, AgedBy
  <2> QED
    BY <1>7, <2>2, <2>4, <2>5, PacedOthers DEF Read, TypeOK
<1>8. CASE Tick
  <2> SUFFICES ASSUME NEW c \in Calls
               PROVE  /\ SleepOf(c)'
                      /\ \A i \in 1..Len(unread'[c]) :
                            Reply(c, i - 1)' # NoReply =>
                                AgedBy(Reply(c, i - 1)', Reply(c, i)'.age + rotation')
    BY DEF PacedOK, RepliesArePaced, AgedBy
  <2>0. PICK n \in Nat : n = Len(unread[c])
    BY ReplyType
  <2>1. /\ unread[c] \in Seq(Replies) /\ rotation \in Nat /\ left[c] \in 0..rotation
        /\ \A i \in 0..n : Reply(c, i) \in Replies \cup {NoReply}
        /\ \A i \in 1..n : Reply(c, i) \in Replies
    BY <2>0, ReplyType
  <2>2. /\ unread'[c] = [i \in DOMAIN unread[c] |-> Older(unread[c][i])]
        /\ held'[c] = Older(held[c]) /\ rotation' = rotation /\ parked' = parked
        /\ left'[c] = left[c] \/ (left[c] > 0 /\ left'[c] = left[c] - 1)
    BY <1>8 DEF Tick
  <2>3. Len(unread'[c]) = n /\ \A i \in 1..n : unread'[c][i] = Older(unread[c][i])
    <3>1. DOMAIN unread[c] = 1..n
      BY <2>0, <2>1
    <3> QED
      BY <2>0, <2>1, <2>2, <3>1, OlderUnread
  <2>4. \A i \in 0..n : Reply(c, i)' = Older(Reply(c, i))
    BY <2>1, <2>2, <2>3 DEF Reply
  <2>5. \A i \in 0..n : Reply(c, i)' # NoReply => Reply(c, i) \in Replies /\ Reply(c, i) # NoReply
    BY <2>1, <2>4, OlderReply
  <2>6. ASSUME NEW i \in 1..n, Reply(c, i - 1)' # NoReply
        PROVE  AgedBy(Reply(c, i - 1)', Reply(c, i)'.age + rotation)
    <3>1. i - 1 \in 0..n /\ i \in 0..n
      BY <2>1
    <3>2. Reply(c, i - 1) \in Replies /\ Reply(c, i - 1) # NoReply /\ Reply(c, i) \in Replies
      BY <2>1, <2>5, <2>6, <3>1
    <3>3. AgedBy(Reply(c, i - 1), Reply(c, i).age + rotation)
      BY <2>0, <3>2 DEF PacedOK, RepliesArePaced
    <3> QED
      BY <2>1, <2>4, <3>1, <3>2, <3>3, AgedBoth
  <2>7. SleepOf(c)'
    <3> SUFFICES ASSUME ~parked[c], Reply(c, n)' # NoReply
                 PROVE  AgedBy(Reply(c, n)', rotation - left'[c])
      BY <2>2, <2>3 DEF SleepOf, AgedBy
    <3>1. Reply(c, n) \in Replies /\ Reply(c, n) # NoReply /\ Reply(c, n)' = Older(Reply(c, n))
      <4>1. n \in 0..n
        BY <2>0
      <4> QED
        BY <2>4, <2>5, <4>1
    <3>2. AgedBy(Reply(c, n), rotation - left[c])
      BY <2>0, <3>1 DEF PacedOK, SleepOf
    <3>3. rotation - left'[c] <= rotation - left[c] + 1
      BY <2>1, <2>2
    <3> QED
      BY <2>1, <2>2, <3>1, <3>2, <3>3, OlderAge, NumbersAssumption DEF AgedBy
  <2> QED
    BY <2>2, <2>3, <2>6, <2>7
<1> QED
  BY <1>1, <1>2, <1>3, <1>4, <1>5, <1>6, <1>7, <1>8 DEF Next, Client, Server

\* No stream is faster than the interval, for any reader, window, interval and TTL.
THEOREM PacedReplies == Spec => []RepliesArePaced
<1>1. Init => PacedOK
  BY DEF Init, PacedOK, RepliesArePaced, SleepOf, Reply
<1>2. PacedOK => RepliesArePaced
  BY DEF PacedOK
<1> QED
  BY <1>1, <1>2, Invariant, PacedStep, PTL DEF Spec
=============================================================================
