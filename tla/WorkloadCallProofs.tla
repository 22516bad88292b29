------------------------- MODULE WorkloadCallProofs -------------------------
(******************************************************************************)
(* The safety theorems about WorkloadCall, for any set of timeouts.           *)
(******************************************************************************)
EXTENDS WorkloadCall, TLAPS

\* What each await adds to the time spent.
BudgetOK ==
    /\ pc \in {"probe", "connect"} => spent = 0
    /\ pc = "call" => spent = waited
    /\ pc = "message" => waited <= spent /\ spent <= timeout + waited
    /\ pc \in Ended => spent <= 2 * timeout

\* The wait for a frame is never shorter than the await that asks for it.
QuietOK == pc \in Awaits /\ ~Answered => waited <= quiet

\* Everything an invocation can fail on is a fault, or a deadline.
CauseOK ==
    /\ ~listening \/ conn = "broken" \/ over # "no" => fault
    /\ FailureHasCause

\* The call has a connection, its second await the headers, its success a message.
ServedOK ==
    /\ pc \in Awaits => conn # "none" /\ prog # "shallow"
    /\ pc = "connect" => prog # "shallow"
    /\ pc = "message" => arrived # "nothing"
    /\ SuccessWasServed

IInv == TypeOK /\ BudgetOK /\ QuietOK /\ CauseOK /\ ServedOK

LEMMA InitIInv == Init => IInv
<1> SUFFICES ASSUME Init PROVE IInv
  OBVIOUS
<1> USE DEF Init, Awaits, Ended
<1>1. fault \in BOOLEAN /\ (~listening => fault)
  OBVIOUS
<1>2. timeout \in Nat /\ pc \in {"probe", "connect"}
  BY TimeoutsAssumption
<1>3. TypeOK
  BY <1>1, <1>2 DEF TypeOK
<1>4. BudgetOK /\ QuietOK /\ ServedOK
  BY <1>2 DEF BudgetOK, QuietOK, ServedOK, SuccessWasServed
<1>5. CauseOK
  BY <1>1, <1>2 DEF CauseOK, FailureHasCause
<1> QED
  BY <1>3, <1>4, <1>5 DEF IInv

LEMMA NextIInv == IInv /\ [Next]_vars => IInv'
<1> SUFFICES ASSUME IInv, [Next]_vars PROVE IInv'
  OBVIOUS
<1> USE TimeoutsAssumption DEF IInv, TypeOK, BudgetOK, QuietOK, CauseOK, ServedOK, Awaits,
        Ended, Answered, FailureHasCause, SuccessWasServed, Goto, client, server
<1>1. CASE Probe
  BY <1>1 DEF Probe
<1>2. CASE Connect
  BY <1>2 DEF Connect
<1>3. CASE Receive
  BY <1>3 DEF Receive
<1>4. CASE Fail
  BY <1>4 DEF Fail
<1>5. CASE TimesOut
  BY <1>5 DEF TimesOut
<1>6. CASE Tick
  <2>1. TypeOK' /\ BudgetOK'
    BY <1>6 DEF Tick
  <2>2. QuietOK' /\ CauseOK' /\ ServedOK'
    BY <1>6 DEF Tick
  <2> QED
    BY <2>1, <2>2
<1>7. CASE SendHeaders
  <2>1. TypeOK' /\ BudgetOK'
    BY <1>7 DEF SendHeaders, Serving
  <2>2. QuietOK' /\ CauseOK' /\ ServedOK'
    BY <1>7 DEF SendHeaders, Serving
  <2> QED
    BY <2>1, <2>2
<1>8. CASE SendMessage
  <2>1. TypeOK' /\ BudgetOK'
    BY <1>8 DEF SendMessage, Serving
  <2>2. QuietOK' /\ CauseOK' /\ ServedOK'
    BY <1>8 DEF SendMessage, Serving
  <2> QED
    BY <2>1, <2>2
<1>9. CASE EndCall
  <2>1. /\ UNCHANGED <<prog, timeout, pc, waited, spent, listening, conn, arrived, quiet>>
        /\ fault' = TRUE /\ pc \in Awaits
        /\ over' \in {"end", "status"}
    BY <1>9 DEF EndCall, Serving
  <2>2. TypeOK'
    BY <2>1
  <2>3. BudgetOK' /\ QuietOK' /\ ServedOK'
    BY <2>1
  <2>4. CauseOK'
    BY <2>1
  <2> QED
    BY <2>2, <2>3, <2>4
<1>10. CASE Crash \/ Unlisten
  <2>1. /\ UNCHANGED <<prog, timeout, pc, waited, spent, arrived, over, quiet>>
        /\ listening' \in BOOLEAN /\ fault' = TRUE
        /\ conn' = conn \/ (conn = "open" /\ conn' = "broken")
    BY <1>10 DEF Crash, Unlisten
  <2>2. TypeOK'
    BY <2>1
  <2>3. BudgetOK' /\ QuietOK'
    <3>1. UNCHANGED <<BudgetOK, QuietOK>>
      BY <2>1
    <3> QED
      BY <3>1
  <2>4. CauseOK' /\ ServedOK'
    BY <2>1
  <2> QED
    BY <2>2, <2>3, <2>4
<1>11. CASE Restart
  BY <1>11 DEF Restart
<1>12. CASE UNCHANGED vars
  BY <1>12 DEF vars
<1> QED
  BY <1>1, <1>2, <1>3, <1>4, <1>5, <1>6, <1>7, <1>8, <1>9, <1>10, <1>11, <1>12
  DEF Next, Invocation, Environment

LEMMA Invariant == Spec => []IInv
  BY InitIInv, NextIInv, PTL DEF Spec

\* The variables keep their types; no await outlives its timeout.
THEOREM TypeCorrect == Spec => []TypeOK
  BY Invariant, PTL DEF IInv

\* An invocation waits for at most twice its timeout, whatever the server does.
THEOREM Bounded == Spec => []BoundedWait
<1>1. IInv => BoundedWait
  BY TimeoutsAssumption DEF IInv, TypeOK, BudgetOK, BoundedWait, Awaits, Ended
<1> QED
  BY <1>1, Invariant, PTL

\* Every error and every timeout has a cause at the server.
THEOREM Causes == Spec => []FailureHasCause
<1>1. IInv => FailureHasCause
  BY DEF IInv, CauseOK
<1> QED
  BY <1>1, Invariant, PTL

\* Success of a fetch or of a deep health check means that a message arrived.
THEOREM Served == Spec => []SuccessWasServed
<1>1. IInv => SuccessWasServed
  BY DEF IInv, ServedOK
<1> QED
  BY <1>1, Invariant, PTL

\* Every invocation is one Request: WorkloadCall implements the abstract module.
THEOREM Implements == Spec => ImplementsRequest
<1>1. Init => Request!Init
  BY TimeoutsAssumption DEF Init, Request!Init, Ended
<1>2. IInv /\ [Next]_vars => [Request!Next]_(Request!vars)
  <2> SUFFICES ASSUME IInv, [Next]_vars PROVE [Request!Next]_(Request!vars)
    OBVIOUS
  <2> USE DEF Ended, Awaits, Goto, client, server, Request!vars
  <2> DEFINE Outcome == IF pc \in Ended THEN pc ELSE "none"
  <2>1. timeout \in Nat /\ spent \in Nat /\ waited \in 0..timeout /\ fault \in BOOLEAN
    BY TimeoutsAssumption DEF IInv, TypeOK
  <2>2. ASSUME pc' \in Ended, pc \notin Ended,
               UNCHANGED <<prog, timeout, spent, arrived, fault>>,
               Request!Justified(pc')
        PROVE  Request!Finish
    BY <2>2 DEF Request!Finish
  <2>3. ASSUME pc' \notin Ended, pc \notin Ended,
               UNCHANGED <<prog, timeout, spent, arrived, fault>>
        PROVE  UNCHANGED Request!vars
    BY <2>3
  <2>4. ASSUME UNCHANGED <<prog, timeout, spent, arrived, pc>>, fault' = TRUE
        PROVE  Request!Fault
    BY <2>4 DEF Request!Fault
  <2>5. CASE Probe
    <3>1. UNCHANGED <<prog, timeout, spent, arrived, fault>> /\ pc \notin Ended
      BY <2>5 DEF Probe
    <3>2. (pc' = "err" /\ fault) \/ (pc' = "ok" /\ prog = "shallow") \/ pc' = "connect"
      BY <2>5 DEF Probe, IInv, CauseOK
    <3>3. CASE pc' = "connect"
      BY <3>1, <3>3, <2>3 DEF Request!Next
    <3>4. CASE pc' # "connect"
      BY <3>1, <3>2, <3>4, <2>2 DEF Request!Next, Request!Justified
    <3> QED
      BY <3>3, <3>4
  <2>6. CASE Connect
    <3>1. UNCHANGED <<prog, timeout, spent, arrived, fault>> /\ pc \notin Ended
      BY <2>6 DEF Connect
    <3>2. (pc' = "err" /\ fault) \/ pc' = "call"
      BY <2>6 DEF Connect, IInv, CauseOK
    <3>3. CASE pc' = "call"
      BY <3>1, <3>3, <2>3 DEF Request!Next
    <3>4. CASE pc' # "call"
      BY <3>1, <3>2, <3>4, <2>2 DEF Request!Next, Request!Justified
    <3> QED
      BY <3>3, <3>4
  <2>7. CASE Receive
    <3>1. UNCHANGED <<prog, timeout, spent, arrived, fault>> /\ pc \notin Ended
      BY <2>7 DEF Receive, Answered
    <3>2. (pc' = "ok" /\ arrived = "message") \/ pc' = "message"
      BY <2>7 DEF Receive, Answered
    <3>3. CASE pc' = "message"
      BY <3>1, <3>3, <2>3 DEF Request!Next
    <3>4. CASE pc' # "message"
      BY <3>1, <3>2, <3>4, <2>2 DEF Request!Next, Request!Justified
    <3> QED
      BY <3>3, <3>4
  <2>8. CASE Fail
    <3>1. UNCHANGED <<prog, timeout, spent, arrived, fault>> /\ pc \notin Ended
      BY <2>8 DEF Fail
    <3>2. pc' = "err" /\ fault
      BY <2>8 DEF Fail, IInv, CauseOK
    <3> QED
      BY <3>1, <3>2, <2>2 DEF Request!Next, Request!Justified
  <2>9. CASE TimesOut
    <3>1. UNCHANGED <<prog, timeout, spent, arrived, fault>> /\ pc \notin Ended
      BY <2>9 DEF TimesOut
    <3>2. pc' = "timedout" /\ waited = timeout /\ pc \in Awaits
      BY <2>9 DEF TimesOut
    <3>3. spent >= timeout
      BY <3>2, <2>1 DEF IInv, BudgetOK
    <3> QED
      BY <3>1, <3>2, <3>3, <2>2 DEF Request!Next, Request!Justified
  <2>10. CASE Tick
    <3>1. UNCHANGED <<prog, timeout, pc, arrived, fault>> /\ spent' = spent + 1
      BY <2>10 DEF Tick
    <3>2. pc \in Awaits /\ waited < timeout
      BY <2>10 DEF Tick
    <3>3. spent < 2 * timeout
      BY <3>2, <2>1 DEF IInv, BudgetOK
    <3>4. Request!Wait
      BY <3>1, <3>2, <3>3 DEF Request!Wait
    <3> QED
      BY <3>4 DEF Request!Next
  <2>11. CASE SendHeaders
    <3>1. UNCHANGED Request!vars
      BY <2>11 DEF SendHeaders
    <3> QED
      BY <3>1
  <2>12. CASE SendMessage
    <3>1. /\ UNCHANGED <<prog, timeout, pc, spent, fault>>
          /\ arrived' = "message" /\ pc \in Awaits
      BY <2>12 DEF SendMessage, Serving
    <3>2. prog # "shallow"
      BY <3>1 DEF IInv, ServedOK
    <3>3. Request!Answer
      BY <3>1, <3>2 DEF Request!Answer
    <3> QED
      BY <3>3 DEF Request!Next
  <2>13. CASE EndCall
    BY <2>13, <2>4 DEF EndCall, Request!Next
  <2>14. CASE Crash \/ Unlisten
    BY <2>14, <2>4 DEF Crash, Unlisten, Request!Next
  <2>15. CASE Restart
    BY <2>15 DEF Restart
  <2>16. CASE UNCHANGED vars
    BY <2>16 DEF vars
  <2> QED
    BY <2>5, <2>6, <2>7, <2>8, <2>9, <2>10, <2>11, <2>12, <2>13, <2>14, <2>15, <2>16
    DEF Next, Invocation, Environment
<1> QED
  BY <1>1, <1>2, Invariant, PTL DEF Spec, ImplementsRequest, Request!Spec
-----------------------------------------------------------------------------
(* No invocation goes on for ever: the safety half of EveryCallEnds         *)

\* At most so many steps and ticks are left to the invocation.
StepsLeft ==
    IF pc = "probe" THEN 2 * timeout + 4
    ELSE IF pc = "connect" THEN 2 * timeout + 3
    ELSE IF pc = "call" THEN 2 * timeout - waited + 2
    ELSE IF pc = "message" THEN timeout - waited + 1
    ELSE 0

\* Every step of the invocation and every tick brings it nearer to its end, whatever the
\* server does in between: there is no retry, and no frame starts a deadline again but
\* the headers, once.  What is left of EveryCallEnds is that an invocation that has not
\* ended can take a step.
THEOREM StepsRunOut ==
    Spec => /\ [](StepsLeft \in 0..(2 * timeout + 4) /\ (pc \notin Ended => StepsLeft > 0))
            /\ [][client' # client => StepsLeft' < StepsLeft]_vars
<1> DEFINE Left == StepsLeft \in 0..(2 * timeout + 4) /\ (pc \notin Ended => StepsLeft > 0)
           Step == client' # client => StepsLeft' < StepsLeft
<1>1. IInv => Left
  BY TimeoutsAssumption DEF IInv, TypeOK, StepsLeft, Awaits, Ended
<1>2. IInv /\ [Next]_vars => [Step]_vars
  <2> SUFFICES ASSUME IInv, Next, client' # client PROVE StepsLeft' < StepsLeft
    OBVIOUS
  <2> USE DEF StepsLeft, Goto, Awaits, Ended
  <2>1. timeout \in Nat /\ waited \in 0..timeout
    BY TimeoutsAssumption DEF IInv, TypeOK
  <2>2. CASE Probe \/ Connect
    <3>1. /\ timeout' = timeout /\ waited' = 0
          /\ \/ pc = "probe" /\ pc' \in {"err", "ok", "connect"}
             \/ pc = "connect" /\ pc' \in {"call", "err"}
      BY <2>2 DEF Probe, Connect
    <3> QED
      BY <2>1, <3>1
  <2>3. CASE Receive \/ Fail \/ TimesOut
    <3>1. /\ timeout' = timeout /\ waited' = 0
          /\ \/ pc = "call" /\ pc' \in {"message", "err", "timedout"}
             \/ pc = "message" /\ pc' \in {"ok", "err", "timedout"}
      BY <2>3 DEF Receive, Answered, Fail, TimesOut
    <3> QED
      BY <2>1, <3>1
  <2>4. CASE Tick
    <3>1. /\ timeout' = timeout /\ waited' = waited + 1 /\ waited < timeout
          /\ pc' = pc /\ pc \in {"call", "message"}
      BY <2>4 DEF Tick
    <3> QED
      BY <2>1, <3>1
  <2>5. CASE Environment
    BY <2>5 DEF Environment, SendHeaders, SendMessage, EndCall, Crash, Unlisten, Restart, client
  <2> QED
    BY <2>2, <2>3, <2>4, <2>5 DEF Next, Invocation
<1> HIDE DEF Left, Step
<1>3. Spec => []Left /\ [][Step]_vars
  BY <1>1, <1>2, Invariant, PTL DEF Spec
<1> QED
  BY <1>3 DEF Left, Step
=============================================================================
