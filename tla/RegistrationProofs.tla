------------------------- MODULE RegistrationProofs -------------------------
(******************************************************************************)
(* The safety theorems about Registration, for any runs, any workloads and    *)
(* any number of pods.                                                        *)
(******************************************************************************)
EXTENDS Registration, TLAPS

\* The pod a script talks to never comes back once it is gone.
PodsOK ==
    /\ pod \notin gone
    /\ \A r \in Runs : target[r] \in gone \cup {pod, NoPod}

\* Where a run is tells the script, and a line it works on exists.
CursorOK ==
    \A r \in Runs :
        /\ pc[r] \in {"alias", "newalias", "entry", "newentry"} => script[r] = "deploy"
        /\ pc[r] \in {"find", "delete"} => script[r] = "undeploy"
        /\ pc[r] \in {"newentry", "delete"} => line[r] <= Len(Workloads)

\* Two scripts that run at the same time have crossed.
CrossedOK ==
    \A r, q \in Runs :
        pc[r] \in Running /\ pc[q] \in Running /\ script[r] # script[q] => r \in crossed

\* A deploy past its alias finds the alias there, on the pod it talks to.
AliasOK ==
    \A r \in Runs : pc[r] \in {"entry", "newentry"} /\ Reaches(r) => Alias \in entries

Inv1 == TypeOK /\ PodsOK /\ CursorOK /\ CrossedOK
IInv == Inv1 /\ AliasOK /\ ParentsExist /\ CountIsHonest /\ UndeployClears

\* Facts about the constants, as the provers use them.
LEMMA Lines ==
    /\ Len(Workloads) \in Nat
    /\ \A i \in 1..Len(Workloads) : Workloads[i] \in Ids /\ Workloads[i] # Alias
  BY WorkloadsAssumption DEF Ids

LEMMA InitIInv == Init => IInv
<1> SUFFICES ASSUME Init PROVE IInv
  OBVIOUS
<1> USE Lines, WorkloadsAssumption DEF Init, Running, Ended
<1>1. TypeOK
  BY DEF TypeOK
<1>2. PodsOK /\ CursorOK /\ CrossedOK
  BY DEF PodsOK, CursorOK, CrossedOK
<1>3. AliasOK /\ ParentsExist
  BY DEF AliasOK, ParentsExist
<1>4. CountIsHonest /\ UndeployClears
  BY DEF CountIsHonest, UndeployClears
<1> QED
  BY <1>1, <1>2, <1>3, <1>4 DEF IInv, Inv1

-----------------------------------------------------------------------------
(* Types, pods and cursors                                                  *)

LEMMA TypeStep == Inv1 /\ [Next]_vars => TypeOK'
<1> SUFFICES ASSUME Inv1, [Next]_vars PROVE TypeOK'
  OBVIOUS
<1> USE Lines, WorkloadsAssumption DEF Inv1, TypeOK, Running, Ended, Goto, Noted, server, history
<1>1. ASSUME NEW r \in Runs, NEW s \in {"deploy", "undeploy"}, Begin(r, s) PROVE TypeOK'
  <2>1. pc' \in [Runs -> Running \cup Ended]
    BY <1>1 DEF Begin
  <2> QED
    BY <1>1, <2>1 DEF Begin
<1>2. ASSUME NEW r \in Runs, Interrupt(r) PROVE TypeOK'
  BY <1>2 DEF Interrupt
<1>3. ASSUME NEW r \in Runs, CheckAlias(r) PROVE TypeOK'
  BY <1>3 DEF CheckAlias
<1>4. ASSUME NEW r \in Runs, MakeAlias(r) PROVE TypeOK'
  <2>1. entries' \subseteq Ids \cup {Alias} /\ refused' \subseteq Runs /\ failed' \subseteq Runs
    BY <1>4 DEF MakeAlias, Create
  <2>2. pc' \in [Runs -> Running \cup Ended]
    BY <1>4 DEF MakeAlias, AfterRefusal
  <2> QED
    BY <1>4, <2>1, <2>2 DEF MakeAlias
<1>5. ASSUME NEW r \in Runs, CheckEntry(r) PROVE TypeOK'
  <2>1. line[r] \in 1..Len(Workloads) /\ failed' \subseteq Runs
    BY <1>5 DEF CheckEntry
  <2>2. pc' \in [Runs -> Running \cup Ended]
    BY <1>5 DEF CheckEntry
  <2>3. \/ /\ count' = count /\ line' = line
        \/ /\ count' = [count EXCEPT ![r] = count[r] + 1]
           /\ line' = [line EXCEPT ![r] = line[r] + 1]
    BY <1>5 DEF CheckEntry, NextLine
  <2>4. count' \in [Runs -> Nat] /\ line' \in [Runs -> 1..Len(Workloads) + 1]
    <3>1. count[r] + 1 \in Nat /\ line[r] + 1 \in 1..Len(Workloads) + 1
      BY <2>1
    <3>2. [count EXCEPT ![r] = count[r] + 1] \in [Runs -> Nat]
      BY <3>1
    <3>3. [line EXCEPT ![r] = line[r] + 1] \in [Runs -> 1..Len(Workloads) + 1]
      BY <3>1
    <3> QED
      BY <2>3, <3>2, <3>3
  <2>5. \A q \in Runs : count'[q] < line'[q]
    <3>1. \A q \in Runs : count[q] \in Nat /\ line[q] \in Nat /\ count[q] < line[q]
      OBVIOUS
    <3> QED
      BY <2>3, <3>1
  <2> QED
    BY <1>5, <2>1, <2>2, <2>4, <2>5 DEF CheckEntry
<1>6. ASSUME NEW r \in Runs, MakeEntry(r) PROVE TypeOK'
  <2>1. line[r] \in 1..Len(Workloads)
    BY <1>6 DEF MakeEntry, CursorOK
  <2>2. entries' \subseteq Ids \cup {Alias}
    BY <1>6, <2>1 DEF MakeEntry, Create
  <2>3. PICK ok \in BOOLEAN : count' = [count EXCEPT ![r] = Counted(r, ok)]
    BY <1>6 DEF MakeEntry
  <2>4. Counted(r, ok) \in Nat /\ Counted(r, ok) <= count[r] + 1
    BY DEF Counted
  <2>5. line' = [line EXCEPT ![r] = line[r] + 1]
    BY <1>6 DEF MakeEntry
  <2>6. count' \in [Runs -> Nat] /\ line' \in [Runs -> 1..Len(Workloads) + 1]
    BY <2>1, <2>3, <2>4, <2>5
  <2>7. \A q \in Runs : count'[q] < line'[q]
    BY <2>1, <2>3, <2>4, <2>5
  <2>8. pc' \in [Runs -> Running \cup Ended] /\ failed' \subseteq Runs
    BY <1>6 DEF MakeEntry
  <2> QED
    BY <1>6, <2>2, <2>6, <2>7, <2>8 DEF MakeEntry
<1>7. ASSUME NEW r \in Runs, FindEntry(r) PROVE TypeOK'
  <2>1. line[r] \in 1..Len(Workloads) /\ failed' \subseteq Runs
    <3>1. line[r] \in 1..Len(Workloads)
      BY <1>7 DEF FindEntry
    <3>2. failed' \in {failed, failed \cup {r}}
      BY <1>7 DEF FindEntry
    <3> QED
      BY <3>1, <3>2
  <2>2. pc' \in [Runs -> Running \cup Ended]
    <3>1. pc' \in {pc, [pc EXCEPT ![r] = "delete"]}
      BY <1>7 DEF FindEntry
    <3> QED
      BY <3>1
  <2>3. line' = line \/ line' = [line EXCEPT ![r] = line[r] + 1]
    BY <1>7 DEF FindEntry, AfterMissing
  <2>4. line' \in [Runs -> 1..Len(Workloads) + 1] /\ \A q \in Runs : count[q] < line'[q]
    BY <2>1, <2>3
  <2> QED
    BY <1>7, <2>1, <2>2, <2>4 DEF FindEntry
<1>8. ASSUME NEW r \in Runs, DeleteEntry(r) PROVE TypeOK'
  <2>1. line[r] \in 1..Len(Workloads)
    BY <1>8 DEF DeleteEntry, CursorOK
  <2>2. line' \in [Runs -> 1..Len(Workloads) + 1] /\ \A q \in Runs : count'[q] < line'[q]
    BY <1>8, <2>1 DEF DeleteEntry
  <2>3. entries' \subseteq Ids \cup {Alias} /\ failed' \subseteq Runs
    BY <1>8 DEF DeleteEntry
  <2>4. pc' \in [Runs -> Running \cup Ended]
    BY <1>8 DEF DeleteEntry
  <2> QED
    BY <1>8, <2>2, <2>3, <2>4 DEF DeleteEntry
<1>9. ASSUME NEW r \in Runs, Finish(r) PROVE TypeOK'
  <2>1. pc' \in [Runs -> Running \cup Ended]
    BY <1>9 DEF Finish
  <2> QED
    BY <1>9, <2>1 DEF Finish
<1>10. CASE LosePod \/ NewPod
  BY <1>10 DEF LosePod, NewPod
<1>11. CASE UNCHANGED vars
  BY <1>11 DEF vars
<1> QED
  BY <1>1, <1>2, <1>3, <1>4, <1>5, <1>6, <1>7, <1>8, <1>9, <1>10, <1>11 DEF Next, Run

LEMMA CursorStep == Inv1 /\ [Next]_vars => PodsOK' /\ CursorOK' /\ CrossedOK'
<1> SUFFICES ASSUME Inv1, [Next]_vars PROVE PodsOK' /\ CursorOK' /\ CrossedOK'
  OBVIOUS
<1> USE WorkloadsAssumption DEF Inv1, TypeOK, PodsOK, CursorOK, CrossedOK, Running, Ended, Goto,
        server, history
<1>1. ASSUME NEW r \in Runs, NEW s \in {"deploy", "undeploy"}, Begin(r, s)
      PROVE  PodsOK' /\ CursorOK' /\ CrossedOK'
  <2>1. PodsOK' /\ CursorOK'
    BY <1>1 DEF Begin
  <2>2. CrossedOK'
    BY <1>1 DEF Begin
  <2> QED
    BY <2>1, <2>2
<1>2. ASSUME NEW r \in Runs, Interrupt(r) PROVE PodsOK' /\ CursorOK' /\ CrossedOK'
  BY <1>2 DEF Interrupt
<1>3. ASSUME NEW r \in Runs, CheckAlias(r) PROVE PodsOK' /\ CursorOK' /\ CrossedOK'
  BY <1>3 DEF CheckAlias
<1>4. ASSUME NEW r \in Runs, MakeAlias(r) PROVE PodsOK' /\ CursorOK' /\ CrossedOK'
  BY <1>4 DEF MakeAlias, AfterRefusal
<1>5. ASSUME NEW r \in Runs, CheckEntry(r) PROVE PodsOK' /\ CursorOK' /\ CrossedOK'
  <2>1. UNCHANGED <<pod, gone, script, target, crossed>>
    BY <1>5 DEF CheckEntry
  <2>2. /\ pc[r] = "entry" /\ line[r] <= Len(Workloads)
        /\ \/ pc' = pc /\ line' = [line EXCEPT ![r] = NextLine(r)]
           \/ pc' = [pc EXCEPT ![r] = "newentry"] /\ line' = line
    BY <1>5 DEF CheckEntry
  <2>3. CursorOK'
    BY <2>1, <2>2
  <2>4. PodsOK' /\ CrossedOK'
    BY <2>1, <2>2
  <2> QED
    BY <2>3, <2>4
<1>6. ASSUME NEW r \in Runs, MakeEntry(r) PROVE PodsOK' /\ CursorOK' /\ CrossedOK'
  BY <1>6 DEF MakeEntry
<1>7. ASSUME NEW r \in Runs, FindEntry(r) PROVE PodsOK' /\ CursorOK' /\ CrossedOK'
  <2>1. UNCHANGED <<pod, gone, script, target, crossed>>
    BY <1>7 DEF FindEntry
  <2>2. /\ pc[r] = "find" /\ line[r] <= Len(Workloads)
        /\ \/ pc' = pc /\ line' = [line EXCEPT ![r] = AfterMissing(r)]
           \/ pc' = [pc EXCEPT ![r] = "delete"] /\ line' = line
    BY <1>7 DEF FindEntry
  <2>3. CursorOK'
    BY <2>1, <2>2
  <2>4. PodsOK' /\ CrossedOK'
    BY <2>1, <2>2
  <2> QED
    BY <2>3, <2>4
<1>8. ASSUME NEW r \in Runs, DeleteEntry(r) PROVE PodsOK' /\ CursorOK' /\ CrossedOK'
  BY <1>8 DEF DeleteEntry
<1>9. ASSUME NEW r \in Runs, Finish(r) PROVE PodsOK' /\ CursorOK' /\ CrossedOK'
  BY <1>9 DEF Finish
<1>10. CASE LosePod \/ NewPod
  BY <1>10 DEF LosePod, NewPod
<1>11. CASE UNCHANGED vars
  BY <1>11 DEF vars
<1> QED
  BY <1>1, <1>2, <1>3, <1>4, <1>5, <1>6, <1>7, <1>8, <1>9, <1>10, <1>11 DEF Next, Run

-----------------------------------------------------------------------------
(* What a step does to the entries                                          *)

\* Entries appear in a deploy's create, on the pod it talks to.
LEMMA EntriesGrow ==
    ASSUME Inv1, [Next]_vars, NEW id \in entries' \ entries
    PROVE  \E r \in Runs :
              /\ Reaches(r)
              /\ \/ MakeAlias(r) /\ id = Alias
                 \/ MakeEntry(r) /\ id = Workloads[line[r]]
<1>1. ASSUME NEW r \in Runs, Run(r)
      PROVE  \/ entries' \subseteq entries
             \/ MakeAlias(r) /\ Reaches(r) /\ entries' = entries \cup {Alias}
             \/ MakeEntry(r) /\ Reaches(r) /\ entries' = entries \cup {Workloads[line[r]]}
  <2>1. CASE MakeAlias(r)
    BY <2>1 DEF MakeAlias, Create
  <2>2. CASE MakeEntry(r)
    BY <2>2 DEF MakeEntry, Create
  <2>3. CASE DeleteEntry(r)
    BY <2>3 DEF DeleteEntry
  <2>4. CASE (\E s \in {"deploy", "undeploy"} : Begin(r, s)) \/ Interrupt(r) \/ Finish(r)
    BY <2>4 DEF Begin, Interrupt, Finish, server
  <2>5. CASE CheckAlias(r) \/ CheckEntry(r) \/ FindEntry(r)
    BY <2>5 DEF CheckAlias, CheckEntry, FindEntry, server
  <2> QED
    BY <1>1, <2>1, <2>2, <2>3, <2>4, <2>5 DEF Run
<1>2. CASE LosePod \/ NewPod \/ UNCHANGED vars
  BY <1>2 DEF LosePod, NewPod, vars
<1>3. CASE \E r \in Runs : Run(r)
  BY <1>1, <1>3
<1> QED
  BY <1>2, <1>3 DEF Next

\* Entries go in an undeploy's delete, which spares the alias, or with the pod.
LEMMA EntriesShrink ==
    ASSUME Inv1, [Next]_vars, NEW id \in entries \ entries'
    PROVE  \/ LosePod
           \/ \E r \in Runs : DeleteEntry(r) /\ id = Workloads[line[r]] /\ id # Alias
<1>1. ASSUME NEW r \in Runs, Run(r)
      PROVE  DeleteEntry(r) /\ id = Workloads[line[r]] /\ id # Alias
  <2>1. ~MakeAlias(r) /\ ~MakeEntry(r)
    BY DEF MakeAlias, MakeEntry, Create
  <2>2. ~(\E s \in {"deploy", "undeploy"} : Begin(r, s)) /\ ~Interrupt(r) /\ ~Finish(r)
    BY DEF Begin, Interrupt, Finish, server
  <2>3. ~CheckAlias(r) /\ ~CheckEntry(r) /\ ~FindEntry(r)
    BY DEF CheckAlias, CheckEntry, FindEntry, server
  <2>4. DeleteEntry(r)
    BY <1>1, <2>1, <2>2, <2>3 DEF Run
  <2>5. line[r] \in 1..Len(Workloads)
    BY <2>4, Lines DEF DeleteEntry, Inv1, CursorOK, TypeOK
  <2> QED
    BY <2>4, <2>5, Lines DEF DeleteEntry
<1>2. ~NewPod /\ ~UNCHANGED vars
  BY DEF NewPod, vars
<1> QED
  BY <1>1, <1>2 DEF Next

-----------------------------------------------------------------------------
(* The properties                                                           *)

\* A run that gets past its alias reached a pod that has it.
LEMMA AliasStep == IInv /\ [Next]_vars => AliasOK'
<1> SUFFICES ASSUME IInv, [Next]_vars,
                    NEW q \in Runs, pc'[q] \in {"entry", "newentry"}, Reaches(q)'
             PROVE  Alias \in entries'
  BY DEF AliasOK
<1> USE DEF IInv, Inv1
<1>1. ~LosePod /\ ~NewPod
  BY WorkloadsAssumption DEF LosePod, NewPod, Reaches, PodsOK, TypeOK
<1>2. ASSUME Alias \in entries PROVE Alias \in entries'
  BY <1>1, <1>2, EntriesShrink
<1>3. ASSUME NEW r \in Runs, Run(r) PROVE Alias \in entries'
  <2>1. CASE pc[q] \in {"entry", "newentry"} /\ Reaches(q)
    BY <1>2, <2>1 DEF AliasOK
  <2>2. CASE CheckAlias(r)
    BY <1>2, <2>1, <2>2 DEF CheckAlias, Shows, Goto, TypeOK, Reaches, server
  <2>3. CASE MakeAlias(r)
    BY <1>2, <2>1, <2>3 DEF MakeAlias, Create, Created, AfterRefusal, Goto, TypeOK, Reaches
  <2>4. CASE \E s \in {"deploy", "undeploy"} : Begin(r, s)
    BY <1>2, <2>1, <2>4 DEF Begin, Goto, TypeOK, Reaches, server
  <2>5. CASE Interrupt(r) \/ Finish(r)
    BY <1>2, <2>1, <2>5 DEF Interrupt, Finish, Goto, TypeOK, Reaches, server
  <2>6. CASE CheckEntry(r) \/ MakeEntry(r)
    BY <1>2, <2>1, <2>6 DEF CheckEntry, MakeEntry, Goto, TypeOK, Reaches, server
  <2>7. CASE FindEntry(r) \/ DeleteEntry(r)
    BY <1>2, <2>1, <2>7 DEF FindEntry, DeleteEntry, Goto, TypeOK, Reaches, server
  <2> QED
    BY <1>3, <2>2, <2>3, <2>4, <2>5, <2>6, <2>7 DEF Run
<1>4. CASE UNCHANGED vars
  BY <1>2, <1>4 DEF vars, AliasOK, Reaches
<1> QED
  BY <1>1, <1>3, <1>4 DEF Next

LEMMA ParentsStep == IInv /\ [Next]_vars => ParentsExist'
<1> SUFFICES ASSUME IInv, [Next]_vars, NEW id \in entries' \cap Ids PROVE Alias \in entries'
  BY DEF ParentsExist
<1> USE DEF IInv
<1>1. ASSUME LosePod PROVE FALSE
  BY <1>1 DEF LosePod
<1>2. ASSUME Alias \in entries PROVE Alias \in entries'
  BY <1>1, <1>2, EntriesShrink
<1>3. CASE id \in entries
  BY <1>2, <1>3 DEF ParentsExist
<1>4. CASE id \notin entries
  <2>1. PICK r \in Runs : Reaches(r) /\ MakeEntry(r)
    BY <1>4, EntriesGrow, WorkloadsAssumption
  <2> QED
    BY <1>2, <2>1 DEF MakeEntry, AliasOK
<1> QED
  BY <1>3, <1>4

\* An entry that is there at a deploy which met no undeploy stays there.
LEMMA UncrossedKeeps ==
    ASSUME IInv, [Next]_vars, ~LosePod, NEW r \in Runs, pc[r] \in Running,
           script[r] = "deploy", r \notin crossed, NEW id \in entries
    PROVE  id \in entries'
<1>1. ASSUME id \notin entries' PROVE FALSE
  <2>1. PICK q \in Runs : DeleteEntry(q)
    BY <1>1, EntriesShrink DEF IInv
  <2>2. script[q] = "undeploy" /\ pc[q] \in Running
    BY <2>1 DEF DeleteEntry, IInv, Inv1, CursorOK, Running
  <2> QED
    BY <2>2 DEF IInv, Inv1, CrossedOK
<1> QED
  BY <1>1

\* A step of another run leaves a run where it is.
LEMMA OtherRuns ==
    ASSUME Inv1, NEW r \in Runs, NEW q \in Runs \ {r}, Run(q)
    PROVE  /\ pc'[r] = pc[r] /\ script'[r] = script[r] /\ target'[r] = target[r]
           /\ line'[r] = line[r] /\ count'[r] = count[r] /\ pod' = pod
           /\ (r \in failed) = (r \in failed')
           /\ r \in crossed => r \in crossed'
<1> USE DEF Inv1, TypeOK, Goto, Noted, server, history
<1>1. CASE \E s \in {"deploy", "undeploy"} : Begin(q, s)
  BY <1>1 DEF Begin
<1>2. CASE Interrupt(q) \/ Finish(q)
  BY <1>2 DEF Interrupt, Finish
<1>3. CASE CheckAlias(q)
  BY <1>3 DEF CheckAlias
<1>4. CASE MakeAlias(q)
  BY <1>4 DEF MakeAlias
<1>5. CASE CheckEntry(q)
  BY <1>5 DEF CheckEntry
<1>6. CASE MakeEntry(q)
  BY <1>6 DEF MakeEntry
<1>7. CASE FindEntry(q)
  BY <1>7 DEF FindEntry
<1>8. CASE DeleteEntry(q)
  BY <1>8 DEF DeleteEntry
<1> QED
  BY <1>1, <1>2, <1>3, <1>4, <1>5, <1>6, <1>7, <1>8 DEF Run

\* CountIsHonest, of one run.
HonestOf(r) ==
    script[r] = "deploy" /\ pc[r] \in Running /\ Reaches(r) /\ r \notin crossed
    /\ count[r] = line[r] - 1
        => \A i \in 1..line[r] - 1 : Workloads[i] \in entries

LEMMA HonestForm == CountIsHonest <=> \A r \in Runs : HonestOf(r)
  BY DEF CountIsHonest, HonestOf, Present

LEMMA HonestStep == IInv /\ [Next]_vars => \A r \in Runs : HonestOf(r)'
<1> SUFFICES ASSUME IInv, [Next]_vars, NEW r \in Runs,
                    script'[r] = "deploy", pc'[r] \in Running, Reaches(r)', r \notin crossed',
                    count'[r] = line'[r] - 1,
                    NEW i \in 1..line'[r] - 1
             PROVE  Workloads[i] \in entries'
  BY DEF HonestOf
<1> USE DEF IInv, Inv1
<1>1. ~LosePod /\ ~NewPod
  BY WorkloadsAssumption DEF LosePod, NewPod, Reaches, PodsOK, TypeOK
<1>2. ASSUME script[r] = "deploy", pc[r] \in Running, Reaches(r), r \notin crossed,
             count[r] = line[r] - 1, i \in 1..line[r] - 1
      PROVE  Workloads[i] \in entries'
  <2>1. Workloads[i] \in entries
    BY <1>2, HonestForm DEF HonestOf
  <2> QED
    BY <1>1, <1>2, <2>1, UncrossedKeeps
<1>3. ASSUME NEW q \in Runs \ {r}, Run(q) PROVE Workloads[i] \in entries'
  <2>1. Reaches(r)
    BY <1>3, OtherRuns DEF Reaches
  <2> QED
    BY <1>2, <1>3, <2>1, OtherRuns
<1>4. CASE Run(r)
  <2>1. ~(\E s \in {"deploy", "undeploy"} : Begin(r, s))
    BY DEF Begin, TypeOK
  <2>2. ~Interrupt(r) /\ ~Finish(r)
    BY DEF Interrupt, Finish, Goto, TypeOK, Running
  <2>3. CASE CheckAlias(r)
    BY <1>2, <2>3 DEF CheckAlias, Goto, TypeOK, Reaches, server, Running
  <2>4. CASE MakeAlias(r)
    BY <1>2, <2>4 DEF MakeAlias, Goto, TypeOK, Reaches, Running
  <2>5. CASE CheckEntry(r)
    <3>1. script[r] = "deploy" /\ pc[r] \in Running /\ Reaches(r) /\ r \notin crossed
      BY <2>5 DEF CheckEntry, Reaches, server, Running
    <3>2. line[r] \in Nat /\ count[r] \in Nat
      BY DEF TypeOK
    <3>3. CASE count' = count /\ line' = line
      BY <1>2, <3>1, <3>3
    <3>4. CASE /\ Workloads[line[r]] \in entries /\ entries' = entries
               /\ count'[r] = count[r] + 1 /\ line'[r] = line[r] + 1
      BY <1>2, <3>1, <3>2, <3>4
    <3> QED
      BY <2>5, <3>3, <3>4 DEF CheckEntry, Shows, NextLine, TypeOK, server
  <2>6. CASE MakeEntry(r)
    <3>1. script[r] = "deploy" /\ pc[r] \in Running /\ Reaches(r) /\ r \notin crossed
      BY <2>6 DEF MakeEntry, Reaches, Running
    <3>2. line[r] \in Nat /\ count[r] \in Nat /\ count[r] < line[r]
      BY DEF TypeOK
    <3>3. PICK ok, made \in BOOLEAN : /\ ok => made
                                     /\ Create(r, Workloads[line[r]], made)
                                     /\ count' = [count EXCEPT ![r] = Counted(r, ok)]
      BY <2>6 DEF MakeEntry
    <3>4. line'[r] = line[r] + 1 /\ count'[r] = Counted(r, ok)
      BY <2>6, <3>3 DEF MakeEntry, TypeOK
    <3>5. Created(r, Workloads[line[r]], ok) /\ count[r] = line[r] - 1
      BY <3>2, <3>4 DEF Counted
    <3>6. Workloads[line[r]] \in entries'
      BY <3>3, <3>5 DEF Created, Create
    <3> QED
      BY <1>2, <3>1, <3>2, <3>4, <3>5, <3>6
  <2>7. ~FindEntry(r) /\ ~DeleteEntry(r)
    BY DEF FindEntry, DeleteEntry, CursorOK
  <2> QED
    BY <1>4, <2>1, <2>2, <2>3, <2>4, <2>5, <2>6, <2>7 DEF Run
<1>5. CASE UNCHANGED vars
  BY <1>2, <1>5 DEF vars, Reaches
<1> QED
  BY <1>1, <1>3, <1>4, <1>5 DEF Next

\* UndeployClears, of one run.
ClearsOf(r) ==
    script[r] = "undeploy" /\ pc[r] \in Running /\ r \notin failed /\ r \notin crossed
        => \A i \in 1..line[r] - 1 : Workloads[i] \notin entries

LEMMA ClearsForm == UndeployClears <=> \A r \in Runs : ClearsOf(r)
  BY DEF UndeployClears, ClearsOf, Present

\* What is not there at an undeploy which met no deploy does not come.
LEMMA UncrossedClear ==
    ASSUME IInv, [Next]_vars, NEW r \in Runs, pc[r] \in Running,
           script[r] = "undeploy", r \notin crossed, NEW id, id \notin entries
    PROVE  id \notin entries'
<1>1. ASSUME id \in entries' PROVE FALSE
  <2>1. PICK q \in Runs : MakeAlias(q) \/ MakeEntry(q)
    BY <1>1, EntriesGrow DEF IInv
  <2>2. script[q] = "deploy" /\ pc[q] \in Running
    BY <2>1 DEF MakeAlias, MakeEntry, IInv, Inv1, CursorOK, Running
  <2> QED
    BY <2>2 DEF IInv, Inv1, CrossedOK
<1> QED
  BY <1>1

LEMMA ClearsStep == IInv /\ [Next]_vars => \A r \in Runs : ClearsOf(r)'
<1> SUFFICES ASSUME IInv, [Next]_vars, NEW r \in Runs,
                    script'[r] = "undeploy", pc'[r] \in Running,
                    r \notin failed', r \notin crossed',
                    NEW i \in 1..line'[r] - 1
             PROVE  Workloads[i] \notin entries'
  BY DEF ClearsOf
<1> USE DEF IInv, Inv1
<1>1. ASSUME script[r] = "undeploy", pc[r] \in Running, r \notin failed, r \notin crossed,
             i \in 1..line[r] - 1
      PROVE  Workloads[i] \notin entries'
  BY <1>1, ClearsForm, UncrossedClear DEF ClearsOf
<1>2. ASSUME NEW q \in Runs \ {r}, Run(q) PROVE Workloads[i] \notin entries'
  BY <1>1, <1>2, OtherRuns
<1>3. CASE Run(r)
  <2>1. ~(\E s \in {"deploy", "undeploy"} : Begin(r, s) /\ s = "deploy")
    BY DEF Begin, TypeOK
  <2>2. ~Begin(r, "undeploy")
    BY DEF Begin, TypeOK
  <2>3. ~Interrupt(r) /\ ~Finish(r)
    BY DEF Interrupt, Finish, Goto, TypeOK, Running
  <2>4. ~CheckAlias(r) /\ ~MakeAlias(r)
    BY DEF CheckAlias, MakeAlias, CursorOK
  <2>5. ~CheckEntry(r) /\ ~MakeEntry(r)
    BY DEF CheckEntry, MakeEntry, CursorOK
  <2>6. CASE FindEntry(r)
    <3>1. script[r] = "undeploy" /\ pc[r] \in Running /\ r \notin crossed
      BY <2>6 DEF FindEntry, Running
    <3>2. line[r] \in Nat /\ r \notin failed
      BY <2>6 DEF FindEntry, Noted, TypeOK
    <3>3. \/ line' = line
          \/ line'[r] = line[r] + 1 /\ Workloads[line[r]] \notin entries
      BY <2>6 DEF FindEntry, Noted, Shows, AfterMissing, TypeOK
    <3> QED
      BY <1>1, <3>1, <3>2, <3>3, UncrossedClear
  <2>7. CASE DeleteEntry(r)
    <3>1. script[r] = "undeploy" /\ pc[r] \in Running /\ r \notin crossed
      BY <2>7 DEF DeleteEntry, Running
    <3>2. line[r] \in Nat /\ r \notin failed /\ line'[r] = line[r] + 1
      BY <2>7 DEF DeleteEntry, Noted, TypeOK
    <3>3. Workloads[line[r]] \notin entries'
      BY <2>7 DEF DeleteEntry, Noted
    <3> QED
      BY <1>1, <3>1, <3>2, <3>3
  <2> QED
    BY <1>3, <2>1, <2>2, <2>3, <2>4, <2>5, <2>6, <2>7 DEF Run
<1>4. CASE LosePod \/ NewPod
  BY <1>1, <1>4 DEF LosePod, NewPod, history
<1>5. CASE UNCHANGED vars
  BY <1>1, <1>5 DEF vars
<1> QED
  BY <1>2, <1>3, <1>4, <1>5 DEF Next

LEMMA Invariant == Spec => []IInv
<1>1. IInv /\ [Next]_vars => IInv'
  <2> SUFFICES ASSUME IInv, [Next]_vars PROVE IInv'
    OBVIOUS
  <2>1. Inv1'
    BY TypeStep, CursorStep DEF IInv, Inv1
  <2>2. CountIsHonest'
    BY HonestStep DEF CountIsHonest, HonestOf, Present
  <2>3. UndeployClears'
    BY ClearsStep DEF UndeployClears, ClearsOf, Present
  <2> QED
    BY <2>1, <2>2, <2>3, AliasStep, ParentsStep DEF IInv
<1> QED
  BY InitIInv, <1>1, PTL DEF Spec

-----------------------------------------------------------------------------
(* The theorems                                                             *)

\* Entries, pods and cursors stay within their types; a run never counts more
\* entries than the lines it has passed.
THEOREM TypeCorrect == Spec => []TypeOK
<1>1. IInv => TypeOK
  BY DEF IInv, Inv1
<1> QED
  BY Invariant, <1>1, PTL

\* No workload entry without the node alias, for any runs, workloads, failures and
\* pods (registration/deploy.sh 91-94, 111; undeploy.sh 63-65).
THEOREM Parents == Spec => []ParentsExist
<1>1. IInv => ParentsExist
  BY DEF IInv
<1> QED
  BY Invariant, <1>1, PTL

\* A full count of an undisturbed deploy is of entries that are there
\* (registration/deploy.sh 127-147).
THEOREM Counts == Spec => []CountIsHonest
<1>1. IInv => CountIsHonest
  BY DEF IInv
<1> QED
  BY Invariant, <1>1, PTL

\* An undisturbed undeploy leaves no entry behind it (registration/undeploy.sh 32-61).
THEOREM Clears == Spec => []UndeployClears
<1>1. IInv => UndeployClears
  BY DEF IInv
<1> QED
  BY Invariant, <1>1, PTL
=============================================================================
