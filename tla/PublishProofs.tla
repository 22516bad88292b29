---------------------------- MODULE PublishProofs ----------------------------
(******************************************************************************)
(* What Publish promises: the theorems about it hold of every module that     *)
(* implements it, and FetchX509Proofs takes them over.                        *)
(******************************************************************************)
EXTENDS Publish, TLAPS

\* A busy invocation publishes an interval of indices in order; all it has left behind is
\* its own unless it met a rival, and whoever is busy at the same time is a rival.
InOrder ==
    /\ DOMAIN whole = Indices
    /\ place \in [Procs -> {"idle", "busy", "ok", "failed"}]
    /\ DOMAIN todo = Procs
    /\ \A p \in Procs : place[p] = "busy" =>
          \E a, n \in Nat : /\ 1 <= a /\ a <= n /\ n <= MaxSvids /\ todo[p] = a..n
                            /\ p \notin rival => \A i \in 1..(a - 1) : whole[i] = {p}
    /\ \A p, q \in Procs :
          (p # q /\ place[p] = "busy" /\ place[q] = "busy") => p \in rival /\ q \in rival

LEMMA CurrentIsFirst ==
    ASSUME NEW p \in Procs, NEW a \in Nat, NEW n \in Nat, a <= n, todo[p] = a..n
    PROVE  Current(p) = a
<1>1. a \in todo[p] /\ \A j \in todo[p] : a <= j
  OBVIOUS
<1>2. Current(p) \in todo[p] /\ \A j \in todo[p] : Current(p) <= j
  BY <1>1 DEF Current
<1> QED
  BY <1>1, <1>2

\* A step of a busy invocation on its current set leaves the others as they were.
LEMMA OthersInOrder ==
    ASSUME InOrder, NEW p \in Procs, place[p] = "busy", Touch(p), rival' = rival,
           NEW q \in Procs \ {p}, place[q] = "busy", todo'[q] = todo[q]
    PROVE  \E a, n \in Nat : /\ 1 <= a /\ a <= n /\ n <= MaxSvids /\ todo'[q] = a..n
                             /\ q \notin rival' => \A i \in 1..(a - 1) : whole'[i] = {q}
<1>1. q \in rival'
  BY DEF InOrder
<1>2. PICK a \in Nat, n \in Nat : 1 <= a /\ a <= n /\ n <= MaxSvids /\ todo[q] = a..n
  BY DEF InOrder
<1> QED
  BY <1>1, <1>2

\* Touch changes the current set only.
LEMMA TouchOne ==
    ASSUME InOrder, NEW p \in Procs, Touch(p)
    PROVE  /\ DOMAIN whole' = Indices
           /\ \A i \in Indices : i # Current(p) => whole'[i] = whole[i]
  BY DEF InOrder, Touch

LEMMA InOrderStep == MaxSvids \in Nat /\ InOrder /\ [Next]_vars => InOrder'
<1> SUFFICES ASSUME MaxSvids \in Nat, InOrder, [Next]_vars PROVE InOrder'
  OBVIOUS
<1>1. ASSUME NEW p \in Procs, Decline(p) PROVE InOrder'
  BY <1>1 DEF Decline, InOrder
<1>2. ASSUME NEW p \in Procs, Begin(p) PROVE InOrder'
  <2> DEFINE others == {q \in Procs \ {p} : place[q] = "busy"}
  <2>1. /\ place' = [place EXCEPT ![p] = "busy"] /\ whole' = whole
        /\ rival \subseteq rival' /\ others \subseteq rival' /\ (others # {} => p \in rival')
    BY <1>2 DEF Begin
  <2>2. PICK n \in Indices : todo' = [todo EXCEPT ![p] = 1..n]
    BY <1>2 DEF Begin
  <2>3. ASSUME NEW q \in Procs, place'[q] = "busy"
        PROVE  \E a, m \in Nat : /\ 1 <= a /\ a <= m /\ m <= MaxSvids /\ todo'[q] = a..m
                                 /\ q \notin rival' => \A i \in 1..(a - 1) : whole'[i] = {q}
    <3>1. CASE q = p
      <4>1. todo'[q] = 1..n /\ n \in Nat /\ 1 <= n /\ n <= MaxSvids
        BY <2>2, <3>1 DEF InOrder, Indices
      <4>2. \A i \in 1..(1 - 1) : FALSE
        OBVIOUS
      <4> QED
        BY <4>1, <4>2
    <3>2. CASE q # p
      <4>1. place[q] = "busy" /\ todo'[q] = todo[q] /\ q \in rival'
        BY <2>1, <2>2, <2>3, <3>2 DEF InOrder
      <4>2. PICK a \in Nat, m \in Nat : 1 <= a /\ a <= m /\ m <= MaxSvids /\ todo[q] = a..m
        BY <4>1 DEF InOrder
      <4> QED
        BY <4>1, <4>2
    <3> QED
      BY <3>1, <3>2
  <2>4. \A q, r \in Procs :
            (q # r /\ place'[q] = "busy" /\ place'[r] = "busy") => q \in rival' /\ r \in rival'
    <3> SUFFICES ASSUME NEW q \in Procs, NEW r \in Procs, q # r,
                        place'[q] = "busy", place'[r] = "busy"
                 PROVE  q \in rival' /\ r \in rival'
      OBVIOUS
    <3>1. \A s \in Procs \ {p} : place'[s] = place[s]
      BY <2>1 DEF InOrder
    <3>2. CASE q = p
      BY <2>1, <3>1, <3>2
    <3>3. CASE r = p
      BY <2>1, <3>1, <3>3
    <3>4. CASE q # p /\ r # p
      BY <2>1, <3>1, <3>4 DEF InOrder
    <3> QED
      BY <3>2, <3>3, <3>4
  <2> QED
    BY <2>1, <2>2, <2>3, <2>4 DEF InOrder
<1>3. ASSUME NEW p \in Procs, Spoil(p) PROVE InOrder'
  <2>1. /\ place[p] = "busy" /\ place' = place /\ todo' = todo /\ rival' = rival /\ Touch(p)
    BY <1>3 DEF Spoil
  <2>2. PICK a \in Nat, n \in Nat :
            /\ 1 <= a /\ a <= n /\ n <= MaxSvids /\ todo[p] = a..n
            /\ p \notin rival => \A i \in 1..(a - 1) : whole[i] = {p}
    BY <2>1 DEF InOrder
  <2>3. Current(p) = a
    BY <2>2, CurrentIsFirst
  <2>4. \A i \in 1..(a - 1) : whole'[i] = whole[i]
    BY <2>1, <2>2, <2>3, TouchOne DEF Indices
  <2>5. ASSUME NEW q \in Procs, place'[q] = "busy"
        PROVE  \E b, m \in Nat : /\ 1 <= b /\ b <= m /\ m <= MaxSvids /\ todo'[q] = b..m
                                 /\ q \notin rival' => \A i \in 1..(b - 1) : whole'[i] = {q}
    <3>1. CASE q = p
      BY <2>1, <2>2, <2>4, <3>1
    <3>2. CASE q # p
      BY <2>1, <2>5, <3>2, OthersInOrder
    <3> QED
      BY <3>1, <3>2
  <2> QED
    BY <2>1, <2>5, TouchOne DEF InOrder
<1>4. ASSUME NEW p \in Procs, Complete(p) PROVE InOrder'
  <2>1. /\ place[p] = "busy" /\ rival' = rival /\ Touch(p)
        /\ todo' = [todo EXCEPT ![p] = todo[p] \ {Current(p)}]
        /\ place' = [place EXCEPT ![p] = IF todo'[p] = {} THEN "ok" ELSE "busy"]
        /\ p \notin rival => whole'[Current(p)] = {p}
    BY <1>4 DEF Complete
  <2>2. PICK a \in Nat, n \in Nat :
            /\ 1 <= a /\ a <= n /\ n <= MaxSvids /\ todo[p] = a..n
            /\ p \notin rival => \A i \in 1..(a - 1) : whole[i] = {p}
    BY <2>1 DEF InOrder
  <2>3. Current(p) = a
    BY <2>2, CurrentIsFirst
  <2>4. p \notin rival => \A i \in 1..a : whole'[i] = {p}
    <3>1. \A i \in 1..(a - 1) : whole'[i] = whole[i]
      BY <2>1, <2>2, <2>3, TouchOne DEF Indices
    <3>2. \A i \in 1..a : i = a \/ i \in 1..(a - 1)
      BY <2>2
    <3> QED
      BY <2>1, <2>2, <2>3, <3>1, <3>2
  <2>5. todo'[p] = (a + 1)..n
    <3>1. todo'[p] = (a..n) \ {a}
      BY <2>1, <2>2, <2>3 DEF InOrder
    <3> QED
      BY <2>2, <3>1
  <2>6. ASSUME NEW q \in Procs, place'[q] = "busy"
        PROVE  \E b, m \in Nat : /\ 1 <= b /\ b <= m /\ m <= MaxSvids /\ todo'[q] = b..m
                                 /\ q \notin rival' => \A i \in 1..(b - 1) : whole'[i] = {q}
    <3>1. CASE q = p
      <4>1. todo'[p] # {}
        BY <2>1, <2>6, <3>1 DEF InOrder
      <4>2. a + 1 <= n /\ a + 1 \in Nat /\ (a + 1) - 1 = a
        BY <2>2, <2>5, <4>1
      <4> QED
        BY <2>1, <2>2, <2>4, <2>5, <3>1, <4>2
    <3>2. CASE q # p
      <4>1. place[q] = "busy" /\ todo'[q] = todo[q]
        BY <2>1, <2>6, <3>2 DEF InOrder
      <4> QED
        BY <2>1, <3>2, <4>1, OthersInOrder
    <3> QED
      BY <3>1, <3>2
  <2>7. /\ place' \in [Procs -> {"idle", "busy", "ok", "failed"}] /\ DOMAIN todo' = Procs
        /\ \A q \in Procs : place'[q] = "busy" => place[q] = "busy"
    BY <2>1 DEF InOrder
  <2> QED
    BY <2>1, <2>6, <2>7, TouchOne DEF InOrder
<1>5. ASSUME NEW p \in Procs, Stop(p) PROVE InOrder'
  <2>1. /\ place[p] = "busy" /\ todo' = todo /\ rival' = rival /\ Touch(p)
        /\ place' = [place EXCEPT ![p] = "failed"]
    BY <1>5 DEF Stop
  <2>2. ASSUME NEW q \in Procs, place'[q] = "busy"
        PROVE  \E b, m \in Nat : /\ 1 <= b /\ b <= m /\ m <= MaxSvids /\ todo'[q] = b..m
                                 /\ q \notin rival' => \A i \in 1..(b - 1) : whole'[i] = {q}
    <3>1. q # p /\ place[q] = "busy" /\ todo'[q] = todo[q]
      BY <2>1, <2>2 DEF InOrder
    <3> QED
      BY <2>1, <3>1, OthersInOrder
  <2>3. /\ place' \in [Procs -> {"idle", "busy", "ok", "failed"}]
        /\ \A q \in Procs : place'[q] = "busy" => place[q] = "busy"
    BY <2>1 DEF InOrder
  <2> QED
    BY <2>1, <2>2, <2>3, TouchOne DEF InOrder
<1>6. CASE UNCHANGED vars
  BY <1>6 DEF vars, InOrder
<1> QED
  BY <1>1, <1>2, <1>3, <1>4, <1>5, <1>6 DEF Next

LEMMA Ordered == MaxSvids \in Nat => (Spec => []InOrder)
<1> SUFFICES ASSUME MaxSvids \in Nat PROVE Spec => []InOrder
  OBVIOUS
<1>1. Init => InOrder
  BY DEF Init, InOrder
<1>2. InOrder /\ [Next]_vars => InOrder'
  BY InOrderStep
<1> QED
  BY <1>1, <1>2, PTL DEF Spec

\* Whoever publishes alone and ends with code 0 has published everything up to its last
\* index: the sets it finished first are still its own when it finishes the last one.
THEOREM AlonePublishes == MaxSvids \in Nat => (Spec => AlonePublishesAll)
<1> SUFFICES ASSUME MaxSvids \in Nat PROVE Spec => AlonePublishesAll
  OBVIOUS
<1>1. InOrder /\ [Next]_vars => [\A p \in Procs : OwnsAll(p)]_vars
  <2> SUFFICES ASSUME InOrder, Next, NEW p \in Procs,
                      place[p] = "busy", place'[p] = "ok", p \notin rival
               PROVE  \A i \in 1..Current(p) : whole'[i] = {p}
    BY DEF OwnsAll
  <2>1. Complete(p)
    BY DEF Next, Decline, Begin, Spoil, Complete, Stop, InOrder
  <2>2. PICK a \in Nat, n \in Nat :
            /\ 1 <= a /\ a <= n /\ n <= MaxSvids /\ todo[p] = a..n
            /\ \A i \in 1..(a - 1) : whole[i] = {p}
    BY DEF InOrder
  <2>3. Current(p) = a
    BY <2>2, CurrentIsFirst
  <2>4. whole'[a] = {p}
    BY <2>1, <2>3 DEF Complete
  <2>5. \A i \in 1..(a - 1) : whole'[i] = {p}
    BY <2>1, <2>2, <2>3, TouchOne DEF Complete, Indices
  <2>6. \A i \in 1..a : i = a \/ i \in 1..(a - 1)
    BY <2>2
  <2> QED
    BY <2>3, <2>4, <2>5, <2>6
<1>2. Spec => []InOrder
  BY Ordered
<1> QED
  BY <1>1, <1>2, PTL DEF Spec, AlonePublishesAll

\* What was there before any invocation never comes back once it was touched.
THEOREM PriorGoes ==
    MaxSvids \in Nat /\ Before \notin Procs => (Spec => PriorIsGone)
<1> SUFFICES ASSUME MaxSvids \in Nat, Before \notin Procs PROVE Spec => PriorIsGone
  OBVIOUS
<1>1. InOrder /\ [Next]_vars => [\A i \in Indices : StaysGone(i)]_vars
  <2> SUFFICES ASSUME InOrder, Next, NEW i \in Indices, Before \notin whole[i]
               PROVE  Before \notin whole'[i]
    BY DEF StaysGone
  <2>1. ASSUME NEW p \in Procs, Touch(p) PROVE Before \notin whole'[i]
    <3>1. PICK w \in {whole[Current(p)], {}}
                       \cup {{q} : q \in {r \in Procs : place[r] # "idle"}} :
              whole' = [whole EXCEPT ![Current(p)] = w]
      BY <2>1 DEF Touch
    <3>2. CASE i = Current(p)
      BY <3>1, <3>2 DEF InOrder
    <3>3. CASE i # Current(p)
      BY <3>1, <3>3 DEF InOrder
    <3> QED
      BY <3>2, <3>3
  <2>2. ASSUME NEW p \in Procs, Decline(p) \/ Begin(p) PROVE Before \notin whole'[i]
    BY <2>2 DEF Decline, Begin
  <2> QED
    BY <2>1, <2>2 DEF Next, Spoil, Complete, Stop
<1>2. Spec => []InOrder
  BY Ordered
<1> QED
  BY <1>1, <1>2, PTL DEF Spec, PriorIsGone
=============================================================================
