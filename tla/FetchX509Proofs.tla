--------------------------- MODULE FetchX509Proofs ---------------------------
(******************************************************************************)
(* The theorems about FetchX509, for any set of invocations, any responses    *)
(* and any bound on the SVIDs.                                                *)
(******************************************************************************)
EXTENDS FetchX509, SequenceTheorems, TLAPS

\* The loop of write_svids stays within the response, and a file is opened only
\* once its blob is encoded.
CursorOK ==
    \A p \in Procs :
        /\ pc[p] = "fetch" => resp[p] = <<>>
        /\ pc[p] \in {"fetch", "print", "check", "mkdir"} => idx[p] = 0 /\ kind[p] = "svid"
        /\ Writing(p) => idx[p] \in 1..Len(resp[p])
        /\ pc[p] = "write" => Parses(resp[p][idx[p]], kind[p])

\* The files of the current SVID that are already written were encoded.
EncodedOK ==
    \A p \in Procs :
        Writing(p) => \A k \in Preceding[kind[p]] : Parses(resp[p][idx[p]], k)

\* A response that was printed parses, from print_svids on.
PrintedOK ==
    \A p \in Procs :
        ~args[p].silent /\ (pc[p] \in {"check", "mkdir", "open", "write"} \/ idx[p] > 0) =>
            \A i \in 1..Len(resp[p]), k \in Kinds : Parses(resp[p][i], k)

\* What a writer that met no other has achieved so far.
SoloOf(p) ==
    Writing(p) /\ p \notin rival =>
        /\ \A q \in Procs \ {p} : ~Writing(q)
        /\ \A i \in 1..Len(resp[p]), k \in Kinds :
              Written(p, i, k) => /\ mode[<<i, k>>] # "none"
                                  /\ text[<<i, k>>] = Body(p, i, k)
        /\ pc[p] = "write" => /\ mode[Target(p)] # "none"
                              /\ text[Target(p)] = <<>>

SoloOK == \A p \in Procs : SoloOf(p)

-----------------------------------------------------------------------------
(* The operators                                                            *)

\* write_all over a file that open has just truncated leaves what was written.
LEMMA OverlayEmpty ==
    ASSUME NEW S, NEW new \in Seq(S)
    PROVE  Overlay(new, <<>>) = new
<1>1. SubSeq(<<>>, Len(new) + 1, Len(<<>>)) = <<>>
  OBVIOUS
<1> QED
  BY <1>1, ConcatEmptySeq DEF Overlay

\* Blocks come from what is written and from what was there, nowhere else.
LEMMA OverlayType ==
    ASSUME NEW S, NEW new \in Seq(S), NEW old \in Seq(S)
    PROVE  Overlay(new, old) \in Seq(S)
<1>1. SubSeq(old, Len(new) + 1, Len(old)) \in Seq(S)
  BY SubSeqProperties
<1> QED
  BY <1>1, ConcatProperties DEF Overlay

\* The SVIDs of a response are SVIDs.
LEMMA RespType ==
    ASSUME TypeOK, NEW p \in Procs
    PROVE  /\ resp[p] \in Seq(Svids)
           /\ Len(resp[p]) \in 0..MaxSvids
           /\ \A i \in 1..Len(resp[p]) : resp[p][i] \in Svids
<1>1. resp[p] \in Responses \cup {<<>>}
  BY DEF TypeOK
<1>2. CASE resp[p] = <<>>
  BY <1>2, ResponsesAssumption
<1>3. CASE resp[p] \in Responses
  <2>1. resp[p] \in Seq(Svids) /\ Len(resp[p]) <= MaxSvids /\ MaxSvids \in Nat
    BY <1>3, ResponsesAssumption
  <2> QED
    BY <2>1
<1> QED
  BY <1>1, <1>2, <1>3

\* What is written of a blob that parses: blocks of this invocation.
LEMMA BodyType ==
    ASSUME TypeOK, NEW p \in Procs, NEW i \in 1..Len(resp[p]), NEW k \in Kinds,
           Parses(resp[p][i], k)
    PROVE  /\ resp[p][i][k] \in Nat
           /\ Body(p, i, k) \in Seq(Owners)
           /\ Len(Body(p, i, k)) = resp[p][i][k]
<1>1. resp[p][i][k] \in Nat
  BY RespType DEF Svids, Parses
<1>2. Body(p, i, k) \in [1..resp[p][i][k] -> Owners]
  BY DEF Body, Owners
<1> QED
  BY <1>1, <1>2

-----------------------------------------------------------------------------
(* Types and the cursor                                                     *)

LEMMA InitType == Init => TypeOK /\ CursorOK
<1> SUFFICES ASSUME Init PROVE TypeOK /\ CursorOK
  OBVIOUS
<1> USE ResponsesAssumption DEF Init
<1>1. text \in [Names -> Seq(Owners)]
  <2>1. PriorText \in Seq(Owners) /\ <<>> \in Seq(Owners)
    BY DEF PriorText, Owners
  <2> QED
    BY <2>1
<1>2. mode \in [Names -> {"none", "644", "600"}]
  OBVIOUS
<1>3. path \in {"absent", "dir", "file"}
  OBVIOUS
<1>4. idx \in [Procs -> 0..(MaxSvids + 1)]
  OBVIOUS
<1> QED
  BY <1>1, <1>2, <1>3, <1>4 DEF TypeOK, CursorOK, States, Ended, Kinds, Writing

\* One step of one invocation keeps the types and the cursor.
LEMMA NextType ==
    ASSUME TypeOK, CursorOK, [Next]_vars
    PROVE  TypeOK' /\ CursorOK'
<1> USE DEF TypeOK, CursorOK, Goto, States, Ended, Writing, Kinds
<1>1. ASSUME NEW p \in Procs, FetchFails(p) PROVE TypeOK' /\ CursorOK'
  BY <1>1 DEF FetchFails
<1>2. ASSUME NEW p \in Procs, FetchReturns(p) PROVE TypeOK' /\ CursorOK'
  BY <1>2 DEF FetchReturns
<1>3. ASSUME NEW p \in Procs, PrintSvids(p) PROVE TypeOK' /\ CursorOK'
  BY <1>3 DEF PrintSvids
<1>4. ASSUME NEW p \in Procs, CheckDir(p) PROVE TypeOK' /\ CursorOK'
  BY <1>4 DEF CheckDir
<1>5. ASSUME NEW p \in Procs, CreateDir(p) PROVE TypeOK' /\ CursorOK'
  <2>1. resp[p] # <<>> => 1 \in 1..Len(resp[p])
    BY RespType
  <2> QED
    BY <1>5, <2>1, ResponsesAssumption DEF CreateDir
<1>6. ASSUME NEW p \in Procs, CreateDirFails(p) PROVE TypeOK' /\ CursorOK'
  BY <1>6 DEF CreateDirFails
<1>7. ASSUME NEW p \in Procs, EncodeFails(p) PROVE TypeOK' /\ CursorOK'
  BY <1>7 DEF EncodeFails
<1>8. ASSUME NEW p \in Procs, OpenFile(p) PROVE TypeOK' /\ CursorOK'
  <2>1. text' \in [Names -> Seq(Owners)]
    <3>1. <<>> \in Seq(Owners)
      OBVIOUS
    <3> QED
      BY <1>8, <3>1 DEF OpenFile, Truncated
  <2>2. mode' \in [Names -> {"none", "644", "600"}]
    BY <1>8 DEF OpenFile, ModeOf
  <2> QED
    BY <1>8, <2>1, <2>2 DEF OpenFile
<1>9. ASSUME NEW p \in Procs, OpenFails(p) PROVE TypeOK' /\ CursorOK'
  BY <1>9 DEF OpenFails
<1>10. ASSUME NEW p \in Procs, WriteFile(p) PROVE TypeOK' /\ CursorOK'
  <2> DEFINE body == Body(p, idx[p], kind[p])
  <2>1. idx[p] \in 1..Len(resp[p]) /\ Len(resp[p]) \in 0..MaxSvids
    BY <1>10, RespType DEF WriteFile
  <2>2. Target(p) \in Names
    BY <2>1, ResponsesAssumption DEF Target, Names
  <2>3. body \in Seq(Owners)
    <3>1. kind[p] \in Kinds /\ Parses(resp[p][idx[p]], kind[p])
      BY <1>10 DEF WriteFile
    <3> QED
      BY <2>1, <3>1, BodyType
  <2>4. text' \in [Names -> Seq(Owners)]
    <3>1. Overlay(body, text[Target(p)]) \in Seq(Owners)
      BY <2>2, <2>3, OverlayType
    <3> QED
      BY <1>10, <3>1 DEF WriteFile
  <2>5. CASE kind[p] = "bundle"
    <3>1. /\ idx' = [idx EXCEPT ![p] = idx[p] + 1]
          /\ kind' = [kind EXCEPT ![p] = "svid"]
          /\ pc' = [pc EXCEPT ![p] = IF idx[p] = Len(resp[p]) THEN "ok" ELSE "open"]
      BY <1>10, <2>5 DEF WriteFile
    <3>2. idx[p] + 1 \in 0..(MaxSvids + 1)
      BY <2>1, ResponsesAssumption
    <3>3. idx[p] # Len(resp[p]) => idx[p] + 1 \in 1..Len(resp[p])
      BY <2>1, ResponsesAssumption
    <3>4. idx' \in [Procs -> 0..(MaxSvids + 1)]
      BY <3>1, <3>2
    <3> QED
      BY <1>10, <2>4, <3>1, <3>3, <3>4 DEF WriteFile
  <2>6. CASE kind[p] # "bundle"
    <3>1. /\ kind' = [kind EXCEPT ![p] = IF kind[p] = "svid" THEN "key" ELSE "bundle"]
          /\ pc' = [pc EXCEPT ![p] = "open"]
          /\ UNCHANGED <<path, mode, args, resp, idx, prior, wide, rival>>
      BY <1>10, <2>6 DEF WriteFile
    <3>2. pc[p] = "write"
      BY <1>10 DEF WriteFile
    <3>3. TypeOK'
      BY <2>4, <3>1
    <3>4. CursorOK'
      BY <2>1, <3>1, <3>2
    <3> QED
      BY <3>3, <3>4
  <2> QED
    BY <2>5, <2>6
<1>11. ASSUME NEW p \in Procs, WriteFails(p) PROVE TypeOK' /\ CursorOK'
  <2> DEFINE body == Body(p, idx[p], kind[p])
  <2>1. idx[p] \in 1..Len(resp[p]) /\ Len(resp[p]) \in 0..MaxSvids
    BY <1>11, RespType DEF WriteFails
  <2>2. Target(p) \in Names
    BY <2>1, ResponsesAssumption DEF Target, Names
  <2>3. body \in Seq(Owners)
    BY <1>11, <2>1, BodyType DEF WriteFails
  <2>4. PICK n \in 0..Len(body) :
           text' = [text EXCEPT ![Target(p)] = Overlay(SubSeq(body, 1, n), @)]
    BY <1>11 DEF WriteFails
  <2>5. SubSeq(body, 1, n) \in Seq(Owners)
    BY <2>3, SubSeqProperties
  <2>6. Overlay(SubSeq(body, 1, n), text[Target(p)]) \in Seq(Owners)
    BY <2>2, <2>5, OverlayType
  <2>7. text' \in [Names -> Seq(Owners)]
    BY <2>4, <2>6
  <2> QED
    BY <1>11, <2>7 DEF WriteFails
<1>12. ASSUME NEW p \in Procs, Kill(p) PROVE TypeOK' /\ CursorOK'
  BY <1>12 DEF Kill
<1>13. CASE UNCHANGED vars
  BY <1>13 DEF vars
<1> QED
  BY <1>1, <1>2, <1>3, <1>4, <1>5, <1>6, <1>7, <1>8, <1>9, <1>10, <1>11, <1>12, <1>13
  DEF Next, Run

\* The variables keep their types, and write_svids never indexes past the response.
THEOREM TypeCorrect == Spec => [](TypeOK /\ CursorOK)
<1>1. TypeOK /\ CursorOK /\ [Next]_vars => (TypeOK /\ CursorOK)'
  BY NextType
<1> QED
  BY <1>1, InitType, PTL DEF Spec

-----------------------------------------------------------------------------
(* A printed response parses                                                *)

LEMMA PrintedStep ==
    ASSUME TypeOK, CursorOK, PrintedOK, [Next]_vars
    PROVE  PrintedOK'
<1> USE DEF TypeOK, CursorOK, PrintedOK, Goto, States, Ended, Kinds, Writing
<1>1. ASSUME NEW p \in Procs, FetchFails(p) PROVE PrintedOK'
  BY <1>1 DEF FetchFails
<1>2. ASSUME NEW p \in Procs, FetchReturns(p) PROVE PrintedOK'
  BY <1>2 DEF FetchReturns
<1>3. ASSUME NEW p \in Procs, PrintSvids(p) PROVE PrintedOK'
  <2>1. ASSUME NEW i \in 1..Len(resp[p]), Printable(resp[p][i]), NEW k \in Kinds
        PROVE  Parses(resp[p][i], k)
    <3>1. resp[p][i]["key"] = 1
      <4>1. resp[p][i] \in Svids
        BY RespType
      <4> QED
        BY ONLY <4>1 DEF Svids
    <3> QED
      BY <2>1, <3>1, NamesAssumption DEF Printable, Parses
  <2>2. /\ args' = args /\ resp' = resp /\ idx' = idx
        /\ \A q \in Procs \ {p} : pc'[q] = pc[q]
        /\ idx[p] = 0
        /\ pc'[p] \in {"check", "ok", "err"}
        /\ pc'[p] = "check" => \A i \in 1..Len(resp[p]) : Printable(resp[p][i])
    BY <1>3 DEF PrintSvids
  <2> QED
    BY <2>1, <2>2
<1>4. ASSUME NEW p \in Procs, CheckDir(p) PROVE PrintedOK'
  BY <1>4 DEF CheckDir
<1>5. ASSUME NEW p \in Procs, CreateDir(p) PROVE PrintedOK'
  BY <1>5 DEF CreateDir
<1>6. ASSUME NEW p \in Procs, CreateDirFails(p) PROVE PrintedOK'
  BY <1>6 DEF CreateDirFails
<1>7. ASSUME NEW p \in Procs, EncodeFails(p) PROVE PrintedOK'
  BY <1>7 DEF EncodeFails
<1>8. ASSUME NEW p \in Procs, OpenFile(p) PROVE PrintedOK'
  BY <1>8 DEF OpenFile
<1>9. ASSUME NEW p \in Procs, OpenFails(p) PROVE PrintedOK'
  BY <1>9 DEF OpenFails
<1>10. ASSUME NEW p \in Procs, WriteFile(p) PROVE PrintedOK'
  <2>1. /\ args' = args /\ resp' = resp /\ pc[p] = "write"
        /\ \A q \in Procs \ {p} : pc'[q] = pc[q] /\ idx'[q] = idx[q]
    BY <1>10 DEF WriteFile
  <2> SUFFICES ASSUME NEW q \in Procs, ~args'[q].silent,
                      pc'[q] \in {"check", "mkdir", "open", "write"} \/ idx'[q] > 0
               PROVE  \A i \in 1..Len(resp'[q]), k \in Kinds : Parses(resp'[q][i], k)
    BY DEF PrintedOK, Parses
  <2>2. ~args[q].silent /\ (pc[q] \in {"check", "mkdir", "open", "write"} \/ idx[q] > 0)
    BY <2>1
  <2>3. \A i \in 1..Len(resp[q]), k \in Kinds : Parses(resp[q][i], k)
    BY <2>2 DEF PrintedOK
  <2> QED
    BY <2>1, <2>3
<1>11. ASSUME NEW p \in Procs, WriteFails(p) PROVE PrintedOK'
  BY <1>11 DEF WriteFails
<1>12. ASSUME NEW p \in Procs, Kill(p) PROVE PrintedOK'
  BY <1>12 DEF Kill
<1>13. CASE UNCHANGED vars
  BY <1>13 DEF vars
<1> QED
  BY <1>1, <1>2, <1>3, <1>4, <1>5, <1>6, <1>7, <1>8, <1>9, <1>10, <1>11, <1>12, <1>13
  DEF Next, Run

\* An invocation that prints never reaches the disk with a blob it cannot encode.
THEOREM BadBlobs == Spec => []BadBlobStopsBeforeDisk
<1> DEFINE IInv == TypeOK /\ CursorOK /\ PrintedOK
<1>1. Init => IInv
  <2>1. Init => PrintedOK
    BY DEF Init, PrintedOK
  <2> QED
    BY <2>1, InitType
<1>2. IInv /\ [Next]_vars => IInv'
  BY NextType, PrintedStep
<1>3. IInv => BadBlobStopsBeforeDisk
  BY DEF PrintedOK, BadBlobStopsBeforeDisk
<1> QED
  BY <1>1, <1>2, <1>3, PTL DEF Spec

-----------------------------------------------------------------------------
(* The files of the indices no response covers, and the modes of the keys   *)

\* The file an invocation is at is one of the files of its response.
LEMMA TargetType ==
    ASSUME TypeOK, CursorOK, NEW p \in Procs, Writing(p)
    PROVE  /\ idx[p] \in 1..Len(resp[p])
           /\ idx[p] \in 1..MaxSvids
           /\ Target(p) \in Names
           /\ Target(p) = <<idx[p], kind[p]>>
<1>1. idx[p] \in 1..Len(resp[p]) /\ Len(resp[p]) \in 0..MaxSvids
  BY RespType DEF CursorOK
<1> QED
  BY <1>1, ResponsesAssumption DEF Target, Names, TypeOK

\* One step changes at most the file its invocation is at.
LEMMA OneFileAtATime ==
    ASSUME TypeOK, CursorOK, NEW p \in Procs, OpenFile(p) \/ WriteFile(p) \/ WriteFails(p)
    PROVE  /\ Writing(p)
           /\ \A f \in Names : f # Target(p) => text'[f] = text[f] /\ mode'[f] = mode[f]
           /\ resp' = resp /\ prior' = prior
<1>1. CASE OpenFile(p)
  BY <1>1 DEF OpenFile, TypeOK, Writing
<1>2. CASE WriteFile(p)
  BY <1>2 DEF WriteFile, TypeOK, Writing
<1>3. CASE WriteFails(p)
  BY <1>3 DEF WriteFails, TypeOK, Writing
<1> QED
  BY <1>1, <1>2, <1>3

LEMMA UncoveredStep ==
    ASSUME TypeOK, CursorOK, UncoveredSetsStay, [Next]_vars
    PROVE  UncoveredSetsStay'
<1>1. ASSUME NEW p \in Procs, FetchReturns(p) PROVE UncoveredSetsStay'
  <2> SUFFICES ASSUME NEW i \in 1..MaxSvids, \A q \in Procs : i > Len(resp'[q])
               PROVE  \A q \in Procs : i > Len(resp[q])
    BY <1>1 DEF FetchReturns, UncoveredSetsStay
  <2>1. resp[p] = <<>>
    BY <1>1 DEF FetchReturns, CursorOK
  <2>2. \A q \in Procs \ {p} : resp'[q] = resp[q]
    BY <1>1 DEF FetchReturns, TypeOK
  <2>3. i > 0
    BY ResponsesAssumption
  <2> QED
    BY <2>1, <2>2, <2>3
<1>2. ASSUME NEW p \in Procs, OpenFile(p) \/ WriteFile(p) \/ WriteFails(p)
      PROVE  UncoveredSetsStay'
  <2>1. /\ \A f \in Names : f # Target(p) => text'[f] = text[f] /\ mode'[f] = mode[f]
        /\ resp' = resp /\ prior' = prior
        /\ idx[p] \in 1..Len(resp[p])
        /\ Target(p) = <<idx[p], kind[p]>>
    BY <1>2, OneFileAtATime, TargetType
  <2>2. ASSUME NEW i \in 1..MaxSvids, \A q \in Procs : i > Len(resp[q]), NEW k \in Kinds
        PROVE  /\ text'[<<i, k>>] = IF i <= prior THEN PriorText ELSE <<>>
               /\ (mode'[<<i, k>>] = "none") = (i > prior)
    <3>1. i # idx[p] /\ <<i, k>> \in Names
      BY <2>1, <2>2, RespType DEF Names
    <3> QED
      BY <2>1, <2>2, <3>1 DEF UncoveredSetsStay
  <2> QED
    BY <2>1, <2>2 DEF UncoveredSetsStay
<1>3. ASSUME NEW p \in Procs, Run(p) \/ Kill(p), ~FetchReturns(p),
             ~OpenFile(p), ~WriteFile(p), ~WriteFails(p)
      PROVE  UncoveredSetsStay'
  <2>1. text' = text /\ mode' = mode /\ resp' = resp /\ prior' = prior
    BY <1>3 DEF Run, Kill, FetchFails, PrintSvids, CheckDir, CreateDir, CreateDirFails,
                EncodeFails, OpenFails
  <2> QED
    BY <2>1 DEF UncoveredSetsStay
<1>4. CASE UNCHANGED vars
  BY <1>4 DEF vars, UncoveredSetsStay
<1> QED
  BY <1>1, <1>2, <1>3, <1>4 DEF Next, Run

\* Nothing is written or removed at the indices that no response covers.
THEOREM Uncovered == Spec => []UncoveredSetsStay
<1> DEFINE IInv == TypeOK /\ CursorOK /\ UncoveredSetsStay
<1>1. Init => IInv
  <2>1. Init => UncoveredSetsStay
    BY ResponsesAssumption DEF Init, UncoveredSetsStay, Names, Kinds
  <2> QED
    BY <2>1, InitType
<1>2. IInv /\ [Next]_vars => IInv'
  BY NextType, UncoveredStep
<1>3. IInv => UncoveredSetsStay
  OBVIOUS
<1> QED
  BY <1>1, <1>2, <1>3, PTL DEF Spec

\* The keys that the world can read are at all times those it could read before any
\* invocation: write_svids opens none up, and closes none that it writes anew.
THEOREM WideKeys == Spec => []WideKeysArePrior
<1> DEFINE IInv == TypeOK /\ CursorOK /\ WideKeysArePrior
<1>1. Init => IInv
  <2>1. ASSUME Init PROVE WideKeysArePrior
    <3>1. PICK n \in 0..MaxSvids : n = prior /\ wide \subseteq 1..n
      BY <2>1 DEF Init
    <3>2. ASSUME NEW i \in 1..MaxSvids PROVE mode[<<i, "key">>] = "644" <=> i \in wide
      <4>1. <<i, "key">> \in Names
        BY DEF Names, Kinds
      <4>2. mode[<<i, "key">>] = IF i > n THEN "none"
                                 ELSE IF i \notin wide THEN "600" ELSE "644"
        BY <2>1, <3>1, <4>1 DEF Init
      <4>3. i > n => i \notin wide
        BY <3>1, ResponsesAssumption
      <4> QED
        BY <4>2, <4>3
    <3>3. wide \subseteq 1..MaxSvids
      BY <3>1, ResponsesAssumption
    <3> QED
      BY <3>2, <3>3 DEF WideKeysArePrior
  <2> QED
    BY <2>1, InitType
<1>2. IInv /\ [Next]_vars => IInv'
  <2> SUFFICES ASSUME IInv, [Next]_vars PROVE WideKeysArePrior'
    BY NextType
  <2>1. ASSUME NEW p \in Procs, OpenFile(p) PROVE WideKeysArePrior'
    <3>1. Target(p) = <<idx[p], kind[p]>> /\ Target(p) \in Names
      BY <2>1, TargetType DEF OpenFile, Writing
    <3>2. /\ mode' = [mode EXCEPT ![Target(p)] = IF mode[Target(p)] = "none"
                                                THEN ModeOf(kind[p]) ELSE mode[Target(p)]]
          /\ wide' = wide
      BY <2>1 DEF OpenFile
    <3>3. ASSUME NEW i \in 1..MaxSvids
          PROVE  mode'[<<i, "key">>] = "644" <=> mode[<<i, "key">>] = "644"
      <4>1. <<i, "key">> \in Names
        BY DEF Names, Kinds
      <4>2. CASE <<i, "key">> = Target(p)
        <5>1. kind[p] = "key"
          BY <3>1, <4>2
        <5>2. mode'[<<i, "key">>] = IF mode[<<i, "key">>] = "none" THEN "600"
                                    ELSE mode[<<i, "key">>]
          BY <3>1, <3>2, <4>2, <5>1 DEF ModeOf, TypeOK
        <5> QED
          BY <5>2
      <4>3. CASE <<i, "key">> # Target(p)
        BY <3>2, <4>1, <4>3 DEF TypeOK
      <4> QED
        BY <4>2, <4>3
    <3> QED
      BY <3>2, <3>3 DEF WideKeysArePrior
  <2>2. ASSUME NEW p \in Procs, Run(p) \/ Kill(p), ~OpenFile(p) PROVE WideKeysArePrior'
    <3>1. mode' = mode /\ wide' = wide
      BY <2>2 DEF Run, Kill, FetchFails, FetchReturns, PrintSvids, CheckDir, CreateDir,
                  CreateDirFails, EncodeFails, OpenFails, WriteFile, WriteFails
    <3> QED
      BY <3>1 DEF WideKeysArePrior
  <2>3. CASE UNCHANGED vars
    BY <2>3 DEF vars, WideKeysArePrior
  <2> QED
    BY <2>1, <2>2, <2>3 DEF Next, Run
<1>3. IInv => WideKeysArePrior
  OBVIOUS
<1> QED
  BY <1>1, <1>2, <1>3, PTL DEF Spec

-----------------------------------------------------------------------------
(* A writer that met no other                                               *)

\* The steps that change no file and move no cursor; one that ends with code 0
\* among them is before the loop.
Quiet(p) ==
    \/ FetchFails(p) \/ FetchReturns(p) \/ PrintSvids(p) \/ CheckDir(p)
    \/ CreateDirFails(p) \/ EncodeFails(p) \/ OpenFails(p) \/ Kill(p)

LEMMA QuietFrame ==
    ASSUME TypeOK, CursorOK, NEW p \in Procs, Quiet(p)
    PROVE  /\ text' = text /\ mode' = mode /\ idx' = idx /\ kind' = kind /\ rival' = rival
           /\ pc'[p] \notin {"open", "write"}
           /\ pc'[p] = "ok" => idx[p] = 0
           /\ resp[p] # <<>> => resp'[p] = resp[p]
           /\ \A q \in Procs \ {p} : pc'[q] = pc[q] /\ resp'[q] = resp[q]
<1> USE DEF TypeOK, CursorOK, Goto, Writing
<1>1. CASE FetchFails(p)
  BY <1>1 DEF FetchFails
<1>2. CASE FetchReturns(p)
  BY <1>2 DEF FetchReturns
<1>3. CASE PrintSvids(p)
  BY <1>3 DEF PrintSvids
<1>4. CASE CheckDir(p)
  BY <1>4 DEF CheckDir
<1>5. CASE CreateDirFails(p)
  BY <1>5 DEF CreateDirFails
<1>6. CASE EncodeFails(p)
  BY <1>6 DEF EncodeFails
<1>7. CASE OpenFails(p)
  BY <1>7 DEF OpenFails
<1>8. CASE Kill(p)
  BY <1>8 DEF Kill, Ended
<1> QED
  BY <1>1, <1>2, <1>3, <1>4, <1>5, <1>6, <1>7, <1>8 DEF Quiet

\* A file is past once it is written, and a written one is never the current one.
LEMMA WrittenFiles ==
    ASSUME TypeOK, NEW p \in Procs, NEW i \in Nat, NEW k \in Kinds
    PROVE  /\ Written(p, i, k) => <<i, k>> # Target(p)
           /\ WriteFile(p) /\ Written(p, i, k)' => Written(p, i, k) \/ <<i, k>> = Target(p)
           /\ WriteFile(p) /\ kind[p] = "bundle" /\ i <= idx[p]
                 => Written(p, i, k) \/ <<i, k>> = Target(p)
<1> USE DEF TypeOK, Written, Preceding, Target, Kinds
<1>1. Written(p, i, k) => <<i, k>> # Target(p)
  OBVIOUS
<1>2. ASSUME WriteFile(p), Written(p, i, k)' PROVE Written(p, i, k) \/ <<i, k>> = Target(p)
  <2>1. CASE kind[p] = "bundle"
    <3>1. idx'[p] = idx[p] + 1 /\ kind'[p] = "svid"
      BY <1>2, <2>1 DEF WriteFile
    <3> QED
      BY <1>2, <2>1, <3>1
  <2>2. CASE kind[p] # "bundle"
    <3>1. idx'[p] = idx[p] /\ kind'[p] = IF kind[p] = "svid" THEN "key" ELSE "bundle"
      BY <1>2, <2>2 DEF WriteFile
    <3> QED
      BY <1>2, <2>2, <3>1
  <2> QED
    BY <2>1, <2>2
<1>3. ASSUME kind[p] = "bundle", i <= idx[p] PROVE Written(p, i, k) \/ <<i, k>> = Target(p)
  BY <1>3
<1> QED
  BY <1>1, <1>2, <1>3

\* The write of a writer that met no other leaves the very blocks of its blob.
LEMMA SoloWrite ==
    ASSUME TypeOK, CursorOK, NEW p \in Procs, SoloOf(p), p \notin rival, WriteFile(p)
    PROVE  /\ mode' = mode /\ mode[Target(p)] # "none"
           /\ text' = [text EXCEPT ![Target(p)] = Body(p, idx[p], kind[p])]
<1>1. Writing(p) /\ pc[p] = "write"
  BY DEF WriteFile, Writing
<1>2. text[Target(p)] = <<>> /\ mode[Target(p)] # "none"
  BY <1>1 DEF SoloOf
<1>3. Body(p, idx[p], kind[p]) \in Seq(Owners)
  BY <1>1, TargetType, BodyType DEF CursorOK, TypeOK
<1>4. Overlay(Body(p, idx[p], kind[p]), <<>>) = Body(p, idx[p], kind[p])
  BY <1>3, OverlayEmpty
<1> QED
  BY <1>2, <1>4 DEF WriteFile

LEMMA SoloStep ==
    ASSUME TypeOK, CursorOK, SoloOK, [Next]_vars
    PROVE  SoloOK'
<1> SUFFICES ASSUME NEW q \in Procs, Writing(q)', q \notin rival'
             PROVE  SoloOf(q)'
  BY DEF SoloOK, SoloOf
<1>1. ASSUME NEW p \in Procs, Quiet(p) PROVE SoloOf(q)'
  <2>1. /\ text' = text /\ mode' = mode /\ idx' = idx /\ kind' = kind /\ rival' = rival
        /\ ~Writing(p)'
        /\ \A r \in Procs \ {p} : pc'[r] = pc[r] /\ resp'[r] = resp[r]
    BY <1>1, QuietFrame DEF Writing
  <2>2. q # p /\ Writing(q) /\ q \notin rival /\ SoloOf(q)
    BY <2>1 DEF Writing, SoloOK
  <2>3. \A r \in Procs \ {q} : ~Writing(r)'
    BY <2>1, <2>2 DEF SoloOf, Writing
  <2>4. \A r \in 1..Len(resp[q]), k \in Kinds : Body(q, r, k)' = Body(q, r, k)
    BY <2>1, <2>2 DEF Body
  <2> QED
    BY <2>1, <2>2, <2>3, <2>4 DEF SoloOf, Written, Target
<1>2. ASSUME NEW p \in Procs, CreateDir(p) PROVE SoloOf(q)'
  <2> DEFINE others == {r \in Procs \ {p} : Writing(r)}
  <2>1. /\ text' = text /\ mode' = mode /\ kind' = kind /\ resp' = resp
        /\ \A r \in Procs \ {p} : pc'[r] = pc[r] /\ idx'[r] = idx[r]
        /\ idx'[p] = 1 /\ kind[p] = "svid" /\ ~Writing(p)
        /\ pc'[p] \in {"ok", "open"}
        /\ pc'[p] = "open" <=> resp[p] # <<>>
    BY <1>2 DEF CreateDir, Goto, TypeOK, CursorOK, Writing
  <2>2. CASE q = p
    <3>1. resp[p] # <<>> /\ pc'[p] = "open"
      BY <2>1, <2>2 DEF Writing
    <3>2. others = {}
      BY <1>2, <2>2, <3>1 DEF CreateDir
    <3>3. \A r \in Procs \ {p} : ~Writing(r)'
      BY <2>1, <3>2 DEF Writing
    <3>4. \A i \in 1..Len(resp[p]), k \in Kinds : ~Written(p, i, k)'
      BY <2>1, RespType DEF Written, Preceding, Kinds
    <3> QED
      BY <2>1, <2>2, <3>1, <3>3, <3>4 DEF SoloOf
  <2>3. CASE q # p
    <3>1. Writing(q) /\ q \in others
      BY <2>1, <2>3 DEF Writing
    <3>2. resp[p] = <<>>
      BY <1>2, <2>3, <3>1 DEF CreateDir
    <3>3. ~Writing(p)' /\ rival' = rival
      BY <1>2, <2>1, <3>2 DEF CreateDir, Writing
    <3>4. SoloOf(q) /\ \A r \in Procs \ {q} : ~Writing(r)'
      BY <2>1, <3>1, <3>3 DEF SoloOK, SoloOf, Writing
    <3> QED
      BY <2>1, <2>3, <3>1, <3>3, <3>4 DEF SoloOf, Written, Body, Target
  <2> QED
    BY <2>2, <2>3
<1>3. ASSUME NEW p \in Procs, OpenFile(p) \/ WriteFile(p) \/ WriteFails(p)
      PROVE  SoloOf(q)'
  <2>1. /\ Writing(p) /\ resp' = resp /\ rival' = rival
        /\ \A f \in Names : f # Target(p) => text'[f] = text[f] /\ mode'[f] = mode[f]
        /\ \A r \in Procs \ {p} : pc'[r] = pc[r]
    BY <1>3, OneFileAtATime DEF OpenFile, WriteFile, WriteFails, Goto, TypeOK
  <2>2. Writing(q) /\ q \notin rival /\ SoloOf(q)
    BY <2>1 DEF Writing, SoloOK
  <2>3. p = q
    BY <2>1, <2>2 DEF SoloOf
  <2>4. /\ idx[q] \in 1..Len(resp[q]) /\ Target(q) \in Names
        /\ Target(q) = <<idx[q], kind[q]>>
    BY <2>2, TargetType
  <2>5. \A r \in Procs \ {q} : ~Writing(r)'
    BY <2>1, <2>2, <2>3 DEF SoloOf, Writing
  <2>6. \A i \in 1..Len(resp[q]), k \in Kinds :
           /\ i \in Nat /\ <<i, k>> \in Names
           /\ Body(q, i, k)' = Body(q, i, k)
    BY <2>1, RespType, ResponsesAssumption DEF Names, Body
  <2>7. CASE OpenFile(q)
    <3>1. /\ idx' = idx /\ kind' = kind
          /\ mode'[Target(q)] # "none" /\ text'[Target(q)] = <<>>
      BY <2>4, <2>7 DEF OpenFile, ModeOf, Truncated, TypeOK
    <3>2. \A i \in 1..Len(resp[q]), k \in Kinds :
             Written(q, i, k)' => Written(q, i, k) /\ <<i, k>> # Target(q)
      BY <2>6, <3>1, WrittenFiles DEF Written
    <3>3. Target(q)' = Target(q)
      BY <3>1 DEF Target
    <3> QED
      BY <2>1, <2>2, <2>3, <2>5, <2>6, <3>1, <3>2, <3>3 DEF SoloOf
  <2>8. CASE WriteFile(q)
    <3>1. /\ mode' = mode /\ mode[Target(q)] # "none"
          /\ text' = [text EXCEPT ![Target(q)] = Body(q, idx[q], kind[q])]
      BY <2>2, <2>8, SoloWrite
    <3>2. ASSUME NEW i \in 1..Len(resp[q]), NEW k \in Kinds, Written(q, i, k)'
          PROVE  mode'[<<i, k>>] # "none" /\ text'[<<i, k>>] = Body(q, i, k)'
      <4>1. <<i, k>> \in Names /\ Body(q, i, k)' = Body(q, i, k)
        BY <2>6
      <4>2. CASE <<i, k>> = Target(q)
        BY <2>4, <3>1, <4>1, <4>2 DEF TypeOK
      <4>3. CASE <<i, k>> # Target(q)
        <5>1. Written(q, i, k)
          BY <2>6, <2>8, <3>2, <4>3, WrittenFiles
        <5> QED
          BY <2>1, <2>2, <2>3, <4>1, <4>3, <5>1 DEF SoloOf
      <4> QED
        BY <4>2, <4>3
    <3>3. pc'[q] # "write"
      BY <2>8 DEF WriteFile, Goto, TypeOK
    <3> QED
      BY <2>1, <2>5, <3>2, <3>3 DEF SoloOf
  <2>9. CASE WriteFails(q)
    BY <2>9 DEF WriteFails, Goto, TypeOK, Writing
  <2> QED
    BY <1>3, <2>3, <2>7, <2>8, <2>9
<1>4. CASE UNCHANGED vars
  BY <1>4 DEF vars, SoloOK, SoloOf, Writing, Written, Target, Body
<1> QED
  BY <1>1, <1>2, <1>3, <1>4 DEF Next, Run, Quiet

LEMMA InitSolo == Init => SoloOK
<1>1. Init => \A p \in Procs : ~Writing(p)
  BY DEF Init, Writing
<1> QED
  BY <1>1 DEF SoloOK, SoloOf

\* The step with which a writer that met no other ends its loop with code 0: every
\* file of its response is then complete and its own.
LEMMA SoloLastWrite ==
    ASSUME TypeOK, CursorOK, SoloOK, NEW p \in Procs, p \notin rival,
           WriteFile(p), kind[p] = "bundle",
           NEW i \in 1..Len(resp[p]), i <= idx[p], NEW k \in Kinds
    PROVE  /\ mode'[<<i, k>>] # "none"
           /\ text'[<<i, k>>] = Body(p, i, k)
<1>1. /\ mode' = mode /\ mode[Target(p)] # "none"
      /\ text' = [text EXCEPT ![Target(p)] = Body(p, idx[p], kind[p])]
  BY SoloWrite DEF SoloOK
<1>2. Writing(p) /\ Target(p) = <<idx[p], kind[p]>> /\ Target(p) \in Names
  BY TargetType DEF WriteFile, Writing
<1>3. i \in Nat /\ <<i, k>> \in Names
  BY RespType, ResponsesAssumption DEF Names
<1>4. CASE <<i, k>> = Target(p)
  BY <1>1, <1>2, <1>3, <1>4 DEF TypeOK
<1>5. CASE <<i, k>> # Target(p)
  <2>1. Written(p, i, k)
    BY <1>3, <1>5, WrittenFiles
  <2> QED
    BY <1>1, <1>2, <1>3, <1>5, <2>1 DEF SoloOK, SoloOf, TypeOK
<1> QED
  BY <1>4, <1>5

\* A run that met no other and exits with code 0 has published its whole response.
THEOREM SoloRuns == Spec => SoloRunPublishes
<1> DEFINE IInv == TypeOK /\ CursorOK /\ SoloOK
<1>1. Init => IInv
  BY InitType, InitSolo
<1>2. IInv /\ [Next]_vars => IInv'
  BY NextType, SoloStep
<1>3. ASSUME IInv, [Next]_vars, NEW p \in Procs, Writing(p), pc'[p] = "ok", p \notin rival,
             NEW i \in 1..Len(resp[p]), NEW k \in Kinds
      PROVE  mode'[<<i, k>>] # "none" /\ text'[<<i, k>>] = Body(p, i, k)
  <2>1. WriteFile(p)
    <3>1. pc'[p] # pc[p]
      BY <1>3 DEF Writing
    <3>2. ASSUME NEW q \in Procs, q # p, Run(q) \/ Kill(q) PROVE FALSE
      <4>1. CASE Quiet(q)
        BY <3>1, <3>2, <4>1, QuietFrame, <1>3
      <4>2. CASE WriteFile(q)
        BY <3>1, <3>2, <4>2, <1>3 DEF WriteFile, Goto, TypeOK
      <4>3. CASE CreateDir(q) \/ OpenFile(q) \/ WriteFails(q)
        BY <3>1, <3>2, <4>3, <1>3 DEF CreateDir, OpenFile, WriteFails, Goto, TypeOK
      <4> QED
        BY <3>2, <4>1, <4>2, <4>3 DEF Run, Quiet
    <3>3. Run(p) \/ Kill(p)
      BY <1>3, <3>1, <3>2 DEF Next, vars
    <3> QED
      BY <1>3, <3>3 DEF Writing, Run, Kill, Goto, FetchFails, FetchReturns, PrintSvids, CheckDir,
                        CreateDir, CreateDirFails, EncodeFails, OpenFile, OpenFails, WriteFails,
                        TypeOK, Ended
  <2>2. kind[p] = "bundle" /\ idx[p] = Len(resp[p])
    BY <1>3, <2>1 DEF WriteFile, Goto, TypeOK
  <2>3. i <= idx[p]
    BY <2>2, RespType
  <2> QED
    BY <1>3, <2>1, <2>2, <2>3, SoloLastWrite
<1>4. IInv /\ [Next]_vars => [\A p \in Procs :
         Writing(p) /\ pc'[p] = "ok" /\ p \notin rival =>
            \A i \in 1..Len(resp[p]), k \in Kinds :
                /\ mode'[<<i, k>>] # "none"
                /\ text'[<<i, k>>] = Body(p, i, k)]_vars
  BY <1>3
<1> QED
  BY <1>1, <1>2, <1>4, PTL DEF Spec, SoloRunPublishes

-----------------------------------------------------------------------------
(* Mixed sets                                                               *)

\* Who answers for a set of files at index i that mixes two origins.
Answers(p, i) == \/ idx[p] = i /\ pc[p] # "ok"
                 \/ idx[p] >= i /\ p \in rival

LEMMA EncodedStep ==
    ASSUME TypeOK, CursorOK, EncodedOK, [Next]_vars
    PROVE  EncodedOK'
<1> SUFFICES ASSUME NEW q \in Procs, Writing(q)', NEW k \in Preceding[kind'[q]]
             PROVE  Parses(resp'[q][idx'[q]], k)
  BY DEF EncodedOK
<1>1. ASSUME NEW p \in Procs, Quiet(p) PROVE Parses(resp'[q][idx'[q]], k)
  BY <1>1, QuietFrame DEF EncodedOK, Writing
<1>2. ASSUME NEW p \in Procs, CreateDir(p) PROVE Parses(resp'[q][idx'[q]], k)
  <2>1. CASE q = p
    BY <1>2, <2>1 DEF CreateDir, CursorOK, Preceding, Kinds, TypeOK
  <2>2. CASE q # p
    BY <1>2, <2>2 DEF CreateDir, Goto, EncodedOK, Writing, TypeOK
  <2> QED
    BY <2>1, <2>2
<1>3. ASSUME NEW p \in Procs, OpenFile(p) \/ WriteFails(p)
      PROVE  Parses(resp'[q][idx'[q]], k)
  BY <1>3 DEF OpenFile, WriteFails, Goto, EncodedOK, Writing, TypeOK
<1>4. ASSUME NEW p \in Procs, WriteFile(p) PROVE Parses(resp'[q][idx'[q]], k)
  <2>1. CASE q # p
    BY <1>4, <2>1 DEF WriteFile, Goto, EncodedOK, Writing, TypeOK
  <2>2. CASE q = p /\ kind[p] = "bundle"
    <3>1. kind'[p] = "svid"
      BY <1>4, <2>2 DEF WriteFile, TypeOK
    <3> QED
      BY <2>2, <3>1 DEF Preceding, Kinds
  <2>3. CASE q = p /\ kind[p] # "bundle"
    <3>1. /\ resp' = resp /\ idx' = idx /\ Writing(p) /\ Parses(resp[p][idx[p]], kind[p])
          /\ kind'[p] = IF kind[p] = "svid" THEN "key" ELSE "bundle"
      BY <1>4, <2>3 DEF WriteFile, CursorOK, Writing, TypeOK
    <3>2. k \in Preceding[kind[p]] \/ k = kind[p]
      BY <2>3, <3>1 DEF Preceding, Kinds, TypeOK
    <3> QED
      BY <2>3, <3>1, <3>2 DEF EncodedOK
  <2> QED
    BY <2>1, <2>2, <2>3
<1>5. CASE UNCHANGED vars
  BY <1>5 DEF vars, EncodedOK, Writing
<1> QED
  BY <1>1, <1>2, <1>3, <1>4, <1>5 DEF Next, Run, Quiet

\* The set that a writer that met no other finishes is its own.
LEMMA SoloWhole ==
    ASSUME TypeOK, CursorOK, EncodedOK, SoloOK, NEW p \in Procs, p \notin rival,
           WriteFile(p), kind[p] = "bundle", NEW i \in 1..MaxSvids, i = idx[p]
    PROVE  HoldsWhole(p, i)'
<1>1. /\ Writing(p) /\ resp' = resp /\ i \in 1..Len(resp[p]) /\ Len(resp[p]) \in Nat
  BY TargetType, RespType, ResponsesAssumption DEF WriteFile, Writing
<1>2. \A k \in Kinds : text'[<<i, k>>] = Body(p, i, k)
  BY <1>1, SoloLastWrite
<1>3. \A k \in Kinds : Parses(resp[p][i], k)
  <2>1. Parses(resp[p][i], "bundle")
    BY <1>1 DEF WriteFile, CursorOK
  <2>2. Parses(resp[p][i], "svid") /\ Parses(resp[p][i], "key")
    BY <1>1 DEF EncodedOK, Preceding, Kinds
  <2> QED
    BY <2>1, <2>2 DEF Kinds
<1>4. \A k \in Kinds : Body(p, i, k)' = Body(p, i, k)
  BY <1>1 DEF Body
<1> QED
  BY <1>1, <1>2, <1>3, <1>4 DEF HoldsWhole

LEMMA MixedStep ==
    ASSUME TypeOK, CursorOK, EncodedOK, SoloOK, MixedSetExplained, [Next]_vars
    PROVE  MixedSetExplained'
<1> SUFFICES ASSUME NEW i \in 1..MaxSvids
             PROVE  WholeSet(i)' \/ \E p \in Procs : Answers(p, i)'
  BY DEF MixedSetExplained, Answers
<1>0. /\ WholeSet(i) \/ \E p \in Procs : Answers(p, i)
      /\ i \in Nat /\ i > 0
      /\ \A k \in Kinds : <<i, k>> \in Names
  BY ResponsesAssumption DEF MixedSetExplained, Answers, Names
<1>1. ASSUME NEW p \in Procs, Quiet(p)
      PROVE  WholeSet(i)' \/ \E q \in Procs : Answers(q, i)'
  <2>1. /\ text' = text /\ mode' = mode /\ idx' = idx /\ rival' = rival
        /\ pc'[p] = "ok" => idx[p] = 0
        /\ resp[p] # <<>> => resp'[p] = resp[p]
        /\ \A q \in Procs \ {p} : pc'[q] = pc[q] /\ resp'[q] = resp[q]
    BY <1>1, QuietFrame
  <2>2. CASE WholeSet(i)
    <3>1. ASSUME NEW q \in Procs, i <= Len(resp[q]) PROVE resp'[q] = resp[q]
      BY <1>0, <2>1, <3>1
    <3> QED
      BY <2>1, <2>2, <3>1 DEF WholeSet, HoldsPrior, HoldsWhole, Body
  <2>3. ASSUME NEW q \in Procs, Answers(q, i) PROVE Answers(q, i)'
    BY <1>0, <2>1, <2>3 DEF Answers
  <2> QED
    BY <1>0, <2>2, <2>3
<1>2. ASSUME NEW p \in Procs, CreateDir(p)
      PROVE  WholeSet(i)' \/ \E q \in Procs : Answers(q, i)'
  <2>1. /\ text' = text /\ mode' = mode /\ resp' = resp /\ rival \subseteq rival'
        /\ idx[p] = 0 /\ idx'[p] = 1
        /\ \A q \in Procs \ {p} : pc'[q] = pc[q] /\ idx'[q] = idx[q]
    BY <1>2 DEF CreateDir, Goto, TypeOK, CursorOK
  <2>2. WholeSet(i) => WholeSet(i)'
    BY <2>1 DEF WholeSet, HoldsPrior, HoldsWhole, Body
  <2>3. ASSUME NEW q \in Procs, Answers(q, i) PROVE Answers(q, i)'
    BY <1>0, <2>1, <2>3 DEF Answers
  <2> QED
    BY <1>0, <2>2, <2>3
<1>3. ASSUME NEW p \in Procs, OpenFile(p) \/ WriteFile(p) \/ WriteFails(p)
      PROVE  WholeSet(i)' \/ \E q \in Procs : Answers(q, i)'
  <2>1. /\ Writing(p) /\ resp' = resp /\ rival' = rival
        /\ \A f \in Names : f # Target(p) => text'[f] = text[f] /\ mode'[f] = mode[f]
        /\ \A q \in Procs \ {p} : pc'[q] = pc[q] /\ idx'[q] = idx[q]
    BY <1>3, OneFileAtATime DEF OpenFile, WriteFile, WriteFails, Goto, TypeOK
  <2>2. /\ idx[p] \in 1..Len(resp[p]) /\ Target(p) = <<idx[p], kind[p]>>
        /\ Len(resp[p]) \in Nat
    BY <2>1, TargetType, RespType, ResponsesAssumption
  <2>3. CASE i # idx[p]
    <3>1. \A k \in Kinds : text'[<<i, k>>] = text[<<i, k>>] /\ mode'[<<i, k>>] = mode[<<i, k>>]
      BY <1>0, <2>1, <2>2, <2>3
    <3>2. WholeSet(i) => WholeSet(i)'
      BY <2>1, <3>1 DEF WholeSet, HoldsPrior, HoldsWhole, Body
    <3>3. idx'[p] \in {idx[p], idx[p] + 1}
      BY <1>3, <2>2 DEF OpenFile, WriteFile, WriteFails, TypeOK
    <3>4. ASSUME NEW q \in Procs, Answers(q, i) PROVE Answers(q, i)'
      BY <1>0, <2>1, <2>2, <2>3, <3>3, <3>4 DEF Answers
    <3> QED
      BY <1>0, <3>2, <3>4
  <2>4. CASE i = idx[p] /\ ~(WriteFile(p) /\ kind[p] = "bundle")
    <3>1. idx' = idx /\ pc'[p] # "ok"
      BY <1>3, <2>4 DEF OpenFile, WriteFile, WriteFails, Goto, TypeOK
    <3> QED
      BY <2>4, <3>1 DEF Answers
  <2>5. CASE i = idx[p] /\ WriteFile(p) /\ kind[p] = "bundle" /\ p \in rival
    <3>1. idx'[p] = idx[p] + 1
      BY <2>5 DEF WriteFile, TypeOK
    <3> QED
      BY <2>1, <2>2, <2>5, <3>1 DEF Answers
  <2>6. CASE i = idx[p] /\ WriteFile(p) /\ kind[p] = "bundle" /\ p \notin rival
    BY <2>6, SoloWhole DEF WholeSet
  <2> QED
    BY <2>3, <2>4, <2>5, <2>6
<1>4. CASE UNCHANGED vars
  BY <1>0, <1>4 DEF vars, WholeSet, HoldsPrior, HoldsWhole, Body, Answers
<1> QED
  BY <1>1, <1>2, <1>3, <1>4 DEF Next, Run, Quiet

\* Whenever the three files of an index mix two origins, an invocation is at that
\* index, or stopped there without code 0, or overlapped another.
THEOREM MixedSets == Spec => []MixedSetExplained
<1> DEFINE IInv == TypeOK /\ CursorOK /\ EncodedOK /\ SoloOK /\ MixedSetExplained
<1>1. Init => IInv
  <2>1. Init => MixedSetExplained
    BY ResponsesAssumption DEF Init, MixedSetExplained, WholeSet, HoldsPrior, Names, Kinds
  <2>2. Init => EncodedOK
    BY DEF Init, EncodedOK, Writing
  <2> QED
    BY <2>1, <2>2, InitType, InitSolo
<1>2. IInv /\ [Next]_vars => IInv'
  BY NextType, EncodedStep, SoloStep, MixedStep
<1>3. IInv => MixedSetExplained
  OBVIOUS
<1> QED
  BY <1>1, <1>2, <1>3, PTL DEF Spec

-----------------------------------------------------------------------------
(* The directory as a set of publications                                   *)

\* A file that begins with a block of an invocation: it has come to its write loop.
FirstOK ==
    \A f \in Names, p \in Procs : text[f] # <<>> /\ text[f][1] = p => idx[p] > 0

\* What is written at offset 0 comes first.
LEMMA OverlayFirst ==
    ASSUME NEW S, NEW new \in Seq(S), NEW old \in Seq(S)
    PROVE  \/ new = <<>> /\ Overlay(new, old) = old
           \/ new # <<>> /\ Overlay(new, old) # <<>> /\ Overlay(new, old)[1] = new[1]
<1>1. CASE new = <<>>
  <2>1. SubSeq(old, 1, Len(old)) = old
    OBVIOUS
  <2> QED
    BY <1>1, <2>1 DEF Overlay
<1>2. CASE new # <<>>
  <2>1. SubSeq(old, Len(new) + 1, Len(old)) \in Seq(S)
    BY SubSeqProperties
  <2> QED
    BY <1>2, <2>1 DEF Overlay
<1> QED
  BY <1>1, <1>2

\* A step on a file leaves it empty, or as it was, or with a block of its own in front.
LEMMA FileStep ==
    ASSUME TypeOK, CursorOK, NEW p \in Procs, OpenFile(p) \/ WriteFile(p) \/ WriteFails(p)
    PROVE  \/ text'[Target(p)] = <<>>
           \/ text'[Target(p)] = text[Target(p)]
           \/ text'[Target(p)] # <<>> /\ text'[Target(p)][1] = p
<1> DEFINE body == Body(p, idx[p], kind[p])
<1>1. /\ Target(p) \in Names /\ text[Target(p)] \in Seq(Owners)
      /\ text \in [Names -> Seq(Owners)]
  BY TargetType DEF OpenFile, WriteFile, WriteFails, Writing, TypeOK
<1>2. CASE OpenFile(p)
  BY <1>1, <1>2 DEF OpenFile, Truncated
<1>3. CASE WriteFile(p) \/ WriteFails(p)
  <2>1. body \in Seq(Owners) /\ \A j \in 1..Len(body) : body[j] = p
    <3>1. /\ idx[p] \in 1..Len(resp[p]) /\ kind[p] \in Kinds
          /\ Parses(resp[p][idx[p]], kind[p])
      BY <1>3, TargetType DEF WriteFile, WriteFails, Writing, CursorOK, TypeOK
    <3>2. body \in Seq(Owners) /\ Len(body) = resp[p][idx[p]][kind[p]]
      BY <3>1, BodyType
    <3> QED
      BY <3>2 DEF Body
  <2>2. PICK n \in 0..Len(body) :
           text'[Target(p)] = Overlay(SubSeq(body, 1, n), text[Target(p)])
    <3>1. CASE WriteFile(p)
      <4>1. SubSeq(body, 1, Len(body)) = body
        BY <2>1
      <4>2. text'[Target(p)] = Overlay(body, text[Target(p)])
        BY <1>1, <3>1 DEF WriteFile
      <4>3. Len(body) \in 0..Len(body)
        BY <2>1
      <4> QED
        BY <4>1, <4>2, <4>3
    <3>2. CASE WriteFails(p)
      <4>1. PICK n \in 0..Len(body) :
               text' = [text EXCEPT ![Target(p)] = Overlay(SubSeq(body, 1, n), @)]
        BY <3>2 DEF WriteFails
      <4> QED
        BY <1>1, <4>1
    <3> QED
      BY <1>3, <3>1, <3>2
  <2> DEFINE new == SubSeq(body, 1, n)
  <2>3. new \in Seq(Owners) /\ Len(new) = n /\ \A j \in 1..n : new[j] = p
    <3>1. /\ new \in Seq(Owners) /\ Len(new) = n
          /\ \A j \in 1..n : new[j] = body[1 + j - 1]
      BY <2>1, SubSeqProperties
    <3>2. \A j \in 1..n : j \in 1..Len(body) /\ 1 + j - 1 = j
      BY <2>1
    <3> QED
      BY <2>1, <3>1, <3>2
  <2>4. new # <<>> => new[1] = p
    BY <2>3
  <2> HIDE DEF new
  <2>5. \/ new = <<>> /\ Overlay(new, text[Target(p)]) = text[Target(p)]
        \/ /\ new # <<>> /\ Overlay(new, text[Target(p)]) # <<>>
           /\ Overlay(new, text[Target(p)])[1] = new[1]
    BY <1>1, <2>3, OverlayFirst
  <2>6. text'[Target(p)] = Overlay(new, text[Target(p)])
    BY <2>2 DEF new
  <2> QED
    BY <2>4, <2>5, <2>6
<1> QED
  BY <1>2, <1>3

LEMMA FirstStep ==
    ASSUME TypeOK, CursorOK, FirstOK, [Next]_vars
    PROVE  FirstOK'
<1> SUFFICES ASSUME NEW f \in Names, NEW q \in Procs, text'[f] # <<>>, text'[f][1] = q
             PROVE  idx'[q] > 0
  BY DEF FirstOK
<1>1. ASSUME NEW p \in Procs, Quiet(p) PROVE idx'[q] > 0
  BY <1>1, QuietFrame DEF FirstOK
<1>2. ASSUME NEW p \in Procs, CreateDir(p) PROVE idx'[q] > 0
  <2>1. text' = text /\ idx' = [idx EXCEPT ![p] = 1]
    BY <1>2 DEF CreateDir
  <2>2. idx[q] > 0
    BY <2>1 DEF FirstOK
  <2> QED
    BY <2>1, <2>2 DEF TypeOK
<1>3. ASSUME NEW p \in Procs, OpenFile(p) \/ WriteFile(p) \/ WriteFails(p) PROVE idx'[q] > 0
  <2>1. /\ \A g \in Names : g # Target(p) => text'[g] = text[g]
        /\ idx[p] \in 1..Len(resp[p])
        /\ \A r \in Procs \ {p} : idx'[r] = idx[r]
        /\ idx'[p] \in {idx[p], idx[p] + 1}
    BY <1>3, OneFileAtATime, TargetType DEF OpenFile, WriteFile, WriteFails, TypeOK
  <2>2. text'[f] = text[f] \/ q = p
    BY <1>3, <2>1, FileStep
  <2>3. idx[p] > 0 /\ idx'[p] > 0
    BY <2>1
  <2>4. CASE q = p
    BY <2>3, <2>4
  <2>5. CASE q # p
    BY <2>1, <2>2, <2>5 DEF FirstOK
  <2> QED
    BY <2>4, <2>5
<1>4. CASE UNCHANGED vars
  BY <1>4 DEF vars, FirstOK
<1> QED
  BY <1>1, <1>2, <1>3, <1>4 DEF Next, Run, Quiet

\* The owner of a whole set is the one its key file names: there is one at most.
OwnersOK ==
    \A i \in 1..MaxSvids : \A o \in Whole(i) :
        /\ text[<<i, "key">>] # <<>> /\ text[<<i, "key">>][1] = o
        /\ Whole(i) = {o}

LEMMA OneOwner == TypeOK => OwnersOK
<1> SUFFICES ASSUME TypeOK, NEW i \in 1..MaxSvids
             PROVE  \A o \in Whole(i) : /\ text[<<i, "key">>] # <<>>
                                        /\ text[<<i, "key">>][1] = o
                                        /\ Whole(i) = {o}
  BY DEF OwnersOK
<1>1. ASSUME NEW x \in Whole(i)
      PROVE  text[<<i, "key">>] # <<>> /\ text[<<i, "key">>][1] = x
  <2>1. CASE HoldsPrior(i) /\ x = Before
    BY <2>1 DEF HoldsPrior, PriorText, Kinds
  <2>2. CASE x \in Procs /\ HoldsWhole(x, i)
    <3>1. i \in 1..Len(resp[x]) /\ text[<<i, "key">>] = Body(x, i, "key")
      BY <2>2, RespType DEF HoldsWhole, Kinds
    <3>2. resp[x][i]["key"] = 1
      BY <2>2, <3>1, RespType DEF Svids
    <3>3. Body(x, i, "key") = <<x>>
      BY <3>2 DEF Body
    <3> QED
      BY <3>1, <3>3
  <2> QED
    BY <1>1, <2>1, <2>2 DEF Whole
<1> QED
  BY <1>1

LEMMA OneOwnerNext == TypeOK' => OwnersOK'
  BY OneOwner, PTL

LEMMA StartedPlace ==
    ASSUME TypeOK, CursorOK, NEW p \in Procs, idx[p] > 0
    PROVE  Place(p) # "idle"
<1>1. pc[p] \in States /\ pc[p] \notin {"fetch", "print", "check", "mkdir"}
  BY ResponsesAssumption DEF CursorOK, TypeOK
<1> QED
  BY <1>1 DEF Place, States, Writing, Ended

\* The invocation publishes the set its cursor is at.
LEMMA CurrentSet ==
    ASSUME TypeOK, CursorOK, NEW p \in Procs, Writing(p)
    PROVE  /\ Publish!Current(p) = idx[p]
           /\ idx[p] \in 1..MaxSvids /\ idx[p] <= Len(resp[p])
           /\ Place(p) = "busy"
<1>1. idx[p] \in 1..Len(resp[p]) /\ idx[p] \in 1..MaxSvids /\ Len(resp[p]) \in Nat
  BY TargetType, RespType, ResponsesAssumption
<1>2. Todo(p) = idx[p]..Len(resp[p])
  BY <1>1 DEF Todo
<1> DEFINE P(i) == i \in Todo(p) /\ \A j \in Todo(p) : i <= j
<1>3. P(idx[p]) /\ \A i : P(i) => i = idx[p]
  BY <1>1, <1>2
<1>4. Publish!Current(p) = CHOOSE i \in Todo(p) : \A j \in Todo(p) : i <= j
  BY DEF Publish!Current
<1> QED
  BY <1>1, <1>3, <1>4 DEF Place

\* A step on a file changes the current set only, and to one that Publish allows.
LEMMA TouchStep ==
    ASSUME TypeOK, CursorOK, FirstOK, [Next]_vars,
           NEW p \in Procs, OpenFile(p) \/ WriteFile(p) \/ WriteFails(p),
           NEW i \in 1..MaxSvids
    PROVE  /\ i # idx[p] => Whole(i)' = Whole(i)
           /\ Whole(i)' \in {Whole(i), {}} \cup {{q} : q \in {r \in Procs : Place(r) # "idle"}}
<1>1. /\ Writing(p) /\ resp' = resp
      /\ \A f \in Names : f # Target(p) => text'[f] = text[f]
      /\ idx[p] \in 1..Len(resp[p]) /\ Target(p) \in Names /\ Target(p) = <<idx[p], kind[p]>>
      /\ \A q \in Procs \ {p} : idx'[q] = idx[q]
  BY OneFileAtATime, TargetType DEF OpenFile, WriteFile, WriteFails, TypeOK
<1>2. \A k \in Kinds : <<i, k>> \in Names
  BY DEF Names
<1>3. CASE i # idx[p]
  <2>1. \A k \in Kinds : text'[<<i, k>>] = text[<<i, k>>]
    BY <1>1, <1>2, <1>3
  <2>2. Whole(i)' = Whole(i)
    BY <1>1, <2>1 DEF Whole, HoldsPrior, HoldsWhole, Body
  <2> QED
    BY <2>2
<1>4. CASE i = idx[p] /\ Whole(i)' = {}
  BY <1>4
<1>5. ASSUME i = idx[p], NEW o \in Whole(i)'
      PROVE  Whole(i)' \in {Whole(i)} \cup {{q} : q \in {r \in Procs : Place(r) # "idle"}}
  <2>1. /\ Whole(i)' = {o}
        /\ text'[<<i, "key">>] # <<>> /\ text'[<<i, "key">>][1] = o
    BY <1>5, NextType, OneOwnerNext DEF OwnersOK
  <2>2. CASE o = Before
    <3>1. HoldsPrior(i)'
      BY <1>5, <2>2, NamesAssumption DEF Whole
    <3>2. \A k \in Kinds : text'[<<i, k>>] = PriorText
      BY <3>1 DEF HoldsPrior, PriorText
    <3>3. text'[Target(p)] = text[Target(p)]
      <4>1. text'[Target(p)] = PriorText
        BY <1>1, <1>5, <3>2 DEF TypeOK
      <4>2. text'[Target(p)] # <<>> /\ text'[Target(p)][1] = Before
        BY <4>1 DEF PriorText
      <4> QED
        BY <4>2, FileStep, NamesAssumption
    <3>4. HoldsPrior(i)
      BY <1>1, <1>2, <3>2, <3>3 DEF HoldsPrior
    <3>5. Whole(i) = {Before}
      BY <3>4, OneOwner DEF Whole, OwnersOK
    <3> QED
      BY <2>1, <2>2, <3>5
  <2>3. CASE o \in Procs
    <3>1. idx'[o] > 0
      BY <1>2, <2>1, <2>3, FirstStep DEF FirstOK, Kinds
    <3>2. idx[o] > 0
      BY <1>1, <2>3, <3>1, RespType
    <3>3. Place(o) # "idle"
      BY <2>3, <3>2, StartedPlace
    <3> QED
      BY <2>1, <2>3, <3>3
  <2> QED
    BY <1>5, <2>2, <2>3 DEF Whole
<1> QED
  BY <1>3, <1>4, <1>5

\* The step of Publish on the current set.
LEMMA TouchAction ==
    ASSUME TypeOK, CursorOK, FirstOK, [Next]_vars,
           NEW p \in Procs, OpenFile(p) \/ WriteFile(p) \/ WriteFails(p)
    PROVE  Publish!Touch(p)
<1> DEFINE sets == [i \in 1..MaxSvids |-> Whole(i)]
<1>1. PICK c \in 1..MaxSvids : c = idx[p] /\ Publish!Current(p) = c
  BY CurrentSet DEF OpenFile, WriteFile, WriteFails, Writing
<1>2. /\ \A i \in 1..MaxSvids : i # c => Whole(i)' = Whole(i)
      /\ Whole(c)' \in {Whole(c), {}} \cup {{q} : q \in {r \in Procs : Place(r) # "idle"}}
  BY <1>1, TouchStep
<1>3. sets' = [sets EXCEPT ![c] = Whole(c)']
  BY <1>2
<1> QED
  BY <1>1, <1>2, <1>3 DEF Publish!Touch

\* A publication that changes no set.
LEMMA TouchNothing ==
    ASSUME TypeOK, CursorOK, NEW p \in Procs, Writing(p),
           [i \in 1..MaxSvids |-> Whole(i)]' = [i \in 1..MaxSvids |-> Whole(i)]
    PROVE  Publish!Touch(p)
<1> DEFINE sets == [i \in 1..MaxSvids |-> Whole(i)]
<1>1. Publish!Current(p) \in 1..MaxSvids
  BY CurrentSet
<1>2. sets' = [sets EXCEPT ![Publish!Current(p)] = sets[Publish!Current(p)]]
  BY <1>1
<1> QED
  BY <1>2 DEF Publish!Touch

\* A step beside the files changes no set, and no cursor.
LEMMA QuietSets ==
    ASSUME TypeOK, CursorOK, FirstOK, [Next]_vars, NEW p \in Procs, Quiet(p)
    PROVE  /\ \A i \in 1..MaxSvids : Whole(i)' = Whole(i)
           /\ \A q \in Procs : Todo(q)' = Todo(q)
           /\ \A q \in Procs \ {p} : Place(q)' = Place(q)
           /\ Place(p) = "idle" => Place(p)' \in {"idle", "ok", "failed"}
           /\ Place(p) # "idle" => Writing(p) /\ Place(p)' = "failed"
<1>1. /\ text' = text /\ idx' = idx
      /\ pc'[p] \notin {"open", "write"} /\ pc[p] \notin Ended /\ pc'[p] \in States
      /\ pc'[p] = "ok" => idx[p] = 0
      /\ resp[p] # <<>> => resp'[p] = resp[p]
      /\ \A q \in Procs \ {p} : pc'[q] = pc[q] /\ resp'[q] = resp[q]
  <2>1. pc'[p] \in States
    BY NextType DEF TypeOK
  <2>2. pc[p] \notin Ended
    BY DEF Quiet, FetchFails, FetchReturns, PrintSvids, CheckDir, CreateDirFails,
           EncodeFails, OpenFails, Kill, Ended
  <2> QED
    BY <2>1, <2>2, QuietFrame
<1>2. idx[p] = 0 \/ (Writing(p) /\ resp[p] # <<>>)
  BY <1>1, RespType DEF CursorOK, TypeOK, States, Ended, Writing
<1>3. \A i \in 1..MaxSvids : Whole(i)' = Whole(i)
  <2> SUFFICES ASSUME NEW i \in 1..MaxSvids PROVE Whole(i)' = Whole(i)
    OBVIOUS
  <2>1. HoldsPrior(i)' = HoldsPrior(i)
    BY <1>1 DEF HoldsPrior, PriorText
  <2>2. ASSUME NEW q \in Procs, resp'[q] = resp[q] PROVE HoldsWhole(q, i)' = HoldsWhole(q, i)
    BY <1>1, <2>2 DEF HoldsWhole, Body
  <2>3. ASSUME resp[p] = <<>> PROVE ~HoldsWhole(p, i) /\ ~HoldsWhole(p, i)'
    <3>1. ~HoldsWhole(p, i)
      BY <2>3 DEF HoldsWhole
    <3>2. ASSUME HoldsWhole(p, i)' PROVE FALSE
      <4>1. p \in Whole(i)'
        BY <3>2 DEF Whole
      <4>2. idx'[p] > 0
        BY <4>1, NextType, OneOwnerNext, FirstStep DEF OwnersOK, FirstOK, Names, Kinds
      <4> QED
        BY <1>1, <1>2, <2>3, <4>2
    <3> QED
      BY <3>1, <3>2
  <2>4. \A q \in Procs : HoldsWhole(q, i)' <=> HoldsWhole(q, i)
    BY <1>1, <2>2, <2>3
  <2> QED
    BY <2>1, <2>4 DEF Whole
<1>4. \A q \in Procs : Todo(q)' = Todo(q)
  BY <1>1, <1>2 DEF Todo
<1>5. \A q \in Procs \ {p} : Place(q)' = Place(q)
  BY <1>1 DEF Place, Writing
<1>6. Place(p) = "idle" => Place(p)' \in {"idle", "ok", "failed"}
  BY <1>1 DEF Place, Writing
<1>7. Place(p) # "idle" => Writing(p) /\ Place(p)' = "failed"
  <2>1. Place(p) # "idle" => Writing(p)
    BY <1>1 DEF Place, Ended
  <2>2. ASSUME Writing(p) PROVE pc'[p] \in {"err", "killed"}
    BY <2>2 DEF Writing, Quiet, FetchFails, FetchReturns, PrintSvids, CheckDir, CreateDirFails,
           EncodeFails, OpenFails, Kill, Goto, TypeOK
  <2> QED
    BY <2>1, <2>2 DEF Place, Writing, Ended
<1> QED
  BY <1>3, <1>4, <1>5, <1>6, <1>7

\* Every step of an invocation is one of a publication, or changes none.
LEMMA PublishStep ==
    ASSUME TypeOK, CursorOK, FirstOK, EncodedOK, SoloOK, [Next]_vars
    PROVE  [Publish!Next]_(Publish!vars)
<1> DEFINE sets == [i \in 1..MaxSvids |-> Whole(i)]
           places == [p \in Procs |-> Place(p)]
           todos == [p \in Procs |-> Todo(p)]
<1>1. ASSUME NEW p \in Procs, Quiet(p) PROVE [Publish!Next]_(Publish!vars)
  <2>1. sets' = sets /\ todos' = todos /\ rival' = rival
    BY <1>1, QuietSets, QuietFrame
  <2>2. places' = [places EXCEPT ![p] = Place(p)']
    BY <1>1, QuietSets
  <2>3. CASE Place(p) = "idle" /\ Place(p)' = "idle"
    <3>1. places' = places
      BY <2>2, <2>3
    <3> QED
      BY <2>1, <3>1 DEF Publish!vars
  <2>4. CASE Place(p) = "idle" /\ Place(p)' # "idle"
    <3>1. places[p] = "idle" /\ Place(p)' \in {"ok", "failed"}
      BY <1>1, <2>4, QuietSets
    <3>2. Publish!Decline(p)
      BY <2>1, <2>2, <3>1 DEF Publish!Decline
    <3> QED
      BY <3>2 DEF Publish!Next
  <2>5. CASE Place(p) # "idle"
    <3>1. Writing(p) /\ Place(p)' = "failed" /\ places[p] = "busy"
      BY <1>1, <2>5, QuietSets DEF Place
    <3>2. Publish!Touch(p)
      BY <2>1, <3>1, TouchNothing
    <3>3. Publish!Stop(p)
      BY <2>1, <2>2, <3>1, <3>2 DEF Publish!Stop
    <3> QED
      BY <3>3 DEF Publish!Next
  <2> QED
    BY <2>3, <2>4, <2>5
<1>2. ASSUME NEW p \in Procs, CreateDir(p) PROVE [Publish!Next]_(Publish!vars)
  <2>1. /\ text' = text /\ resp' = resp /\ idx[p] = 0 /\ idx'[p] = 1 /\ pc[p] = "mkdir"
        /\ pc'[p] = IF resp[p] = <<>> THEN "ok" ELSE "open"
        /\ \A q \in Procs \ {p} : pc'[q] = pc[q] /\ idx'[q] = idx[q]
    BY <1>2 DEF CreateDir, Goto, TypeOK, CursorOK
  <2>2. sets' = sets
    BY <2>1 DEF Whole, HoldsPrior, HoldsWhole, Body, PriorText
  <2>3. /\ places[p] = "idle"
        /\ places' = [places EXCEPT ![p] = IF resp[p] = <<>> THEN "ok" ELSE "busy"]
    BY <2>1 DEF Place, Writing, Ended
  <2>4. todos' = [todos EXCEPT ![p] = 1..Len(resp[p])]
    <3>1. Todo(p)' = 1..Len(resp[p])
      BY <2>1 DEF Todo
    <3>2. \A q \in Procs \ {p} : Todo(q)' = Todo(q)
      BY <2>1 DEF Todo
    <3> QED
      BY <3>1, <3>2
  <2>5. CASE resp[p] = <<>>
    <3>1. todos' = todos
      <4>1. 1..Len(resp[p]) = {} /\ todos[p] = {}
        BY <2>1, <2>5 DEF Todo
      <4> QED
        BY <2>4, <4>1
    <3>2. rival' = rival
      BY <1>2, <2>5 DEF CreateDir
    <3>3. Publish!Decline(p)
      BY <2>2, <2>3, <2>5, <3>1, <3>2 DEF Publish!Decline
    <3> QED
      BY <3>3 DEF Publish!Next
  <2>6. CASE resp[p] # <<>>
    <3>1. Len(resp[p]) \in 1..MaxSvids
      BY <2>6, RespType, ResponsesAssumption
    <3>2. {q \in Procs \ {p} : Writing(q)} = {q \in Procs \ {p} : places[q] = "busy"}
      BY DEF Place
    <3>3. rival' = IF {q \in Procs \ {p} : places[q] = "busy"} = {} THEN rival
                   ELSE rival \cup {q \in Procs \ {p} : places[q] = "busy"} \cup {p}
      BY <1>2, <2>6, <3>2 DEF CreateDir
    <3>4. Publish!Begin(p)
      BY <2>2, <2>3, <2>4, <2>6, <3>1, <3>3 DEF Publish!Begin, Publish!Indices
    <3> QED
      BY <3>4 DEF Publish!Next
  <2> QED
    BY <2>5, <2>6
<1>3. ASSUME NEW p \in Procs, OpenFile(p) \/ (WriteFile(p) /\ kind[p] # "bundle")
      PROVE  [Publish!Next]_(Publish!vars)
  <2>1. /\ resp' = resp /\ idx' = idx /\ rival' = rival /\ Writing(p) /\ Writing(p)'
        /\ \A q \in Procs \ {p} : pc'[q] = pc[q]
    BY <1>3 DEF OpenFile, WriteFile, Goto, TypeOK, Writing
  <2>2. places' = places /\ places[p] = "busy"
    BY <2>1 DEF Place, Writing
  <2>3. todos' = todos
    BY <2>1 DEF Todo
  <2>4. Publish!Spoil(p)
    BY <1>3, <2>1, <2>2, <2>3, TouchAction DEF Publish!Spoil
  <2> QED
    BY <2>4 DEF Publish!Next
<1>4. ASSUME NEW p \in Procs, WriteFile(p), kind[p] = "bundle"
      PROVE  [Publish!Next]_(Publish!vars)
  <2>1. /\ resp' = resp /\ rival' = rival /\ Writing(p) /\ idx'[p] = idx[p] + 1
        /\ pc'[p] = IF idx[p] = Len(resp[p]) THEN "ok" ELSE "open"
        /\ \A q \in Procs \ {p} : pc'[q] = pc[q] /\ idx'[q] = idx[q]
    BY <1>4 DEF WriteFile, Goto, TypeOK, Writing
  <2>2. PICK c \in 1..MaxSvids : c = idx[p] /\ c <= Len(resp[p]) /\ Publish!Current(p) = c
    BY <2>1, CurrentSet
  <2>3. Len(resp[p]) \in Nat /\ c \in Nat \ {0} /\ c <= Len(resp[p])
    BY <2>2, RespType, ResponsesAssumption
  <2>4. Todo(p) = c..Len(resp[p])
    BY <2>2, <2>3 DEF Todo
  <2>5. Todo(p)' = Todo(p) \ {c} /\ (Todo(p)' = {} <=> c = Len(resp[p]))
    <3>1. resp'[p] = resp[p] /\ idx'[p] = c + 1 /\ c + 1 # 0
      BY <2>1, <2>2, <2>3
    <3>2. Todo(p)' = (c + 1)..Len(resp[p])
      BY <3>1 DEF Todo
    <3>3. c..Len(resp[p]) \ {c} = (c + 1)..Len(resp[p])
      BY <2>3
    <3>4. CASE c = Len(resp[p])
      <4>1. (c + 1)..Len(resp[p]) = {}
        BY <2>3, <3>4
      <4> QED
        BY <2>4, <3>2, <3>3, <3>4, <4>1
    <3>5. CASE c # Len(resp[p])
      <4>1. Len(resp[p]) \in (c + 1)..Len(resp[p])
        BY <2>3, <3>5
      <4> QED
        BY <2>4, <3>2, <3>3, <3>5, <4>1
    <3> QED
      BY <3>4, <3>5
  <2>6. todos' = [todos EXCEPT ![p] = @ \ {c}]
    BY <2>1, <2>5 DEF Todo
  <2>7. places' = [places EXCEPT ![p] = IF c = Len(resp[p]) THEN "ok" ELSE "busy"]
    BY <2>1, <2>2 DEF Place, Writing
  <2>8. places[p] = "busy" /\ (todos'[p] = {} <=> c = Len(resp[p]))
    BY <2>1, <2>5 DEF Place
  <2>9. ASSUME p \notin rival PROVE sets'[c] = {p}
    <3>1. HoldsWhole(p, c)'
      BY <1>4, <2>2, <2>9, SoloWhole
    <3>2. p \in Whole(c)'
      BY <3>1 DEF Whole
    <3>3. Whole(c)' = {p}
      BY <3>2, NextType, OneOwnerNext DEF OwnersOK
    <3> QED
      BY <3>3
  <2>10. Publish!Complete(p)
    BY <1>4, <2>1, <2>2, <2>6, <2>7, <2>8, <2>9, TouchAction DEF Publish!Complete
  <2> QED
    BY <2>10 DEF Publish!Next
<1>5. ASSUME NEW p \in Procs, WriteFails(p) PROVE [Publish!Next]_(Publish!vars)
  <2>1. /\ resp' = resp /\ idx' = idx /\ rival' = rival /\ Writing(p) /\ pc'[p] = "err"
        /\ \A q \in Procs \ {p} : pc'[q] = pc[q]
    BY <1>5 DEF WriteFails, Goto, TypeOK, Writing
  <2>2. places' = [places EXCEPT ![p] = "failed"] /\ places[p] = "busy"
    BY <2>1 DEF Place, Writing, Ended
  <2>3. todos' = todos
    BY <2>1 DEF Todo
  <2>4. Publish!Stop(p)
    BY <1>5, <2>1, <2>2, <2>3, TouchAction DEF Publish!Stop
  <2> QED
    BY <2>4 DEF Publish!Next
<1>6. CASE UNCHANGED vars
  BY <1>6 DEF vars, Publish!vars, Whole, HoldsPrior, HoldsWhole, Body, PriorText, Place,
              Writing, Todo
<1> QED
  BY <1>1, <1>2, <1>3, <1>4, <1>5, <1>6 DEF Next, Run, Quiet

\* The opens and writes of write_svids, whatever fails and whoever else writes, publish
\* whole sets in order, as Publish says: FetchX509 implements the abstract module.
THEOREM Publishes == Spec => ImplementsPublish
<1> DEFINE IInv == TypeOK /\ CursorOK /\ FirstOK /\ EncodedOK /\ SoloOK
<1>1. Init => IInv
  <2>1. Init => FirstOK
    BY NamesAssumption DEF Init, FirstOK, PriorText
  <2>2. Init => EncodedOK
    BY DEF Init, EncodedOK, Writing
  <2> QED
    BY <2>1, <2>2, InitType, InitSolo
<1>2. IInv /\ [Next]_vars => IInv'
  BY NextType, FirstStep, EncodedStep, SoloStep
<1>3. Init => Publish!Init
  <2> SUFFICES ASSUME Init PROVE Publish!Init
    OBVIOUS
  <2>1. ASSUME NEW i \in 1..MaxSvids PROVE Whole(i) = IF i <= prior THEN {Before} ELSE {}
    <3>1. \A p \in Procs : ~HoldsWhole(p, i)
      <4>1. \A p \in Procs : Len(resp[p]) = 0
        BY EmptySeq DEF Init
      <4>2. ~(i <= 0)
        BY ResponsesAssumption
      <4> QED
        BY <4>1, <4>2 DEF HoldsWhole
    <3>2. \A k \in Kinds : text[<<i, k>>] = IF i <= prior THEN PriorText ELSE <<>>
      BY DEF Init, Names
    <3>3. HoldsPrior(i) <=> i <= prior
      BY <3>2 DEF HoldsPrior, PriorText, Kinds
    <3> QED
      BY <3>1, <3>3 DEF Whole
  <2>2. [i \in 1..MaxSvids |-> Whole(i)] = [i \in 1..MaxSvids |-> IF i <= prior THEN {Before} ELSE {}]
    BY <2>1
  <2>3. \A p \in Procs : Place(p) = "idle" /\ Todo(p) = {}
    BY DEF Init, Place, Todo, Writing, Ended
  <2>4. prior \in 0..MaxSvids /\ rival = {}
    BY DEF Init
  <2> QED
    BY <2>2, <2>3, <2>4 DEF Publish!Init, Publish!Indices
<1>4. IInv /\ [Next]_vars => [Publish!Next]_(Publish!vars)
  BY PublishStep
<1> QED
  BY <1>1, <1>2, <1>3, <1>4, PTL DEF Spec, ImplementsPublish, Publish!Spec

PublishTheorems == INSTANCE PublishProofs WITH
    whole <- [i \in 1..MaxSvids |-> Whole(i)],
    place <- [p \in Procs |-> Place(p)],
    todo  <- [p \in Procs |-> Todo(p)]

\* The Publish that PublishProofs is about is the one of ImplementsPublish.
LEMMA SamePublish == Publish!Spec => PublishTheorems!Spec
<1>1. Publish!Init => PublishTheorems!Init
  BY DEF Publish!Init, PublishTheorems!Init, Publish!Indices, PublishTheorems!Indices
<1>2. Publish!Next => PublishTheorems!Next
  <2> USE DEF Publish!Current, PublishTheorems!Current, Publish!Touch, PublishTheorems!Touch
  <2>1. ASSUME NEW p \in Procs
        PROVE  /\ Publish!Decline(p) => PublishTheorems!Decline(p)
               /\ Publish!Begin(p) => PublishTheorems!Begin(p)
               /\ Publish!Spoil(p) => PublishTheorems!Spoil(p)
               /\ Publish!Complete(p) => PublishTheorems!Complete(p)
               /\ Publish!Stop(p) => PublishTheorems!Stop(p)
    BY DEF Publish!Decline, PublishTheorems!Decline, Publish!Begin, PublishTheorems!Begin,
           Publish!Spoil, PublishTheorems!Spoil, Publish!Complete, PublishTheorems!Complete,
           Publish!Stop, PublishTheorems!Stop, Publish!Indices, PublishTheorems!Indices
  <2> QED
    BY <2>1 DEF Publish!Next, PublishTheorems!Next
<1>3. Publish!vars' = Publish!vars => PublishTheorems!vars' = PublishTheorems!vars
  BY DEF Publish!vars, PublishTheorems!vars
<1>4. [Publish!Next]_(Publish!vars) => [PublishTheorems!Next]_(PublishTheorems!vars)
  BY <1>2, <1>3
<1> QED
  BY <1>1, <1>4, PTL DEF Publish!Spec, PublishTheorems!Spec

\* What Publish promises holds of the files: an invocation that wrote alone and exits
\* with code 0 is the only owner of every set up to its last one, and a set that was
\* there before any invocation never comes back once it was opened.
THEOREM FetchInherits == Spec => Publish!AlonePublishesAll /\ Publish!PriorIsGone
<1>1. MaxSvids \in Nat /\ Before \notin Procs
  BY NamesAssumption, ResponsesAssumption
<1>2. /\ PublishTheorems!Spec => PublishTheorems!AlonePublishesAll
      /\ PublishTheorems!Spec => PublishTheorems!PriorIsGone
  BY <1>1, PublishTheorems!AlonePublishes, PublishTheorems!PriorGoes
<1>3. [\A p \in Procs : PublishTheorems!OwnsAll(p)]_(PublishTheorems!vars)
          => [\A p \in Procs : Publish!OwnsAll(p)]_(Publish!vars)
  BY DEF PublishTheorems!OwnsAll, Publish!OwnsAll, PublishTheorems!vars, Publish!vars,
         PublishTheorems!Current, Publish!Current
<1>4. [\A i \in PublishTheorems!Indices : PublishTheorems!StaysGone(i)]_(PublishTheorems!vars)
          => [\A i \in Publish!Indices : Publish!StaysGone(i)]_(Publish!vars)
  BY DEF PublishTheorems!StaysGone, Publish!StaysGone, PublishTheorems!vars, Publish!vars,
         PublishTheorems!Indices, Publish!Indices
<1> QED
  BY <1>2, <1>3, <1>4, SamePublish, Publishes, PTL
  DEF ImplementsPublish, PublishTheorems!AlonePublishesAll, Publish!AlonePublishesAll,
      PublishTheorems!PriorIsGone, Publish!PriorIsGone
-----------------------------------------------------------------------------
(* No invocation runs for ever: the safety half of EveryRunEnds             *)

\* The steps of the files of one SVID that are still to be opened or written.
FilesLeft(p) ==
    IF kind[p] = "svid" THEN 6 ELSE IF kind[p] = "key" THEN 4 ELSE 2

\* At most so many steps are left to p, a failure or a kill included.
StepsLeft(p) ==
    IF pc[p] = "fetch" THEN 6 * MaxSvids + 4
    ELSE IF pc[p] = "print" THEN 6 * MaxSvids + 3
    ELSE IF pc[p] = "check" THEN 6 * MaxSvids + 2
    ELSE IF pc[p] = "mkdir" THEN 6 * MaxSvids + 1
    ELSE IF pc[p] = "open" THEN 6 * (Len(resp[p]) - idx[p]) + FilesLeft(p)
    ELSE IF pc[p] = "write" THEN 6 * (Len(resp[p]) - idx[p]) + FilesLeft(p) - 1
    ELSE 0

\* It is a bound, and an invocation that has not ended has a step left.
StepsBounded ==
    \A p \in Procs : /\ StepsLeft(p) \in 0..(6 * MaxSvids + 4)
                     /\ pc[p] \notin Ended => StepsLeft(p) > 0
                     /\ Writing(p) => StepsLeft(p) <= 6 * MaxSvids

LEMMA StepsNat == TypeOK /\ CursorOK => StepsBounded
<1> SUFFICES ASSUME TypeOK, CursorOK, NEW p \in Procs
             PROVE  /\ StepsLeft(p) \in 0..(6 * MaxSvids + 4)
                    /\ pc[p] \notin Ended => StepsLeft(p) > 0
                    /\ Writing(p) => StepsLeft(p) <= 6 * MaxSvids
  BY DEF StepsBounded
<1>1. MaxSvids \in Nat /\ Len(resp[p]) \in 0..MaxSvids
  BY RespType, ResponsesAssumption
<1>2. pc[p] \in States /\ FilesLeft(p) \in {2, 4, 6}
  BY DEF TypeOK, FilesLeft
<1>3. CASE Writing(p)
  <2>1. idx[p] \in 1..Len(resp[p])
    BY <1>3 DEF CursorOK
  <2>2. Len(resp[p]) - idx[p] \in 0..(MaxSvids - 1)
    BY <1>1, <2>1
  <2> QED
    BY <1>1, <1>2, <1>3, <2>2 DEF StepsLeft, Writing, Ended
<1>4. CASE ~Writing(p)
  BY <1>1, <1>2, <1>4 DEF StepsLeft, Writing, States, Ended
<1> QED
  BY <1>3, <1>4

\* A step of an invocation leaves the others the steps they had.
LEMMA OthersWait ==
    ASSUME NEW q \in Procs,
           pc'[q] = pc[q], resp'[q] = resp[q], idx'[q] = idx[q], kind'[q] = kind[q]
    PROVE  StepsLeft(q)' = StepsLeft(q)
  BY DEF StepsLeft, FilesLeft

LEMMA StepsDescend ==
    ASSUME TypeOK, StepsBounded, StepsBounded', NEW p \in Procs, Run(p) \/ Kill(p)
    PROVE  /\ StepsLeft(p)' < StepsLeft(p)
           /\ \A q \in Procs \ {p} : StepsLeft(q)' = StepsLeft(q)
<1>1. /\ pc[p] \notin Ended
      /\ \A q \in Procs \ {p} :
            pc'[q] = pc[q] /\ resp'[q] = resp[q] /\ idx'[q] = idx[q] /\ kind'[q] = kind[q]
  BY DEF Run, Kill, FetchFails, FetchReturns, PrintSvids, CheckDir, CreateDir, CreateDirFails,
         EncodeFails, OpenFile, OpenFails, WriteFile, WriteFails, Goto, TypeOK, Ended
<1>2. \A q \in Procs \ {p} : StepsLeft(q)' = StepsLeft(q)
  BY <1>1, OthersWait
<1>3. StepsLeft(p) \in Nat \ {0} /\ StepsLeft(p)' \in Nat /\ MaxSvids \in Nat
  BY <1>1, ResponsesAssumption DEF StepsBounded
<1>4. CASE pc'[p] \in Ended
  <2>1. StepsLeft(p)' = 0
    BY <1>4 DEF StepsLeft, Ended
  <2> QED
    BY <1>2, <1>3, <2>1
<1>5. CASE (FetchReturns(p) \/ PrintSvids(p) \/ CheckDir(p)) /\ pc'[p] \notin Ended
  <2>1. \/ pc[p] = "fetch" /\ pc'[p] \in {"print", "check"}
        \/ pc[p] = "print" /\ pc'[p] = "check"
        \/ pc[p] = "check" /\ pc'[p] = "mkdir"
    BY <1>5 DEF FetchReturns, PrintSvids, CheckDir, Goto, TypeOK, Ended
  <2> QED
    BY <1>2, <1>3, <2>1 DEF StepsLeft
<1>6. CASE CreateDir(p) /\ pc'[p] \notin Ended
  <2>1. pc[p] = "mkdir" /\ Writing(p)'
    BY <1>6 DEF CreateDir, Goto, TypeOK, Ended, Writing
  <2>2. StepsLeft(p)' <= 6 * MaxSvids
    BY <2>1 DEF StepsBounded
  <2>3. StepsLeft(p) = 6 * MaxSvids + 1
    BY <2>1 DEF StepsLeft
  <2> QED
    BY <1>2, <1>3, <2>2, <2>3
<1>7. CASE OpenFile(p)
  <2>1. /\ pc[p] = "open" /\ pc'[p] = "write"
        /\ resp'[p] = resp[p] /\ idx'[p] = idx[p] /\ kind'[p] = kind[p]
    BY <1>7 DEF OpenFile, Goto, TypeOK
  <2>2. PICK n \in Nat, c \in Nat : n = Len(resp[p]) /\ c = idx[p]
    BY RespType, ResponsesAssumption DEF TypeOK
  <2>3. FilesLeft(p)' = FilesLeft(p) /\ FilesLeft(p) \in Nat
    BY <2>1 DEF FilesLeft
  <2>4. /\ StepsLeft(p) = 6 * (n - c) + FilesLeft(p)
        /\ StepsLeft(p)' = 6 * (n - c) + FilesLeft(p)' - 1
    BY <2>1, <2>2 DEF StepsLeft
  <2> QED
    BY <1>2, <2>2, <2>3, <2>4
<1>8. CASE WriteFile(p) /\ pc'[p] \notin Ended
  <2>1. /\ pc[p] = "write" /\ pc'[p] = "open" /\ resp'[p] = resp[p] /\ kind[p] \in Kinds
        /\ IF kind[p] = "bundle"
           THEN idx'[p] = idx[p] + 1 /\ kind'[p] = "svid"
           ELSE idx'[p] = idx[p] /\ kind'[p] = IF kind[p] = "svid" THEN "key" ELSE "bundle"
    BY <1>8 DEF WriteFile, Goto, TypeOK, Ended
  <2>2. PICK n \in Nat, c \in Nat : n = Len(resp[p]) /\ c = idx[p]
    BY RespType, ResponsesAssumption DEF TypeOK
  <2>3. StepsLeft(p) = 6 * (n - c) + FilesLeft(p) - 1
    BY <2>1, <2>2 DEF StepsLeft
  <2>4. CASE kind[p] = "bundle"
    <3>1. StepsLeft(p)' = 6 * (n - (c + 1)) + 6
      BY <2>1, <2>2, <2>4 DEF StepsLeft, FilesLeft
    <3>2. FilesLeft(p) = 2
      BY <2>4 DEF FilesLeft
    <3>3. StepsLeft(p) = 6 * (n - c) + 2 - 1
      BY <2>3, <3>2
    <3>4. StepsLeft(p)' < StepsLeft(p)
      <4>1. 6 * (n - (c + 1)) + 6 < 6 * (n - c) + 2 - 1
        OBVIOUS
      <4> QED
        BY <3>1, <3>3, <4>1
    <3> QED
      BY <1>2, <3>4
  <2>5. CASE kind[p] # "bundle"
    <3>1. StepsLeft(p)' = 6 * (n - c) + FilesLeft(p)'
      BY <2>1, <2>2, <2>5 DEF StepsLeft
    <3>2. FilesLeft(p) \in {4, 6} /\ FilesLeft(p)' = FilesLeft(p) - 2
      BY <2>1, <2>5 DEF FilesLeft, Kinds
    <3>3. PICK f \in {4, 6} : f = FilesLeft(p)
      BY <3>2
    <3>4. /\ StepsLeft(p) = 6 * (n - c) + f - 1
          /\ StepsLeft(p)' = 6 * (n - c) + (f - 2)
      BY <2>3, <3>1, <3>2, <3>3
    <3>5. StepsLeft(p)' < StepsLeft(p)
      <4>1. PICK m \in Int : m = 6 * (n - c)
        OBVIOUS
      <4> QED
        BY <3>4, <4>1
    <3> QED
      BY <1>2, <3>5
  <2> QED
    BY <2>4, <2>5
<1> QED
  BY <1>4, <1>5, <1>6, <1>7, <1>8
  DEF Run, Kill, FetchFails, FetchReturns, CreateDirFails, EncodeFails, OpenFails, WriteFails,
      Goto, TypeOK, Ended

\* Every step uses up one of the steps of an invocation, at most 6 * MaxSvids + 4 for
\* each, and gives none to another: print_svids and write_svids have no loop that a
\* failure, a kill or a rival could keep going.  What is left of EveryRunEnds is that an
\* invocation that has not ended can take a step.
THEOREM StepsRunOut ==
    Spec => /\ [](\A p \in Procs : StepsLeft(p) \in 0..(6 * MaxSvids + 4))
            /\ [][\E p \in Procs : /\ StepsLeft(p)' < StepsLeft(p)
                                   /\ \A q \in Procs \ {p} : StepsLeft(q)' = StepsLeft(q)]_vars
<1> DEFINE IInv == TypeOK /\ CursorOK
           Bounded == \A p \in Procs : StepsLeft(p) \in 0..(6 * MaxSvids + 4)
           Step == \E p \in Procs : /\ StepsLeft(p)' < StepsLeft(p)
                                    /\ \A q \in Procs \ {p} : StepsLeft(q)' = StepsLeft(q)
<1>1. IInv /\ [Next]_vars => IInv'
  BY NextType
<1>2. IInv => StepsBounded /\ TypeOK
  BY StepsNat
<1>3. StepsBounded => Bounded
  BY DEF StepsBounded
<1>4. TypeOK /\ StepsBounded /\ StepsBounded' /\ [Next]_vars => [Step]_vars
  BY StepsDescend DEF Next
<1>5. Init => IInv
  BY InitType
<1> HIDE DEF IInv, Bounded, Step
<1>6. Spec => []Bounded /\ [][Step]_vars
  BY <1>1, <1>2, <1>3, <1>4, <1>5, PTL DEF Spec
<1> QED
  BY <1>6 DEF Bounded, Step
=============================================================================
