------------------------- MODULE GenerateCertsProofs -------------------------
(******************************************************************************)
(* The theorems about GenerateCerts, for any number of runs and of keys.      *)
(******************************************************************************)
EXTENDS GenerateCerts, TLAPS

KeepsCa(d)     == Has(d, "ca-key") /\ Has(d, "ca-cert")
KeepsServer(d) == Has(d, "server-key") /\ Has(d, "server-cert")

CaFits(d)     == KeepsCa(d) /\ d["ca-cert"] = <<d["ca-key"], d["ca-key"]>>
ServerFits(d) == KeepsServer(d) /\ d["server-cert"] = <<d["server-key"], d["ca-key"]>>
BundleFits(d) == Has(d, "bundle") /\ d["bundle"] = d["ca-cert"]

\* What the steps of any run rely on.
MadeOK ==
    /\ pc \in Files \ {"ca-key"} => Has(file, "ca-key")
    /\ pc \in Files \ {"ca-key", "ca-cert"} => Has(file, "ca-cert")
    /\ pc \in {"csr", "server-cert"} => Has(file, "server-key")
    /\ pc = "server-cert" => file["csr"] = file["server-key"]

\* What a run that was forced, or that found what fits together, has achieved when
\* it comes to each file: what it made fits, and so does what it would skip later.
LaterServer == force \/ (KeepsServer(file) => ServerFits(file))
LaterBundle == force \/ (Has(file, "bundle") => BundleFits(file))

Progress ==
    /\ pc = "ca-key"  => file = begun
    /\ pc = "ca-cert" => force \/ (~KeepsServer(file) /\ ~Has(file, "bundle"))
    /\ pc = "server-key" => CaFits(file) /\ LaterServer /\ LaterBundle
    /\ pc \in {"csr", "server-cert"} => CaFits(file) /\ LaterBundle
    /\ pc = "bundle" => CaFits(file) /\ ServerFits(file) /\ LaterBundle
    /\ pc = "done"   => Consistent(file)

ProgressOK == force \/ Repairable(begun) => Progress

LEMMA InitType == Init => TypeOK
  BY DEF Init, TypeOK, IsDirectory, Nothing

\* A made file is of the kind its name says.
LEMMA MakeType ==
    ASSUME TypeOK, NEW f \in Files, NEW c \in Content(f) \cup {Absent, Empty}
    PROVE  IsDirectory([file EXCEPT ![f] = c])
  BY DEF TypeOK, IsDirectory, Content, Certs, Files

\* What a directory holds under a name, if it holds anything.
LEMMA ContentType ==
    ASSUME NEW d, IsDirectory(d), NEW f \in Files
    PROVE  /\ Has(d, f) <=> d[f] \in Content(f)
           /\ ~Has(d, f) <=> d[f] \in {Absent, Empty}
  BY SentinelsAssumption DEF IsDirectory, Has, Content, Certs, Files

\* Types and reliance, one step at a time.
LEMMA NextType == TypeOK /\ MadeOK /\ [Next]_vars => TypeOK' /\ MadeOK'
<1> SUFFICES ASSUME TypeOK, MadeOK, [Next]_vars PROVE TypeOK' /\ MadeOK'
  OBVIOUS
<1> USE DEF Files
<1>1. CASE Begin
  BY <1>1, ChoicesAssumption DEF Begin, TypeOK, MadeOK
<1>2. CASE SkipCa
  BY <1>2 DEF SkipCa, SkipsCa, Skip, Exists, TypeOK, MadeOK, Has
<1>3. ASSUME NEW f \in {"ca-key", "server-key"}, NEW next \in Files, MakeKey(f, next),
             f = "ca-key" => next = "ca-cert", f = "server-key" => next = "csr"
      PROVE  TypeOK' /\ MadeOK'
  <2>1. PICK k \in Keys : Make(f, k, next) /\ used' = used \cup {k}
    BY <1>3 DEF MakeKey
  <2>2. IsDirectory(file')
    BY <2>1, MakeType DEF Make, Content
  <2>3. TypeOK'
    BY <2>1, <2>2, <1>3 DEF TypeOK, Make
  <2>4. Has(file', f) /\ pc' = next /\ pc = f
    BY <2>1, SentinelsAssumption DEF Make, Has, TypeOK, IsDirectory
  <2>5. \A g \in Files \ {f} : file'[g] = file[g]
    BY <2>1 DEF Make, TypeOK, IsDirectory
  <2> QED
    BY <1>3, <2>3, <2>4, <2>5 DEF MadeOK, Has
<1>4. CASE MakeCaKey
  BY <1>3, <1>4 DEF MakeCaKey
<1>5. CASE MakeCaCert
  <2> DEFINE c == <<file["ca-key"], file["ca-key"]>>
  <2>1. Make("ca-cert", c, "server-key") /\ used' = used
    BY <1>5 DEF MakeCaCert
  <2>2. c \in Certs
    BY <2>1, ContentType DEF MadeOK, Make, TypeOK, Content, Certs
  <2>3. IsDirectory(file')
    BY <2>1, <2>2, MakeType DEF Make, Content
  <2>4. Has(file', "ca-cert") /\ file'["ca-key"] = file["ca-key"]
    BY <2>1, <2>2, SentinelsAssumption DEF Make, Has, TypeOK, IsDirectory
  <2> QED
    BY <2>1, <2>3, <2>4 DEF Make, TypeOK, MadeOK, Has
<1>6. CASE SkipServer
  BY <1>6 DEF SkipServer, Skip, TypeOK, MadeOK
<1>7. CASE MakeServerKey
  BY <1>3, <1>7 DEF MakeServerKey
<1>8. CASE MakeCsr
  <2>1. Make("csr", file["server-key"], "server-cert") /\ used' = used
    BY <1>8 DEF MakeCsr
  <2>2. file["server-key"] \in Keys
    BY <2>1, ContentType DEF MadeOK, Make, TypeOK, Content
  <2>3. IsDirectory(file')
    BY <2>1, <2>2, MakeType DEF Make, Content
  <2>4. /\ file'["csr"] = file["server-key"]
        /\ \A g \in Files \ {"csr"} : file'[g] = file[g]
    BY <2>1 DEF Make, TypeOK, IsDirectory
  <2> QED
    BY <2>1, <2>3, <2>4 DEF Make, TypeOK, MadeOK, Has
<1>9. CASE MakeServerCert
  <2> DEFINE c == <<file["csr"], file["ca-key"]>>
  <2>1. Make("server-cert", c, "bundle") /\ used' = used
    BY <1>9 DEF MakeServerCert
  <2>2. c \in Certs
    BY <2>1, ContentType DEF MadeOK, Make, TypeOK, Content, Certs
  <2>3. IsDirectory(file')
    BY <2>1, <2>2, MakeType DEF Make, Content
  <2>4. \A g \in Files \ {"server-cert"} : file'[g] = file[g]
    BY <2>1 DEF Make, TypeOK, IsDirectory
  <2> QED
    BY <2>1, <2>3, <2>4 DEF Make, TypeOK, MadeOK, Has
<1>10. CASE SkipBundle
  BY <1>10 DEF SkipBundle, Skip, TypeOK, MadeOK
<1>11. CASE MakeBundle
  <2>1. Make("bundle", file["ca-cert"], "done") /\ used' = used
    BY <1>11 DEF MakeBundle
  <2>2. file["ca-cert"] \in Certs
    BY <2>1, ContentType DEF MadeOK, Make, TypeOK, Content
  <2>3. IsDirectory(file')
    BY <2>1, <2>2, MakeType DEF Make, Content
  <2> QED
    BY <2>1, <2>3 DEF Make, TypeOK, MadeOK
<1>12. CASE CutShort
  <2>1. IsDirectory(file')
    BY <1>12, MakeType DEF CutShort, Running, TypeOK
  <2> QED
    BY <1>12, <2>1 DEF CutShort, TypeOK, MadeOK
<1>13. CASE Clean
  BY <1>13 DEF Clean, Nothing, TypeOK, MadeOK, IsDirectory
<1>14. ASSUME NEW f \in Losable, Lose(f) PROVE TypeOK' /\ MadeOK'
  <2>1. IsDirectory(file')
    BY <1>14, MakeType, ChoicesAssumption DEF Lose, TypeOK
  <2> QED
    BY <1>14, <2>1 DEF Lose, TypeOK, MadeOK
<1>15. CASE UNCHANGED vars
  BY <1>15 DEF vars, TypeOK, MadeOK, Has
<1> QED
  BY <1>1, <1>2, <1>4, <1>5, <1>6, <1>7, <1>8, <1>9, <1>10, <1>11, <1>12, <1>13, <1>14, <1>15
  DEF Next

\* Every file is of its kind, whatever is cut short or lost.
THEOREM TypeCorrect == Spec => []TypeOK
<1>1. Init => TypeOK /\ MadeOK
  BY InitType DEF Init, MadeOK, Files
<1> QED
  BY <1>1, NextType, PTL DEF Spec

-----------------------------------------------------------------------------
(* Runs that end with code 0                                                *)

\* A file that a run has just made is there, and the others are what they were.
LEMMA Made ==
    ASSUME TypeOK, TypeOK', NEW f \in Files, NEW c \in Content(f), NEW next, Make(f, c, next)
    PROVE  /\ Has(file', f) /\ file'[f] = c
           /\ \A g \in Files \ {f} : file'[g] = file[g]
           /\ pc = f /\ pc' = next /\ force' = force /\ begun' = begun
           /\ next # "done" \/ ~force => rough' = rough
<1>1. file'[f] = c /\ \A g \in Files \ {f} : file'[g] = file[g]
  BY DEF Make, TypeOK, IsDirectory
<1>2. Has(file', f)
  BY <1>1, ContentType DEF TypeOK
<1>3. next # "done" \/ ~force => rough' = rough
  BY DEF Make, TypeOK
<1> QED
  BY <1>1, <1>2, <1>3 DEF Make

\* What the steps of the script put into the files they make.
LEMMA MadeContents ==
    ASSUME TypeOK, MadeOK
    PROVE  /\ pc = "ca-cert" => <<file["ca-key"], file["ca-key"]>> \in Content("ca-cert")
           /\ pc = "csr" => file["server-key"] \in Content("csr")
           /\ pc = "server-cert" => <<file["csr"], file["ca-key"]>> \in Content("server-cert")
           /\ pc = "bundle" => file["ca-cert"] \in Content("bundle")
  BY ContentType DEF TypeOK, MadeOK, Content, Certs, Files

LEMMA ProgressStep ==
    ASSUME TypeOK, MadeOK, TypeOK', ProgressOK, [Next]_vars
    PROVE  ProgressOK'
<1> SUFFICES ASSUME force' \/ Repairable(begun') PROVE Progress'
  BY DEF ProgressOK
<1> USE DEF Files, LaterServer, LaterBundle, CaFits, ServerFits, BundleFits, KeepsCa, KeepsServer, Has
<1>1. CASE Begin
  BY <1>1 DEF Begin, Progress
<1>2. CASE SkipCa
  <2>1. Progress /\ Repairable(begun) /\ file = begun /\ KeepsCa(file)
    BY <1>2 DEF SkipCa, SkipsCa, Skip, ProgressOK, Progress, Exists
  <2> QED
    BY <1>2, <2>1 DEF SkipCa, Skip, Progress, Repairable
<1>3. CASE MakeCaKey
  <2>1. PICK k \in Keys : Make("ca-key", k, "ca-cert")
    BY <1>3 DEF MakeCaKey, MakeKey
  <2>2. /\ \A g \in Files \ {"ca-key"} : file'[g] = file[g]
        /\ pc = "ca-key" /\ pc' = "ca-cert" /\ force' = force /\ begun' = begun
    BY <2>1, Made DEF Content
  <2>3. force \/ (Repairable(begun) /\ file = begun /\ ~KeepsCa(file))
    BY <1>3, <2>2 DEF MakeCaKey, SkipsCa, ProgressOK, Progress, Exists
  <2> QED
    BY <2>2, <2>3 DEF Progress, Repairable
<1>4. CASE MakeCaCert
  <2>1. /\ Has(file', "ca-cert") /\ file'["ca-cert"] = <<file["ca-key"], file["ca-key"]>>
        /\ \A g \in Files \ {"ca-cert"} : file'[g] = file[g]
        /\ pc = "ca-cert" /\ pc' = "server-key" /\ force' = force /\ begun' = begun
    BY <1>4, Made, MadeContents DEF MakeCaCert, Make
  <2>2. Progress /\ Has(file, "ca-key")
    BY <2>1 DEF ProgressOK, MadeOK
  <2> QED
    BY <2>1, <2>2 DEF Progress
<1>5. CASE SkipServer
  BY <1>5 DEF SkipServer, SkipsServer, Skip, ProgressOK, Progress, Exists
<1>6. CASE MakeServerKey
  <2>1. PICK k \in Keys : Make("server-key", k, "csr")
    BY <1>6 DEF MakeServerKey, MakeKey
  <2>2. /\ \A g \in Files \ {"server-key"} : file'[g] = file[g]
        /\ pc = "server-key" /\ pc' = "csr" /\ force' = force /\ begun' = begun
    BY <2>1, Made DEF Content
  <2> QED
    BY <2>2 DEF ProgressOK, Progress
<1>7. CASE MakeCsr
  <2>1. /\ \A g \in Files \ {"csr"} : file'[g] = file[g]
        /\ pc = "csr" /\ pc' = "server-cert" /\ force' = force /\ begun' = begun
    BY <1>7, Made, MadeContents DEF MakeCsr, Make
  <2> QED
    BY <2>1 DEF ProgressOK, Progress
<1>8. CASE MakeServerCert
  <2>1. /\ Has(file', "server-cert") /\ file'["server-cert"] = <<file["csr"], file["ca-key"]>>
        /\ \A g \in Files \ {"server-cert"} : file'[g] = file[g]
        /\ pc = "server-cert" /\ pc' = "bundle" /\ force' = force /\ begun' = begun
    BY <1>8, Made, MadeContents DEF MakeServerCert, Make
  <2>2. Progress /\ Has(file, "server-key") /\ file["csr"] = file["server-key"]
    BY <2>1 DEF ProgressOK, MadeOK
  <2> QED
    BY <2>1, <2>2 DEF Progress
<1>9. CASE SkipBundle
  BY <1>9 DEF SkipBundle, SkipsBundle, Skip, ProgressOK, Progress, Exists, Consistent
<1>10. CASE MakeBundle
  <2>1. /\ Has(file', "bundle") /\ file'["bundle"] = file["ca-cert"]
        /\ \A g \in Files \ {"bundle"} : file'[g] = file[g]
        /\ pc = "bundle" /\ pc' = "done" /\ force' = force /\ begun' = begun
    BY <1>10, Made, MadeContents DEF MakeBundle, Make
  <2> QED
    BY <2>1 DEF ProgressOK, Progress, Consistent
<1>11. CASE CutShort \/ Clean \/ \E f \in Losable : Lose(f)
  BY <1>11 DEF CutShort, Clean, Lose, Progress
<1>12. CASE UNCHANGED vars
  BY <1>12 DEF vars, ProgressOK, Progress
<1> QED
  BY <1>1, <1>2, <1>3, <1>4, <1>5, <1>6, <1>7, <1>8, <1>9, <1>10, <1>11, <1>12 DEF Next

\* A run that ends with code 0 leaves a consistent set, if it was forced or found
\* what fits together.
THEOREM DoneRuns == Spec => []DoneConsistent
<1> DEFINE IInv == TypeOK /\ MadeOK /\ ProgressOK
<1>1. Init => IInv
  BY InitType DEF Init, MadeOK, ProgressOK, Progress, Files
<1>2. IInv /\ [Next]_vars => IInv'
  BY NextType, ProgressStep
<1>3. IInv => DoneConsistent
  BY DEF ProgressOK, Progress, DoneConsistent
<1> QED
  BY <1>1, <1>2, <1>3, PTL DEF Spec

-----------------------------------------------------------------------------
(* Running again over a consistent set                                      *)

\* A run without FORCE over a consistent set has changed nothing so far.
UntouchedOK == Running /\ ~force /\ Consistent(begun) =>
                  file = begun /\ pc \in {"ca-key", "server-key", "bundle"}

\* `make certs` over a consistent set changes no file.
THEOREM Idempotent == Spec => RerunIsIdempotent
<1>1. Init => UntouchedOK
  BY DEF Init, UntouchedOK, Running, Files
<1>2. ASSUME UntouchedOK, [Next]_vars, Running, ~force, Consistent(begun)
      PROVE  UNCHANGED file /\ (Running' => UntouchedOK')
  <2>1. file = begun /\ pc \in {"ca-key", "server-key", "bundle"}
    BY <1>2 DEF UntouchedOK
  <2>2. Exists("ca-key") /\ Exists("ca-cert") /\ Exists("server-key")
        /\ Exists("server-cert") /\ Exists("bundle")
    BY <1>2, <2>1 DEF Consistent, Has, Exists, Files
  <2>3. SkipsCa /\ SkipsServer /\ SkipsBundle
    BY <1>2, <2>2 DEF SkipsCa, SkipsServer, SkipsBundle
  <2>4. \/ Skip("ca-key", "server-key") \/ Skip("server-key", "bundle")
        \/ Skip("bundle", "done") \/ (CutShort /\ UNCHANGED file) \/ UNCHANGED vars
    BY <1>2, <2>1, <2>3 DEF Next, Begin, SkipCa, MakeCaKey, MakeCaCert, SkipServer,
       MakeServerKey, MakeCsr, MakeServerCert, SkipBundle, MakeBundle, CutShort, Skipping,
       Clean, Lose, Make, Running
  <2> QED
    BY <1>2, <2>1, <2>4 DEF Skip, CutShort, vars, UntouchedOK, Running, Files
<1>3. UntouchedOK /\ [Next]_vars => UntouchedOK'
  <2> SUFFICES ASSUME UntouchedOK, [Next]_vars, Running', ~force', Consistent(begun')
               PROVE  UntouchedOK'
    BY DEF UntouchedOK
  <2>1. CASE ~Running
    BY <2>1 DEF Next, Begin, SkipCa, MakeCaKey, MakeCaCert, SkipServer, MakeServerKey, MakeCsr,
       MakeServerCert, SkipBundle, MakeBundle, CutShort, Clean, Lose, Make, MakeKey, Skip, Running,
       UntouchedOK, Files, vars
  <2>2. CASE Running
    <3>1. force' = force /\ begun' = begun
      BY <2>2 DEF Next, Begin, SkipCa, MakeCaKey, MakeCaCert, SkipServer, MakeServerKey, MakeCsr,
         MakeServerCert, SkipBundle, MakeBundle, CutShort, Clean, Lose, Make, MakeKey, Skip, vars
    <3> QED
      BY <1>2, <2>2, <3>1
  <2> QED
    BY <2>1, <2>2
<1>4. UntouchedOK /\ [Next]_vars =>
        [Running /\ ~force /\ Consistent(begun) => UNCHANGED file]_vars
  BY <1>2
<1> QED
  BY <1>1, <1>3, <1>4, PTL DEF Spec, RerunIsIdempotent

-----------------------------------------------------------------------------
(* Runs that are cut short                                                  *)

\* Unless it was treated roughly, even a run in progress leaves a directory that can be
\* repaired: a certificate never outlives its key, and no key is replaced under one.
Careful ==
    /\ Running => ~force
    /\ Repairable(file)
    /\ Has(file, "ca-cert") => Has(file, "ca-key")
    /\ Has(file, "server-cert") => Has(file, "server-key")
    /\ pc = "ca-cert" => ~Has(file, "ca-cert")
    /\ pc \in {"csr", "server-cert"} => ~Has(file, "server-cert")

CarefulOK == ~rough => Careful

LEMMA CarefulStep ==
    ASSUME TypeOK, MadeOK, TypeOK', CarefulOK, ProgressOK, ProgressOK', [Next]_vars
    PROVE  CarefulOK'
<1> SUFFICES ASSUME ~rough' PROVE Careful'
  BY DEF CarefulOK
<1> USE DEF Files, CarefulOK, Careful, Repairable, Has, Running
<1>1. CASE Begin
  BY <1>1 DEF Begin
<1>2. CASE SkipCa \/ SkipServer \/ SkipBundle
  BY <1>2 DEF SkipCa, SkipServer, SkipBundle, Skip
<1>3. CASE MakeCaKey
  <2>1. PICK k \in Keys : Make("ca-key", k, "ca-cert")
    BY <1>3 DEF MakeCaKey, MakeKey
  <2>2. /\ \A g \in Files \ {"ca-key"} : file'[g] = file[g]
        /\ Has(file', "ca-key") /\ pc = "ca-key" /\ pc' = "ca-cert" /\ force' = force /\ rough' = rough
    BY <2>1, Made DEF Content
  <2>3. ~Has(file, "ca-cert")
    BY <1>3, <2>2 DEF MakeCaKey, SkipsCa, Exists
  <2> QED
    BY <2>2, <2>3
<1>4. CASE MakeCaCert
  <2>1. /\ Has(file', "ca-cert") /\ file'["ca-cert"] = <<file["ca-key"], file["ca-key"]>>
        /\ \A g \in Files \ {"ca-cert"} : file'[g] = file[g]
        /\ pc = "ca-cert" /\ pc' = "server-key" /\ force' = force /\ rough' = rough
    BY <1>4, Made, MadeContents DEF MakeCaCert, Make
  <2>2. Has(file, "ca-key") /\ ~Has(file, "bundle")
        /\ ~(Has(file, "server-key") /\ Has(file, "server-cert"))
    BY <2>1 DEF MadeOK
  <2> QED
    BY <2>1, <2>2
<1>5. CASE MakeServerKey
  <2>1. PICK k \in Keys : Make("server-key", k, "csr")
    BY <1>5 DEF MakeServerKey, MakeKey
  <2>2. /\ \A g \in Files \ {"server-key"} : file'[g] = file[g]
        /\ Has(file', "server-key") /\ pc = "server-key" /\ pc' = "csr" /\ force' = force /\ rough' = rough
    BY <2>1, Made DEF Content
  <2>3. ~Has(file, "server-cert")
    BY <1>5, <2>2 DEF MakeServerKey, SkipsServer, Exists
  <2> QED
    BY <2>2, <2>3
<1>6. CASE MakeCsr
  <2>1. /\ \A g \in Files \ {"csr"} : file'[g] = file[g]
        /\ pc = "csr" /\ pc' = "server-cert" /\ force' = force /\ rough' = rough
    BY <1>6, Made, MadeContents DEF MakeCsr, Make
  <2> QED
    BY <2>1
<1>7. CASE MakeServerCert
  <2>1. /\ Has(file', "server-cert") /\ file'["server-cert"] = <<file["csr"], file["ca-key"]>>
        /\ \A g \in Files \ {"server-cert"} : file'[g] = file[g]
        /\ pc = "server-cert" /\ pc' = "bundle" /\ force' = force /\ rough' = rough
    BY <1>7, Made, MadeContents DEF MakeServerCert, Make
  <2>2. /\ Has(file, "ca-key") /\ Has(file, "ca-cert") /\ Has(file, "server-key")
        /\ file["csr"] = file["server-key"]
    BY <2>1 DEF MadeOK
  <2> QED
    BY <2>1, <2>2
<1>8. CASE MakeBundle
  <2>1. /\ Has(file', "bundle") /\ file'["bundle"] = file["ca-cert"]
        /\ \A g \in Files \ {"bundle"} : file'[g] = file[g]
        /\ pc = "bundle" /\ pc' = "done" /\ force' = force
        /\ ~force => rough' = rough
    BY <1>8, Made, MadeContents DEF MakeBundle, Make
  <2>0. CASE force
    <3>1. Consistent(file')
      BY <2>0, <2>1 DEF ProgressOK, Progress
    <3> QED
      BY <2>1, <3>1 DEF Consistent
  <2>2. Has(file, "ca-key") /\ Has(file, "ca-cert")
    BY <2>1 DEF MadeOK
  <2> QED
    BY <2>0, <2>1, <2>2
<1>9. CASE CutShort
  <2>1. pc \in Files /\ pc' = "failed" /\ rough' = rough /\ ~force
    BY <1>9 DEF CutShort, Running
  <2>2. CASE file' = file
    BY <2>1, <2>2
  <2>3. CASE ~Skipping /\ file' = [file EXCEPT ![pc] = Empty]
    <3>1. ~Has(file', pc) /\ \A g \in Files \ {pc} : file'[g] = file[g]
      BY <2>1, <2>3 DEF TypeOK, IsDirectory
    <3>2. pc = "ca-key" => ~Has(file, "ca-cert")
      BY <2>1, <2>3 DEF Skipping, SkipsCa, Exists
    <3>3. pc = "server-key" => ~Has(file, "server-cert")
      BY <2>1, <2>3 DEF Skipping, SkipsServer, Exists
    <3>4. pc = "ca-cert" => ~Has(file, "ca-cert")
      BY <2>1
    <3> QED
      BY <2>1, <3>1, <3>2, <3>3, <3>4
  <2> QED
    BY <1>9, <2>2, <2>3 DEF CutShort
<1>10. CASE Clean
  BY <1>10 DEF Clean, Nothing
<1>11. ASSUME NEW f \in Losable, Lose(f) PROVE CarefulOK'
  <2>1. /\ ~Has(file', f) /\ f \in {"server-cert", "csr", "bundle"} /\ ~rough
        /\ \A g \in Files \ {f} : file'[g] = file[g]
        /\ pc' = "idle" /\ force' = force
    BY <1>11, ChoicesAssumption DEF Lose, Reissuable, TypeOK, IsDirectory
  <2> QED
    BY <2>1
<1>12. CASE UNCHANGED vars
  BY <1>12 DEF vars
<1> QED
  BY <1>1, <1>2, <1>3, <1>4, <1>5, <1>6, <1>7, <1>8, <1>9, <1>10, <1>11, <1>12 DEF Next

\* A run may be cut short anywhere, and any certificate a run can reissue may get lost:
\* unless FORCE was used or a key got lost before, the next run can repair the set.
THEOREM CutShortRuns == Spec => []CutShortIsRepairable
<1> DEFINE IInv == TypeOK /\ MadeOK /\ ProgressOK /\ CarefulOK
<1>1. Init => IInv
  BY InitType DEF Init, MadeOK, ProgressOK, Progress, CarefulOK, Careful, Running, Repairable, Has,
                  Nothing, Files
<1>2. IInv /\ [Next]_vars => IInv'
  BY NextType, ProgressStep, CarefulStep
<1>3. IInv => CutShortIsRepairable
  BY DEF CarefulOK, Careful, CutShortIsRepairable
<1> QED
  BY <1>1, <1>2, <1>3, PTL DEF Spec
=============================================================================
