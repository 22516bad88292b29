---------------------------- MODULE GenerateCerts ----------------------------
(******************************************************************************)
(* `make certs`: sandbox/scripts/generate-certs.sh, run again and again over  *)
(* one directory.  The script decides what to skip file by file, by asking    *)
(* whether a file exists and is not empty; it never asks whether the files    *)
(* belong together.  Any run can be cut short (set -e on a failing openssl,   *)
(* Ctrl-C), and between two runs files can get lost.                          *)
(*                                                                            *)
(* A key file and a certificate request hold a key; a certificate is a pair   *)
(* <<key it certifies, key that signed it>>.                                  *)
(******************************************************************************)

CONSTANTS
    Absent, Empty,  \* no file; a file of no bytes
    Keys,           \* bound: the keys openssl generates over all runs
    Forces,         \* the values FORCE takes: TRUE is FORCE=1
    Losable         \* the files that may get lost between two runs

Files == {"ca-key", "ca-cert", "server-key", "csr", "server-cert", "bundle"}
Certs == Keys \X Keys

ASSUME SentinelsAssumption == /\ Absent # Empty
                              /\ {Absent, Empty} \cap (Keys \cup Certs) = {}
                              /\ Keys \cap Certs = {}
ASSUME ChoicesAssumption == Forces \subseteq BOOLEAN /\ Losable \subseteq Files

VARIABLES
    file,   \* the directory
    pc,     \* the file the run makes next; "idle", "done" or "failed"
    force,  \* FORCE of the run
    used,   \* the keys openssl has generated so far
    begun,  \* history: the directory when the run began
    rough   \* history: FORCE was used, or a file got lost that a run cannot reissue,
            \* since the last clean or the last forced run that came to its end

vars == <<file, pc, force, used, begun, rough>>

\* The files whose loss leaves behind nothing that a half-finished run could mismatch.
Reissuable == {"server-cert", "csr", "bundle"}

Nothing == [f \in Files |-> Absent]

\* What a file holds once a run has made it.
Content(f) == IF f \in {"ca-key", "server-key", "csr"} THEN Keys ELSE Certs

IsDirectory(d) ==
    /\ d \in [Files -> Keys \cup Certs \cup {Absent, Empty}]
    /\ \A f \in Files : d[f] \in Content(f) \cup {Absent, Empty}

TypeOK ==
    /\ IsDirectory(file) /\ IsDirectory(begun)
    /\ pc \in Files \cup {"idle", "done", "failed"}
    /\ force \in BOOLEAN
    /\ rough \in BOOLEAN
    /\ used \subseteq Keys

-----------------------------------------------------------------------------
\* file_exists: there, and not empty.
Exists(f) == file[f] \notin {Absent, Empty}

Running == pc \in Files

\* The groups that a run without FORCE takes as they are.  The mutants make the CA
\* anew every time, and take a key for a whole group.
BugNeverSkips  == FALSE
BugKeyIsEnough == ~force /\ Exists("server-key")
SkipsCa     == ~force /\ Exists("ca-key") /\ Exists("ca-cert")
SkipsServer == ~force /\ Exists("server-key") /\ Exists("server-cert")
SkipsBundle == ~force /\ Exists("bundle")

Init ==
    /\ file = Nothing
    /\ begun = Nothing
    /\ pc = "idle"
    /\ force = FALSE
    /\ rough = FALSE
    /\ used = {}

Begin ==
    /\ ~Running
    /\ pc' = "ca-key"
    /\ force' \in Forces
    /\ begun' = file
    /\ rough' = (rough \/ force')
    /\ UNCHANGED <<file, used>>

\* openssl writes its output and the run goes on to the next file.
Make(f, content, next) ==
    /\ pc = f
    /\ file' = [file EXCEPT ![f] = content]
    /\ pc' = next
    /\ rough' = (rough /\ ~(force /\ next = "done"))
    /\ UNCHANGED <<force, begun>>

Skip(f, next) ==
    /\ pc = f
    /\ pc' = next
    /\ UNCHANGED <<file, force, used, begun, rough>>

\* openssl genpkey: a key no run has had before.
MakeKey(f, next) ==
    \E k \in Keys \ used : Make(f, k, next) /\ used' = used \cup {k}

SkipCa    == SkipsCa /\ Skip("ca-key", "server-key")
MakeCaKey == ~SkipsCa /\ MakeKey("ca-key", "ca-cert")

\* Self-signed with the key of the step before.
MakeCaCert ==
    /\ Make("ca-cert", <<file["ca-key"], file["ca-key"]>>, "server-key")
    /\ UNCHANGED used

SkipServer    == SkipsServer /\ Skip("server-key", "bundle")
MakeServerKey == ~SkipsServer /\ MakeKey("server-key", "csr")
MakeCsr       == Make("csr", file["server-key"], "server-cert") /\ UNCHANGED used

\* openssl x509 refuses a CA certificate and a CA key that do not match.
CaMatches == file["ca-cert"] = <<file["ca-key"], file["ca-key"]>>

MakeServerCert ==
    /\ CaMatches
    /\ Make("server-cert", <<file["csr"], file["ca-key"]>>, "bundle")
    /\ UNCHANGED used

SkipBundle == SkipsBundle /\ Skip("bundle", "done")

\* cp of the CA certificate; the mutant copies the key.
BugCopiesKey ==
    /\ ~SkipsBundle
    /\ Make("bundle", file["ca-key"], "done")
    /\ UNCHANGED used
MakeBundle ==
    /\ ~SkipsBundle
    /\ Exists("ca-cert")
    /\ Make("bundle", file["ca-cert"], "done")
    /\ UNCHANGED used

\* Cut short at any step: set -e on a failed command, or a signal.  The file that
\* was being made is what it was or, truncated by its open, empty.
Skipping == \/ pc = "ca-key" /\ SkipsCa
            \/ pc = "server-key" /\ SkipsServer
            \/ pc = "bundle" /\ SkipsBundle
CutShort ==
    /\ Running
    /\ pc' = "failed"
    /\ \/ UNCHANGED file
       \/ ~Skipping /\ file' = [file EXCEPT ![pc] = Empty]
    /\ UNCHANGED <<force, used, begun, rough>>

\* Between two runs: `make clean`, or one file gets lost.
Clean ==
    /\ ~Running
    /\ file' = Nothing
    /\ pc' = "idle"
    /\ rough' = FALSE
    /\ UNCHANGED <<force, used, begun>>

Lose(f) ==
    /\ ~Running
    /\ file[f] # Absent
    /\ file' = [file EXCEPT ![f] = Absent]
    /\ pc' = "idle"
    /\ rough' = (rough \/ f \notin Reissuable)
    /\ UNCHANGED <<force, used, begun>>

Next ==
    \/ Begin \/ SkipCa \/ MakeCaKey \/ MakeCaCert
    \/ SkipServer \/ MakeServerKey \/ MakeCsr \/ MakeServerCert
    \/ SkipBundle \/ MakeBundle
    \/ CutShort \/ Clean
    \/ \E f \in Losable : Lose(f)

Spec == Init /\ [][Next]_vars

-----------------------------------------------------------------------------
(* Properties                                                               *)

Has(d, f) == d[f] \notin {Absent, Empty}

\* Directory d holds one CA, one server certificate of that CA, and its bundle.
Consistent(d) ==
    /\ \A f \in Files \ {"csr"} : Has(d, f)
    /\ d["ca-cert"] = <<d["ca-key"], d["ca-key"]>>
    /\ d["server-cert"] = <<d["server-key"], d["ca-key"]>>
    /\ d["bundle"] = d["ca-cert"]

\* What the script would skip fits together, and fits the CA it would keep.
Repairable(d) ==
    LET keepsCa == Has(d, "ca-key") /\ Has(d, "ca-cert")
    IN  /\ keepsCa => d["ca-cert"] = <<d["ca-key"], d["ca-key"]>>
        /\ Has(d, "server-key") /\ Has(d, "server-cert") =>
              keepsCa /\ d["server-cert"] = <<d["server-key"], d["ca-key"]>>
        /\ Has(d, "bundle") => keepsCa /\ d["bundle"] = d["ca-cert"]

\* A run that ends with code 0 leaves a consistent set if it was forced, or if
\* what it found fits together: whatever earlier runs left undone is repaired.
DoneConsistent == pc = "done" /\ (force \/ Repairable(begun)) => Consistent(file)

\* A plain run may be cut short anywhere, and certificates that a run can reissue may
\* get lost: the next run can always repair the set.  It takes FORCE, or the loss of a
\* key or of the CA, to make a directory that plain runs never mend; a forced run that
\* comes to its end, or `make clean`, makes up for it.
CutShortIsRepairable == ~Running /\ ~rough => Repairable(file)

\* A run without FORCE touches no file of a set that is already consistent.
RerunIsIdempotent == [][Running /\ ~force /\ Consistent(begun) => UNCHANGED file]_vars

\* generate-certs.sh:115 "Certificate generation complete!", printed by every run
\* that ends with code 0: the files it lists after that line fit together.
CompleteMeansConsistent == pc = "done" => Consistent(file)

\* README.md:48 "If you need to rotate certificates, re-run `make certs` [...]": a
\* run over a consistent set replaces its CA key.
RerunRotates == pc = "done" /\ Consistent(begun) => file["ca-key"] # begun["ca-key"]
=============================================================================
