------------------------------ MODULE FetchX509 ------------------------------
(******************************************************************************)
(* `spire-agent api fetch x509 --write DIR`: what one or several              *)
(* invocations do to the files of one directory (fetch_x509.rs).              *)
(*                                                                            *)
(* An invocation obtains a response (WorkloadCall refines that step), prints  *)
(* it unless --silent, and writes svid.N.pem, svid.N.key and bundle.N.pem     *)
(* for every SVID, one file after the other, each opened with O_TRUNC and     *)
(* then written in place.  No lock, no temporary file, no rename: a second    *)
(* invocation, a failure or a kill can fall between any two of these steps.   *)
(*                                                                            *)
(* A PEM file is the sequence of its PEM blocks, a block being the name of    *)
(* the invocation that wrote it; indices count from 1 (the code from 0).      *)
(******************************************************************************)
EXTENDS Naturals, Sequences

CONSTANTS
    Procs,      \* the invocations that share the directory
    Before,     \* owner of the blocks the directory held before any of them
    Malformed,  \* a DER blob that does not parse as a chain of certificates
    Responses,  \* the responses the Workload API may send
    MaxSvids    \* bound: no response has more SVIDs

Kinds == {"svid", "key", "bundle"}

\* An SVID of a response: the number of certificates in its chain and in its
\* bundle (0 for an empty blob), or Malformed.  A key is one block whatever its
\* bytes are: pem_key only encodes.
Svids == {s \in [Kinds -> Nat \cup {Malformed}] : s["key"] = 1}

ASSUME NamesAssumption == Before \notin Procs /\ Malformed \notin Nat
ASSUME ResponsesAssumption ==
    /\ MaxSvids \in Nat
    /\ \A r \in Responses : r \in Seq(Svids) /\ Len(r) <= MaxSvids

VARIABLES
    path,    \* what --write names: "absent", "dir" or "file"
    text,    \* the blocks of each output file, <<>> if there is none
    mode,    \* its permission bits, "none" if there is no file
    pc,      \* where each invocation is
    args,    \* its --silent and --write
    resp,    \* the response it received
    idx,     \* the SVID it is writing, 0 before the loop of write_svids
    kind,    \* which of the three files of that SVID
    prior,   \* history: how many whole sets the directory held at the start
    wide,    \* history: those of them whose key file the world could read then
    rival    \* history: invocations whose write loops overlapped another's

vars == <<path, text, mode, pc, args, resp, idx, kind, prior, wide, rival>>

Names  == (1..MaxSvids) \X Kinds
Owners == Procs \cup {Before}
Ended  == {"ok", "err", "killed"}
States == {"fetch", "print", "check", "mkdir", "open", "write"} \cup Ended

TypeOK ==
    /\ path \in {"absent", "dir", "file"}
    /\ text \in [Names -> Seq(Owners)]
    /\ mode \in [Names -> {"none", "644", "600"}]
    /\ pc   \in [Procs -> States]
    /\ args \in [Procs -> [silent : BOOLEAN, write : BOOLEAN]]
    /\ resp \in [Procs -> Responses \cup {<<>>}]
    /\ idx  \in [Procs -> 0..(MaxSvids + 1)]
    /\ kind \in [Procs -> Kinds]
    /\ prior \in 0..MaxSvids
    /\ wide \subseteq 1..prior
    /\ rival \subseteq Procs

-----------------------------------------------------------------------------
(* Derived notions                                                          *)

\* parse_cert_chain accepts the blob (an empty one too).
Parses(s, k) == s[k] # Malformed

\* What pem_cert_chain or pem_key makes of file k of SVID i of p's response.
Body(p, i, k) == [j \in 1..resp[p][i][k] |-> p]

\* O_TRUNC; the mutant is an open without it.
BugNoTruncate(old) == old
Truncated(old) == <<>>

\* A write at offset 0 covers what is there; what lies beyond it stays.
Overlay(new, old) == new \o SubSeq(old, Len(new) + 1, Len(old))

\* The mode an open asks for; the mutants forget that a key is private.
BugOneMode(k)    == "644"
BugGroupMode(k)  == IF k = "key" THEN "640" ELSE "644"
ModeOf(k) == IF k = "key" THEN "600" ELSE "644"

\* The path of the current file; the mutant counts from the wrong end.
BugOffByOne(p) == <<idx[p] + 1, kind[p]>>
Target(p) == <<idx[p], kind[p]>>

Writing(p) == pc[p] \in {"open", "write"}

\* Invocation p is past file k of SVID i.
Preceding == [k \in Kinds |-> CASE k = "svid"   -> {}
                              [] k = "key"    -> {"svid"}
                              [] k = "bundle" -> {"svid", "key"}]
Written(p, i, k) == i < idx[p] \/ (i = idx[p] /\ k \in Preceding[kind[p]])

-----------------------------------------------------------------------------
\* The directory may hold whole sets of an earlier run, each key with the mode
\* this program gives it or with a wider one (copied there, or chmod).
PriorText == <<Before, Before>>

Init ==
    /\ prior \in 0..MaxSvids
    /\ text = [f \in Names |-> IF f[1] <= prior THEN PriorText ELSE <<>>]
    /\ wide \in SUBSET (1..prior)
    /\ mode = [f \in Names |-> IF f[1] > prior THEN "none"
                               ELSE IF f[2] = "key" /\ f[1] \notin wide THEN "600" ELSE "644"]
    /\ path \in IF prior = 0 THEN {"absent", "dir", "file"} ELSE {"dir"}
    /\ pc = [p \in Procs |-> "fetch"]
    /\ args \in [Procs -> [silent : BOOLEAN, write : BOOLEAN]]
    /\ resp = [p \in Procs |-> <<>>]
    /\ idx  = [p \in Procs |-> 0]
    /\ kind = [p \in Procs |-> "svid"]
    /\ rival = {}

Goto(p, s) == pc' = [pc EXCEPT ![p] = s]

\* connect, the call or the first message failed or timed out: exit code 1.
FetchFails(p) ==
    /\ pc[p] = "fetch"
    /\ Goto(p, "err")
    /\ UNCHANGED <<path, text, mode, args, resp, idx, kind, prior, wide, rival>>

\* The first message of the stream; what follows depends on the flags.
FetchReturns(p) ==
    /\ pc[p] = "fetch"
    /\ \E r \in Responses : resp' = [resp EXCEPT ![p] = r]
    /\ Goto(p, IF ~args[p].silent THEN "print"
               ELSE IF args[p].write THEN "check" ELSE "ok")
    /\ UNCHANGED <<path, text, mode, args, idx, kind, prior, wide, rival>>

\* print_svids parses the chain and the bundle of every SVID before it returns.
BugChainOnly(s) == Parses(s, "svid")
Printable(s) == Parses(s, "svid") /\ Parses(s, "bundle")

PrintSvids(p) ==
    /\ pc[p] = "print"
    /\ Goto(p, IF \E i \in 1..Len(resp[p]) : ~Printable(resp[p][i]) THEN "err"
               ELSE IF args[p].write THEN "check" ELSE "ok")
    /\ UNCHANGED <<path, text, mode, args, resp, idx, kind, prior, wide, rival>>

CheckDir(p) ==
    /\ pc[p] = "check"
    /\ Goto(p, IF path = "file" THEN "err" ELSE "mkdir")
    /\ UNCHANGED <<path, text, mode, args, resp, idx, kind, prior, wide, rival>>

\* create_dir_all, then the loop of write_svids, empty for an empty response.
CreateDir(p) ==
    /\ pc[p] = "mkdir"
    /\ path # "file"
    /\ path' = "dir"
    /\ Goto(p, IF resp[p] = <<>> THEN "ok" ELSE "open")
    /\ idx' = [idx EXCEPT ![p] = 1]
    /\ LET others == {q \in Procs \ {p} : Writing(q)}
       IN  rival' = IF resp[p] = <<>> \/ others = {} THEN rival
                    ELSE rival \cup others \cup {p}
    /\ UNCHANGED <<text, mode, args, resp, kind, prior, wide>>

CreateDirFails(p) ==
    /\ pc[p] = "mkdir"
    /\ path # "dir"
    /\ Goto(p, "err")
    /\ UNCHANGED <<path, text, mode, args, resp, idx, kind, prior, wide, rival>>

\* pem_cert_chain fails on the blob of the current file: the files of this SVID
\* and of the ones before it that are already written stay.
\* The mutant skips the blob and goes on.
BugSkipBlob(p) ==
    /\ pc[p] = "open"
    /\ kind[p] = "svid"
    /\ ~Parses(resp[p][idx[p]], kind[p])
    /\ kind' = [kind EXCEPT ![p] = "key"]
    /\ UNCHANGED <<path, text, mode, pc, args, resp, idx, prior, wide, rival>>

EncodeFails(p) ==
    /\ pc[p] = "open"
    /\ ~Parses(resp[p][idx[p]], kind[p])
    /\ Goto(p, "err")
    /\ UNCHANGED <<path, text, mode, args, resp, idx, kind, prior, wide, rival>>

\* open(O_CREAT | O_WRONLY | O_TRUNC, mode): the mode counts only for a file
\* that this very call creates.
OpenFile(p) ==
    /\ pc[p] = "open"
    /\ Parses(resp[p][idx[p]], kind[p])
    /\ text' = [text EXCEPT ![Target(p)] = Truncated(@)]
    /\ mode' = [mode EXCEPT ![Target(p)] = IF @ = "none" THEN ModeOf(kind[p]) ELSE @]
    /\ Goto(p, "write")
    /\ UNCHANGED <<path, args, resp, idx, kind, prior, wide, rival>>

OpenFails(p) ==
    /\ pc[p] = "open"
    /\ Parses(resp[p][idx[p]], kind[p])
    /\ Goto(p, "err")
    /\ UNCHANGED <<path, text, mode, args, resp, idx, kind, prior, wide, rival>>

\* write_all at this descriptor's own offset 0, then on to the next file.
WriteFile(p) ==
    /\ pc[p] = "write"
    /\ text' = [text EXCEPT ![Target(p)] = Overlay(Body(p, idx[p], kind[p]), @)]
    /\ IF kind[p] = "bundle"
         THEN /\ idx'  = [idx EXCEPT ![p] = @ + 1]
              /\ kind' = [kind EXCEPT ![p] = "svid"]
              /\ Goto(p, IF idx[p] = Len(resp[p]) THEN "ok" ELSE "open")
         ELSE /\ kind' = [kind EXCEPT ![p] = IF @ = "svid" THEN "key" ELSE "bundle"]
              /\ Goto(p, "open")
              /\ UNCHANGED idx
    /\ UNCHANGED <<path, mode, args, resp, prior, wide, rival>>

\* write_all stops short (disk full, I/O error) after some of the blocks.
\* The mutant tries the file again instead of giving up.
BugRetry(p) ==
    /\ pc[p] = "write"
    /\ Goto(p, "open")
    /\ UNCHANGED <<path, text, mode, args, resp, idx, kind, prior, wide, rival>>

WriteFails(p) ==
    /\ pc[p] = "write"
    /\ LET body == Body(p, idx[p], kind[p])
       IN  \E n \in 0..Len(body) :
              /\ n < Len(body)
              /\ text' = [text EXCEPT ![Target(p)] = Overlay(SubSeq(body, 1, n), @)]
    /\ Goto(p, "err")
    /\ UNCHANGED <<path, mode, args, resp, idx, kind, prior, wide, rival>>

\* A signal, or the panic of a println! whose pipe is closed, between two steps.
Kill(p) ==
    /\ pc[p] \notin Ended
    /\ Goto(p, "killed")
    /\ UNCHANGED <<path, text, mode, args, resp, idx, kind, prior, wide, rival>>

Run(p) ==
    \/ FetchFails(p) \/ FetchReturns(p) \/ PrintSvids(p)
    \/ CheckDir(p) \/ CreateDir(p) \/ CreateDirFails(p)
    \/ EncodeFails(p) \/ OpenFile(p) \/ OpenFails(p)
    \/ WriteFile(p) \/ WriteFails(p)

Next == \E p \in Procs : Run(p) \/ Kill(p)

Spec     == Init /\ [][Next]_vars
FairSpec == Spec /\ \A p \in Procs : WF_vars(Run(p))

-----------------------------------------------------------------------------
(* Properties                                                               *)

\* Index i holds the three files that were there before; those of p's response.
HoldsPrior(i) == \A k \in Kinds : text[<<i, k>>] = PriorText
HoldsWhole(p, i) ==
    /\ i <= Len(resp[p])
    /\ \A k \in Kinds : Parses(resp[p][i], k) /\ text[<<i, k>>] = Body(p, i, k)

\* Index i holds one set: nothing, what was there before, or one response's.
WholeSet(i) ==
    \/ \A k \in Kinds : mode[<<i, k>>] = "none"
    \/ HoldsPrior(i)
    \/ \E p \in Procs : HoldsWhole(p, i)

\* A set of files that mixes two origins (a new chain beside the old key, or a
\* bundle with the tail of another) is always the work of an invocation that is
\* at that index now or stopped there without exit code 0, or of one whose loop
\* overlapped another's and got at least as far (write_svids).
MixedSetExplained ==
    \A i \in 1..MaxSvids :
        \/ WholeSet(i)
        \/ \E p \in Procs : \/ idx[p] = i /\ pc[p] # "ok"
                            \/ idx[p] >= i /\ p \in rival

\* An invocation that prints never reaches the disk with a response it cannot
\* encode: print_svids parses the very blobs that pem_cert_chain parses later.
\* Only a --silent one can leave a set half-written because of a bad blob.
BadBlobStopsBeforeDisk ==
    \A p \in Procs :
        ~args[p].silent /\ idx[p] > 0 =>
            \A i \in 1..Len(resp[p]), k \in Kinds : Parses(resp[p][i], k)

\* Indices that no response covers keep what they had: nothing is written beyond
\* the response, and nothing stale is removed when the new one is shorter.
UncoveredSetsStay ==
    \A i \in 1..MaxSvids :
        (\A p \in Procs : i > Len(resp[p])) =>
            \A k \in Kinds : /\ text[<<i, k>>] = IF i <= prior THEN PriorText ELSE <<>>
                             /\ (mode[<<i, k>>] = "none") = (i > prior)

\* The world can read exactly those private keys that it could read before any
\* invocation: no race, failure or kill opens a key up, old or new (the mode goes
\* with the very open that creates the file), and none of them closes a wide one,
\* so that the new key of a file that was wide is as exposed as the old one.
WideKeysArePrior ==
    {i \in 1..MaxSvids : mode[<<i, "key">>] = "644"} = wide

\* An invocation that exits with code 0 from its write loop, and met no other
\* there, leaves every file of its response complete and its own.
SoloRunPublishes ==
    [][\A p \in Procs :
         Writing(p) /\ pc'[p] = "ok" /\ p \notin rival =>
            \A i \in 1..Len(resp[p]), k \in Kinds :
                /\ mode'[<<i, k>>] # "none"
                /\ text'[<<i, k>>] = Body(p, i, k)]_vars

\* The directory as sets of files, and the invocations as their publishers.
Whole(i) == (IF HoldsPrior(i) THEN {Before} ELSE {}) \cup {p \in Procs : HoldsWhole(p, i)}
Place(p) == IF Writing(p) THEN "busy"
            ELSE IF pc[p] = "ok" THEN "ok" ELSE IF pc[p] \in Ended THEN "failed" ELSE "idle"
Todo(p)  == IF idx[p] = 0 THEN {} ELSE idx[p]..Len(resp[p])

Publish == INSTANCE Publish WITH
    whole <- [i \in 1..MaxSvids |-> Whole(i)],
    place <- [p \in Procs |-> Place(p)],
    todo  <- [p \in Procs |-> Todo(p)]

\* The truncating opens and in-place writes of write_svids amount to publishing whole
\* sets in order: at every moment an index is one owner's or is known to be spoiled, no
\* step touches an index but the current one, a set that nobody disputed is the
\* invocation's own when it goes on to the next, and nothing brings old files back.
ImplementsPublish == Publish!Spec

\* Every invocation ends, whatever fails and whoever it shares the directory with.
EveryRunEnds == \A p \in Procs : <>(pc[p] \in Ended)
=============================================================================
