---------------------------- MODULE MCFetchX509 ----------------------------
(* Two invocations on one directory, responses of up to two SVIDs.          *)
EXTENDS FetchX509

Svid(chain, bundle) ==
    [k \in Kinds |-> CASE k = "svid" -> chain [] k = "key" -> 1 [] k = "bundle" -> bundle]

\* No SVID; one with a long chain and an empty bundle; two; a bad bundle; a bad
\* chain after a good SVID.
SmallResponses ==
    { <<>>,
      <<Svid(3, 0)>>,
      <<Svid(2, 1), Svid(1, 1)>>,
      <<Svid(1, Malformed)>>,
      <<Svid(1, 1), Svid(Malformed, 1)>> }
=============================================================================
