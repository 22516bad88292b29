---------------------------- MODULE MCMockAgent ----------------------------
(* Values of the constants of MockAgent for TLC. *)
EXTENDS MockAgent, TLC

\* No interval, and one shorter than, equal to and longer than the TTL of 2.
SmallRotations == {0, 1, 2, 3}
OneRotation == {1}

\* Accepted, missing, duplicated, wrong, and accepted beside a value nobody reads.
SmallHeaders == {<<"true">>, <<>>, <<"true", "true">>, <<"false">>, <<"opaque", "true">>}

\* Processes are interchangeable, and so are calls, in the safety properties.
Interchangeable == Permutations(Agents) \cup Permutations(Calls)
=============================================================================
