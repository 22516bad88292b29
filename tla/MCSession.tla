----------------------------- MODULE MCSession -----------------------------
(* One invocation and two processes of the mock; 1000 is 2, 60 is 2, and u64::MAX 5. *)
EXTENDS Session

Line(cmd, shallow, output, digits, unit) ==
    [cmd |-> cmd, shallow |-> shallow, output |-> output, digits |-> digits, unit |-> unit]

Fetch(digits, unit) == Line("fetch", FALSE, "pretty", digits, unit)

\* Every unit, durations that saturate, that reach past the clock, and that do not parse.
SmallLines ==
    {Fetch(d[1], d[2]) : d \in {<<0, "s">>, <<1, "">>, <<3, "ns">>, <<3, "us">>, <<3, "ms">>,
                                <<1, "m">>, <<3, "m">>, <<2, "h">>,
                                <<6, "s">>, <<1, "other">>}}
    \cup {Line("fetch", FALSE, "json", 1, "s"), Line("watch", FALSE, "pretty", 1, "s"),
          Line("help", FALSE, "pretty", 1, "s")}
    \cup {Line("healthcheck", b, "pretty", 1, "s") : b \in BOOLEAN}

SmallRotations == {0, 3}
OnlyTrue == {<<"true">>}
=============================================================================
