---------------------------- MODULE MCEventSource ----------------------------
(* Values for TLC: texts with placeholders that have longer, as long, and empty *)
(* values, escaped placeholder symbols, and one that has no end.                *)
EXTENDS EventSource, TLC

Symbol(s) == <<"content", s>>
Text(s) == [i \in DOMAIN s |-> Symbol(s[i])]

MCPlaceholder == Symbol("%")
MCValues == (Text(<<"L">>) :> Text(<<"l", "o", "n", "g", "e", "r">>))
            @@ (Text(<<"N">>) :> Text(<<"x", "y", "z">>)) @@ (Text(<<"E">>) :> <<>>)
MCTexts == {Text(<<"a", "%", "L", "%", "b">>), Text(<<"%", "E", "%", "a", "%", "N", "%">>),
            Text(<<"%", "%", "b", "%">>), Text(<<"%", "L", "%">>)}
==============================================================================
