---------------------------- MODULE MCBodyRebuild ----------------------------
(***************************************************************************)
(* All byte strings of up to five brackets, quotes and backslashes for the *)
(* guard; for the rebuild, bodies with up to two texts or carriers, one of *)
(* them written with an escape the encoder would not use, the nested       *)
(* description of a tool before or behind its own, next to it or with the  *)
(* other token in between, and two tools with theirs in either order.      *)
(***************************************************************************)
EXTENDS BodyRebuild

Raw(raw) == Segment("raw", raw, <<>>, <<>>)
Text(text) == Segment("text", Encode(text), text, <<>>)
Spelled(text) == Segment("text", <<Quote, Escape, "u", Quote>>, text, <<>>)
Tool(segment, n) == [segment EXCEPT !.kind = "tool", !.tool = n]
Nested(n) == [Text(<<"b">>) EXCEPT !.kind = "nested", !.tool = n]

Strings == UNION {[1..n -> {"{", "}", "[", "]", Quote, Escape}]: n \in 0..5}

MCByte == {"{", "}", "[", "]", ",", Quote, Escape, "a", "b", "u"}

A == <<"a">>
Held == {Text(A), Spelled(A), Text(<<Quote, "b">>),
         Carrier(<<Raw(<<"[">>), Text(A), Raw(<<",">>), Spelled(<<Escape>>), Raw(<<"]">>)>>),
         Carrier(<<Raw(<<"[", "]">>)>>)}

Listed(tokens) ==
    <<Raw(<<"{">>)>>
    \o FlattenSeq([i \in DOMAIN tokens |->
          IF i = 1 THEN <<tokens[i]>> ELSE <<Raw(<<",">>), tokens[i]>>])
    \o <<Raw(<<"}">>)>>

MCDocuments ==
    {<<Raw(s)>>: s \in Strings}
    \cup {Listed(<<x, y>>): x \in Held, y \in Held}
    \cup UNION {{Listed(<<x, n, y>>), Listed(<<n, x, y>>), Listed(<<x, y, n>>), Listed(<<n, y, x>>)}:
                    x \in {Tool(Text(A), 1), Tool(Spelled(A), 1)}, n \in {Nested(1)}, y \in Held}
    \cup {Listed(<<Tool(Text(A), 1), Tool(Spelled(A), 2), Nested(n), Nested(3 - n)>>): n \in {1, 2}}

MCNewTexts == {A, <<>>, <<"b", Quote>>}
=============================================================================
