---------------------------- MODULE MCTransform ----------------------------
(***************************************************************************)
(* Transform on texts of at most four characters over a, A (the same case  *)
(* class), b and the mark z, with up to two rules of each kind, and the    *)
(* size thresholds scaled down so that both sides of each are met.         *)
(***************************************************************************)
EXTENDS Transform

MCFold == [c \in {"a", "A", "b", "z"} |-> IF c = "A" THEN "a" ELSE c]

BlockTerms == {<<>>, <<<<"a">>>>, <<<<"b", "b">>, <<"A">>>>, <<<<"a", "b">>, <<"b", "a">>>>,
               <<<<"b", "b">>, <<"a", "a">>, <<"A", "b">>>>}
StripTerms == {<<>>, <<<<"b">>>>, <<<<"z">>>>, <<<<"b", "a">>, <<"a">>>>}
ObfsTerms == {<<>>, <<<<"a", "b">>>>, <<<<"a", "b">>, <<"b", "b">>>>}

MCConfigs ==
    {[rules |-> b \o s \o o, blockEnd |-> Len(b), stripEnd |-> Len(b) + Len(s), fold |-> f]:
        b \in BlockTerms, s \in StripTerms, o \in ObfsTerms, f \in BOOLEAN}

Texts == {<<"a">>, <<"b">>, <<"A", "b">>, <<"b", "b">>, <<"a", "z", "b">>, <<"b", "a", "a", "b">>}

Said(t, r) == [text |-> t, role |-> r, nested |-> <<>>, badNested |-> FALSE,
               signed |-> FALSE, nonEmpty |-> FALSE, max |-> 0]
Plain(leaf) == [encoded |-> FALSE, leaves |-> <<leaf>>, max |-> 0]
Carrier(a, b, m) == [encoded |-> TRUE, leaves |-> <<a, b>>, max |-> m]

Described(t) == {[Said(t, "developer") EXCEPT !.nested = n]: n \in {<<"b">>, <<"A", "b">>, <<"b", "b">>}}
                \cup {[Said(t, "developer") EXCEPT !.badNested = TRUE]}
Constrained(t) == {[Said(t, "user") EXCEPT !.signed = TRUE],
                   [Said(t, "user") EXCEPT !.nonEmpty = TRUE],
                   [Said(t, "user") EXCEPT !.max = 2]}

MCBodies ==
    {<<Plain(Said(t, "user")), Plain(Said(u, "system"))>>: t \in Texts, u \in Texts}
    \cup {<<Plain(Said(u, "user")), Plain(d)>>: d \in UNION {Described(t): t \in Texts},
                                                u \in {<<"A", "b">>, <<"b", "b">>}}
    \cup {<<Plain(c), Plain(Said(<<"b">>, "system"))>>: c \in UNION {Constrained(t): t \in Texts}}
    \cup {<<Carrier(Said(t, "user"), Said(u, "user"), 6), Plain(Said(<<"b">>, "system"))>>:
            t \in Texts, u \in Texts}
=============================================================================
