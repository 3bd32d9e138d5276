--------------------------- MODULE MCRuleMatcher ---------------------------
(***************************************************************************)
(* RuleMatcher over a, A (one case class) and b: all pairs of terms of up  *)
(* to three keys and some lists of three and four with terms inside and at *)
(* the end of one another, on all texts of five characters from a and b    *)
(* and some with A.                                                        *)
(***************************************************************************)
EXTENDS RuleMatcher

MCChars == {"a", "A", "b"}
MCFold == [c \in MCChars |-> IF c = "A" THEN "a" ELSE c]

Strings(S, n) == [1..n -> S]
Terms == UNION {Strings({"a", "b"}, n): n \in 1..3}

MCRuleLists ==
    {<<s, t>>: s \in Terms, t \in Terms}
    \cup {<<<<"b", "a", "b">>, <<"a", "b", "a", "a">>, <<"b", "a">>, <<"a">>>>,
          <<<<"A", "a", "b", "b">>, <<"a", "b", "b">>, <<"b", "b">>>>,
          <<<<"b", "b">>, <<"A", "b", "b">>, <<"a", "b", "b">>, <<"b">>>>}

MCTexts == Strings({"a", "b"}, 5) \cup {<<"A", "b", "A">>, <<"b", "A", "a", "b">>, <<>>}
=============================================================================
