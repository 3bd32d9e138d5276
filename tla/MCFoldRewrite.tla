--------------------------- MODULE MCFoldRewrite ---------------------------
(***************************************************************************)
(* FoldRewrite over a, A (one case class) and b: all terms of up to five   *)
(* keys on all texts of up to seven characters from a and b, and some with *)
(* A.  Terms of one key and texts below five characters take the plain     *)
(* search, everything else the failure table.                              *)
(***************************************************************************)
EXTENDS FoldRewrite

MCChars == {"a", "A", "b", "."}
MCFold == [c \in MCChars |-> IF c = "A" THEN "a" ELSE c]

Strings(S, n) == [1..n -> S]
MCPatterns == UNION {Strings({"a", "b"}, n): n \in 1..5}
MCTexts ==
    UNION {Strings({"a", "b"}, n): n \in {0, 4, 7}}
    \cup {<<"A", "a", "A", "a", "b", "A">>, <<"b", "A", "b", "a", "b", "b">>}
=============================================================================
