---------------------------- MODULE MCGlobMatch ----------------------------
(***************************************************************************)
(* GlobMatch with words of two bits: all patterns of up to four tokens on  *)
(* all values of up to four runes, and some that fill three words, with    *)
(* runs of stars across the border of words; literals take either form.    *)
(***************************************************************************)
EXTENDS GlobMatch

Strings(S, n) == [1..n -> S]
Up(S, n) == UNION {Strings(S, m): m \in 0..n}

MCPatterns ==
    Up({"a", "b", "*", "?"}, 4)
    \cup {<<"a", "*", "*", "*", "a">>, <<"*", "*", "a", "?", "*">>,
          <<"a", "?", "b", "*", "a">>, <<"*", "a", "*", "b", "*">>}
MCValues == Up({"a", "b"}, 4)
=============================================================================
