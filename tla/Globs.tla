------------------------------- MODULE Globs -------------------------------
(***************************************************************************)
(* What a wildcard pattern of a request filter means: "*" stands for any   *)
(* number of runes, "?" for one, anything else for itself.                 *)
(***************************************************************************)
EXTENDS Naturals, Sequences

CONSTANTS
    Star,       \* the token "*"
    Question    \* the token "?"

\* The first k tokens match the first j runes of the text: there is a place
\* where each of them ends.
Aligned(glob, k, text, j) ==
    \E cut \in [0..k -> 0..j]:
        /\ cut[0] = 0 /\ cut[k] = j
        /\ \A n \in 1..k:
              IF glob[n] = Star THEN cut[n - 1] <= cut[n]
              ELSE /\ cut[n] = cut[n - 1] + 1
                   /\ glob[n] \in {Question, text[cut[n]]}

GlobMatches(pattern, text) == Aligned(pattern, Len(pattern), text, Len(text))

IsWildcard(pattern) == \E n \in 1..Len(pattern): pattern[n] \in {Star, Question}
=============================================================================
