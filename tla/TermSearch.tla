----------------------------- MODULE TermSearch -----------------------------
(***************************************************************************)
(* What it means that a term occurs in a text and that a rule rewrites it  *)
(* (matcher.go), as far as the results of the searches go: their           *)
(* algorithms are RuleMatcher and FoldRewrite.  A text and a term are      *)
(* sequences of characters, c a record with a field fold (ignore_case).    *)
(***************************************************************************)
EXTENDS Integers, Sequences, FiniteSets, SequencesExt

CONSTANT FoldClass     \* foldClassRune: each character to its case class

Chars == DOMAIN FoldClass
Text == Seq(Chars)

SameChar(c, x, y) == IF c.fold THEN FoldClass[x] = FoldClass[y] ELSE x = y

TermAt(c, text, term, i) ==
    /\ i + Len(term) - 1 <= Len(text)
    /\ \A k \in 1..Len(term): SameChar(c, text[i + k - 1], term[k])

Occurs(c, text, term) == \E i \in 1..Len(text): TermAt(c, text, term, i)

\* The leftmost non-overlapping occurrences: one starts where the term stands
\* unless the previous one reaches into it.
Starts(c, text, term) ==
    LET upto[n \in 0..Len(text)] ==
            IF n = 0 THEN {}
            ELSE IF TermAt(c, text, term, n) /\ \A j \in upto[n - 1]: j + Len(term) <= n
                 THEN upto[n - 1] \cup {n}
                 ELSE upto[n - 1]
    IN  upto[Len(text)]

Stripped(c, text, term) ==
    LET cut == {i + k: i \in Starts(c, text, term), k \in 0..(Len(term) - 1)}
    IN  FlattenSeq([i \in 1..Len(text) |-> IF i \in cut THEN <<>> ELSE <<text[i]>>])

\* The mark goes behind the first character of every occurrence.
MarkedWith(c, text, term, mark) ==
    LET at == Starts(c, text, term)
    IN  FlattenSeq([i \in 1..Len(text) |-> IF i \in at THEN <<text[i], mark>>
                                                      ELSE <<text[i]>>])
=============================================================================
