-------------------------- MODULE LeftmostRewrite --------------------------
(***************************************************************************)
(* What strip and obfs promise for one term and one text: the leftmost     *)
(* occurrence that does not reach into the one before is replaced, again   *)
(* and again, once through the text.  No search, no failure links.         *)
(***************************************************************************)
EXTENDS Naturals, Sequences

CONSTANTS
    Chars, FoldClass,   \* the characters and the case class of each
    Mark                \* the character obfs inserts

VARIABLES
    pattern,    \* the case classes of the term
    text,       \* the text
    obfuscate,  \* TRUE: mark the occurrence; FALSE: remove it
    written,    \* how much of the text out accounts for
    out,        \* the new text so far
    done

rvars == <<pattern, text, obfuscate, written, out, done>>

\* The term stands after the first n characters of the text.
TermAt(n) ==
    /\ n + Len(pattern) <= Len(text)
    /\ \A k \in 1..Len(pattern): FoldClass[text[n + k]] = pattern[k]

\* The text of an occurrence after rewriting: its own first character, the mark
\* and the rest of it, or nothing.
Replacement(n) ==
    IF obfuscate
    THEN <<text[n + 1], Mark>> \o SubSeq(text, n + 2, n + Len(pattern))
    ELSE <<>>

Init ==
    /\ pattern \in Seq(Chars) \ {<<>>}
    /\ text \in Seq(Chars)
    /\ obfuscate \in BOOLEAN
    /\ written = 0 /\ out = <<>> /\ done = FALSE

Replace ==
    /\ ~done
    /\ \E n \in written..Len(text):
          /\ TermAt(n)
          /\ \A earlier \in written..(n - 1): ~TermAt(earlier)
          /\ out' = out \o SubSeq(text, written + 1, n) \o Replacement(n)
          /\ written' = n + Len(pattern)
    /\ UNCHANGED <<pattern, text, obfuscate, done>>

Finish ==
    /\ ~done
    /\ \A n \in written..Len(text): ~TermAt(n)
    /\ out' = out \o SubSeq(text, written + 1, Len(text))
    /\ done' = TRUE
    /\ UNCHANGED <<pattern, text, obfuscate, written>>

Next == Replace \/ Finish

Spec == Init /\ [][Next]_rvars
=============================================================================
