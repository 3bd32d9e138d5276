---------------------------- MODULE FoldRewrite ----------------------------
(***************************************************************************)
(* Rewriting a text for one case-insensitive rule (matcher.go): the        *)
(* failure table of the term, the search that uses it (rewriteFoldedKMP)   *)
(* and the plain search for short terms and short texts (rewriteFolded).   *)
(*                                                                         *)
(* Positions count characters, not bytes: failure[k] is FoldFailure[k - 1],*)
(* the entry for the first k characters of the term.  The pattern holds    *)
(* case classes (compileSnapshot folds the runes of the term).             *)
(***************************************************************************)
EXTENDS Naturals, Sequences

CONSTANTS
    Chars,      \* the characters of texts
    FoldClass,  \* foldClassRune: the case class of each of them
    Mark,       \* the character obfs inserts (obfs.char)
    Patterns,   \* the terms of the instance, folded
    Texts,      \* the texts of the instance
    MinPattern, \* foldKMPMinPatternScalars
    MinText     \* foldKMPMinTextBytes, in characters

ASSUME FoldRewriteAssumption ==
    /\ FoldClass \in [Chars -> Chars]
    /\ Patterns \subseteq Seq(Chars) \ {<<>>}
    /\ Texts \subseteq Seq(Chars)
    /\ MinPattern \in Nat /\ MinText \in Nat

VARIABLES
    pattern,    \* rule.Runes
    failure,    \* rule.FoldFailure
    i,          \* the prefix of the pattern whose entry is computed
    prefix,     \* its candidate border
    text,
    obfuscate,  \* obfs, else strip
    scan,       \* how many characters the search has consumed
    state,      \* how many characters of the pattern end there
    written,    \* how many characters of the text out accounts for
    out,
    pc

table == <<pattern, failure, i, prefix>>
input == <<text, obfuscate>>
search == <<scan, state, written, out>>
vars == <<table, input, search, pc>>

Init ==
    /\ pattern \in Patterns
    /\ failure = [k \in 1..Len(pattern) |-> 0]
    /\ i = 2 /\ prefix = 0
    /\ text \in Texts
    /\ obfuscate \in BOOLEAN
    /\ scan = 0 /\ state = 0 /\ written = 0 /\ out = <<>>
    /\ pc = "compile"

-----------------------------------------------------------------------------
(* buildFoldFailure. *)

\* Mutants: the candidate shrinks by one, or to the entry after its own.
ShrinkByOne(k) == k - 1
WrongEntry(k) == failure[k + 1]
NextBorder(k) == failure[k]

TableFallBack ==
    /\ pc = "compile" /\ i <= Len(pattern)
    /\ prefix > 0 /\ pattern[i] # pattern[prefix + 1]
    /\ prefix' = NextBorder(prefix)
    /\ UNCHANGED <<pattern, failure, i, input, search, pc>>

TableStep ==
    /\ pc = "compile" /\ i <= Len(pattern)
    /\ prefix = 0 \/ pattern[i] = pattern[prefix + 1]
    /\ LET border == IF pattern[i] = pattern[prefix + 1] THEN prefix + 1 ELSE prefix
       IN  /\ prefix' = border
           /\ failure' = [failure EXCEPT ![i] = border]
    /\ i' = i + 1
    /\ UNCHANGED <<pattern, input, search, pc>>

\* The table is complete; the search is chosen by the sizes.
Dispatch ==
    /\ pc = "compile" /\ i > Len(pattern)
    /\ pc' = IF Len(pattern) >= MinPattern /\ Len(text) >= MinText THEN "kmp" ELSE "naive"
    /\ UNCHANGED <<table, input, search>>

-----------------------------------------------------------------------------
(* Output. *)

\* The occurrence that starts after n characters is written to the output.
Rewrite(n) ==
    LET m == Len(pattern)
        kept == IF obfuscate
                THEN <<text[n + 1], Mark>> \o SubSeq(text, n + 2, n + m)
                ELSE <<>>
    IN  out \o SubSeq(text, written + 1, n) \o kept

Rest == out \o SubSeq(text, written + 1, Len(text))

-----------------------------------------------------------------------------
(* rewriteFoldedKMP. *)

NextKey == FoldClass[text[scan + 1]]

\* Mutant: a mismatch starts over.
Restart(k) == 0
ShorterState(k) == failure[k]

KmpFallBack ==
    /\ pc = "kmp" /\ scan < Len(text)
    /\ state > 0 /\ NextKey # pattern[state + 1]
    /\ state' = ShorterState(state)
    /\ UNCHANGED <<table, input, scan, written, out, pc>>

\* Mutants: after an occurrence the search goes on from its border, or is not
\* reset.
OverlappingState == failure[Len(pattern)]
NotReset == Len(pattern)
StateAfterMatch == 0

\* A character is consumed; a complete occurrence is rewritten and the search
\* starts over behind it.
KmpStep ==
    /\ pc = "kmp" /\ scan < Len(text)
    /\ state = 0 \/ NextKey = pattern[state + 1]
    /\ scan' = scan + 1
    /\ LET reached == IF NextKey = pattern[state + 1] THEN state + 1 ELSE state
       IN  IF reached = Len(pattern)
           THEN /\ out' = Rewrite(scan + 1 - Len(pattern))
                /\ written' = scan + 1
                /\ state' = StateAfterMatch
           ELSE state' = reached /\ UNCHANGED <<written, out>>
    /\ UNCHANGED <<table, input, pc>>

-----------------------------------------------------------------------------
(* rewriteFolded. *)

\* foldMatchEnd: the term stands after the first n characters.
TermAt(n) ==
    /\ n + Len(pattern) <= Len(text)
    /\ \A k \in 1..Len(pattern): FoldClass[text[n + k]] = pattern[k]

NaiveSkip ==
    /\ pc = "naive" /\ scan < Len(text) /\ ~TermAt(scan)
    /\ scan' = scan + 1
    /\ UNCHANGED <<table, input, state, written, out, pc>>

NaiveMatch ==
    /\ pc = "naive" /\ scan < Len(text) /\ TermAt(scan)
    /\ out' = Rewrite(scan)
    /\ written' = scan + Len(pattern)
    /\ scan' = scan + Len(pattern)
    /\ UNCHANGED <<table, input, state, pc>>

\* Either search ends with the rest of the text.
Finish ==
    /\ pc \in {"kmp", "naive"} /\ scan = Len(text)
    /\ out' = Rest
    /\ pc' = "done"
    /\ UNCHANGED <<table, input, scan, state, written>>

Next ==
    \/ TableFallBack \/ TableStep \/ Dispatch
    \/ KmpFallBack \/ KmpStep
    \/ NaiveSkip \/ NaiveMatch
    \/ Finish

Spec == Init /\ [][Next]_vars /\ WF_vars(Next)

-----------------------------------------------------------------------------
(* Properties. *)

\* What the table and the positions of the search may hold: state stays below
\* the length of the pattern, which the code indexes with it unchecked.
TypeOK ==
    /\ pattern \in Seq(Chars) \ {<<>>} /\ text \in Seq(Chars)
    /\ failure \in [1..Len(pattern) -> Nat]
    /\ \A k \in 1..Len(pattern): failure[k] < k
    /\ i \in 2..(Len(pattern) + 2) /\ prefix \in 0..(Len(pattern) - 1) /\ prefix < i
    /\ obfuscate \in BOOLEAN
    /\ scan \in 0..Len(text) /\ written \in 0..scan
    /\ state \in 0..(Len(pattern) - 1)
    /\ pc \in {"compile", "kmp", "naive", "done"}

\* The first b characters of the pattern are the last of its first k.
Border(b, k) == \A x \in 1..b: pattern[x] = pattern[k - b + x]

\* buildFoldFailure computes for every prefix its longest proper border.
FailureIsLongest ==
    \A k \in 1..Len(pattern): k < i =>
        /\ Border(failure[k], k)
        /\ \A b \in (failure[k] + 1)..(k - 1): ~Border(b, k)

\* The first k characters of the pattern are the last ones consumed.
EndsHere(k) == \A x \in 1..k: FoldClass[text[scan - k + x]] = pattern[x]

\* The search never passes an occurrence: state characters of the pattern end
\* here, and any longer part that does cannot take the next character.
StateIsLongest ==
    pc = "kmp" =>
        /\ state <= scan - written
        /\ EndsHere(state)
        /\ \A k \in (state + 1)..(Len(pattern) - 1):
               k <= scan - written /\ EndsHere(k) =>
                   scan < Len(text) /\ NextKey # pattern[k + 1]

Leftmost == INSTANCE LeftmostRewrite WITH done <- (pc = "done")

\* Both searches replace exactly the leftmost non-overlapping occurrences: the
\* size of the text cannot change what a rule does.
ImplementsLeftmost == Leftmost!Spec

\* The searches and the table construction end.
Terminates == <>(pc = "done")
=============================================================================
