--------------------------- MODULE CompiledRules ---------------------------
(***************************************************************************)
(* What the compiled snapshot of ConfigParse makes of a text (applyMode in *)
(* transform.go), and what the document says should be made of it.  The    *)
(* code looks at no rule but through what compileSnapshot derived: a rule  *)
(* that is missing from a search structure, or stands behind another of    *)
(* its action than it should, has no effect or a wrong one.                *)
(*                                                                         *)
(* Whether a text is long enough for the search structures is a choice     *)
(* made for it (long), since both ways must come to the same.              *)
(***************************************************************************)
EXTENDS ConfigParse

CONSTANT Texts     \* the texts of the instance

-----------------------------------------------------------------------------
(* The code: applyMode with the compiled snapshot. *)

Least(S) == IF S = {} THEN 0 ELSE CHOOSE r \in S: \A q \in S: r <= q

\* A folding search compares the classes of the text with the compiled runes.
Exactly == [fold |-> FALSE]
Seen(text) == IF cfg.fold THEN Folded(text) ELSE text
Sought(r) == IF cfg.fold THEN compiled.runes[r] ELSE cfg.rules[r]
Found(text, rules) == {r \in rules: Occurs(Exactly, Seen(text), Sought(r))}

\* The few rules that are tried one by one where there is an automaton.
Prefix == {r \in Blocking: compiled.exactMatcher # {} /\ r <= PrefixRules}

\* matchExactBlock, and the folding matcher of applyMode.
BlockedBy(text, long) ==
    LET first == Found(text, Prefix)
        rest == IF compiled.exactMatcher # {} /\ long THEN compiled.exactMatcher
                                                      ELSE Blocking \ Prefix
    IN  IF cfg.fold THEN Least(Found(text, compiled.blockMatcher))
        ELSE IF first # {} THEN Least(first)
        ELSE Least(Found(text, rest))

\* The preflight: nothing the rewriting matcher holds occurs in the text.
Skipped(text, long) ==
    long /\ compiled.rewriteMatcher # {} /\ Found(text, compiled.rewriteMatcher) = {}

\* strings.ReplaceAll with the replacement of the rule, which a strip rule has not.
Replaced(text, r) ==
    LET at == Starts(Exactly, text, cfg.rules[r])
        cut == {i + k: i \in at, k \in 0..(Len(cfg.rules[r]) - 1)}
    IN  FlattenSeq([i \in 1..Len(text) |->
            IF i \in at THEN IF r <= cfg.stripEnd THEN <<>> ELSE compiled.replacement[r]
            ELSE IF i \in cut THEN <<>> ELSE <<text[i]>>])

\* stripFoldRule and obfuscateFoldRule: occurrences are found among the classes
\* and cut out of the text, or the mark is put into it.
FoldRewritten(text, r) ==
    LET at == Starts(Exactly, Folded(text), compiled.runes[r])
        cut == {i + k: i \in at, k \in 0..(Len(compiled.runes[r]) - 1)}
    IN  FlattenSeq([i \in 1..Len(text) |->
            IF r > cfg.stripEnd THEN IF i \in at THEN <<text[i], cfg.mark>> ELSE <<text[i]>>
            ELSE IF i \in cut THEN <<>> ELSE <<text[i]>>])

RewrittenBy(text, long) ==
    LET after[r \in cfg.blockEnd..Len(cfg.rules)] ==
            IF r = cfg.blockEnd THEN text
            ELSE IF cfg.fold THEN FoldRewritten(after[r - 1], r) ELSE Replaced(after[r - 1], r)
    IN  IF Skipped(text, long) THEN text ELSE after[Len(cfg.rules)]

-----------------------------------------------------------------------------
(* The document: the terms it lists, its case rule and its mark. *)

Declares == [fold |-> Declared("ignore_case", doc.fold, FALSE)]

DeclaredBlock(text) ==
    LET terms == DeclaredTerms("block")
    IN  Least({n \in 1..Len(terms): Occurs(Declares, text, terms[n])})

DeclaredRewriting(text) ==
    LET strip(t, term) == Stripped(Declares, t, term)
        mark(t, term) == MarkedWith(Declares, t, term, DeclaredMark)
    IN  FoldLeft(mark, FoldLeft(strip, text, DeclaredTerms("strip")), DeclaredTerms("obfs"))

-----------------------------------------------------------------------------
(* Properties. *)

\* The first declared block term that occurs decides, and no search structure
\* passes it over.
BlocksAsDeclared(texts) ==
    \A text \in texts, long \in BOOLEAN: BlockedBy(text, long) = DeclaredBlock(text)

\* A text that is left out of the rewriting holds no strip or obfs term.
SkipsNothing(texts) ==
    \A text \in texts, long \in BOOLEAN:
        Skipped(text, long) => \A r \in All \ Blocking: ~Occurs(Declares, text, cfg.rules[r])

\* A text comes out as if the declared strip terms, then the declared obfs terms
\* had been applied to it.
RewritesAsDeclared(texts) ==
    \A text \in texts, long \in BOOLEAN: RewrittenBy(text, long) = DeclaredRewriting(text)

\* Reading, resolving, laying out and compiling the rules and searching with
\* what came of it decides about every text as the document says, in whatever
\* order its keys stand.
CompiledAsDeclared == pc = "ok" => BlocksAsDeclared(Texts) /\ RewritesAsDeclared(Texts)
=============================================================================
