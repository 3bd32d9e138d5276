---------------------------- MODULE ConfigParse ----------------------------
(***************************************************************************)
(* From a YAML document to a snapshot (config.go): the keys of the mapping *)
(* are read in the order they stand in, the words become rules grouped by  *)
(* action, and the rules are compiled.                                     *)
(*                                                                         *)
(* A document is the order of its keys and the value of each.  A value of  *)
(* the wrong kind, or one that is not allowed, makes its key malformed.  A *)
(* term is a sequence of characters.                                       *)
(***************************************************************************)
EXTENDS TermSearch

CONSTANTS
    Documents,         \* the documents of the instance
    DefaultMark,       \* the default of obfs.char
    PrefixRules,       \* exactByteMatcherPrefixRules
    MatcherMinRules,   \* exactByteMatcherMinRules
    PreflightMinRules, \* foldRewritePreflightMinRules
    MinPattern         \* foldKMPMinPatternScalars

(* A document: keys, a sequence of key names; malformed, the set of keys with *)
(* a value that is refused; and the values: mode, fold (ignore_case), words,  *)
(* mark (obfs.char), filterMode, filterLogic, filter and scope.  Words: legacy *)
(* (a sequence under the global mode), list, block, strip, obfs.              *)

Modes == {"block", "strip", "obfs"}
TermLists == Seq(Text)

ASSUME ConfigAssumption ==
    /\ {PrefixRules, MatcherMinRules, PreflightMinRules, MinPattern} \subseteq Nat
    /\ \A d \in Documents:
          /\ d.keys \in Seq(STRING)
          /\ d.mode \in Modes
          /\ d.words \in [legacy: BOOLEAN, list: TermLists,
                         block: TermLists, strip: TermLists, obfs: TermLists]
          /\ d.words.legacy => \A mode \in Modes: d.words[mode] = <<>>

VARIABLES
    doc,
    read,      \* how many keys have been read
    cfg,       \* the snapshot under construction
    words,     \* parsedWords
    compiled,  \* what compileSnapshot derives
    pc

vars == <<doc, read, cfg, words, compiled, pc>>

HostKeys == {"enabled", "priority", "store"}
PluginKeys == {"mode", "ignore_case", "filter_mode", "filter_logic", "filter", "words",
               "scope", "obfs"}

NoWords == [legacy |-> FALSE, list |-> <<>>, block |-> <<>>, strip |-> <<>>, obfs |-> <<>>]
DefaultScope == [formats |-> {"openai", "openai-response", "claude", "gemini", "interactions"},
                 roles |-> {"system", "developer", "user"}]
DefaultFilter == [apiKeys |-> <<>>, models |-> <<>>]
Default == [mode |-> "block", fold |-> FALSE, rules |-> <<>>, blockEnd |-> 0, stripEnd |-> 0,
            mark |-> DefaultMark, filterMode |-> "exclude", filterLogic |-> "or",
            filter |-> DefaultFilter, scope |-> DefaultScope]
\* What a rule is compiled to, and the rules the search structures hold.
NotCompiled == [runes |-> <<>>, failure |-> {}, replacement |-> <<>>,
                blockMatcher |-> {}, rewriteMatcher |-> {}, exactMatcher |-> {}]

Init ==
    /\ doc \in Documents
    /\ read = 0 /\ cfg = Default /\ words = NoWords /\ compiled = NotCompiled
    /\ pc = "validate"

-----------------------------------------------------------------------------
(* parseConfigYAML. *)

Duplicated == \E m, n \in 1..Len(doc.keys): m # n /\ doc.keys[m] = doc.keys[n]

\* The mapping itself: a key that stands twice refuses the document unread.
Validate ==
    /\ pc = "validate"
    /\ pc' = IF Duplicated THEN "error" ELSE "read"
    /\ UNCHANGED <<doc, read, cfg, words, compiled>>

Reading(key) ==
    /\ pc = "read" /\ read < Len(doc.keys)
    /\ doc.keys[read + 1] = key /\ key \notin doc.malformed
    /\ read' = read + 1
    /\ UNCHANGED <<doc, compiled, pc>>

ReadMode == Reading("mode") /\ cfg' = [cfg EXCEPT !.mode = doc.mode] /\ UNCHANGED words
ReadIgnoreCase == Reading("ignore_case") /\ cfg' = [cfg EXCEPT !.fold = doc.fold] /\ UNCHANGED words
ReadFilterMode ==
    Reading("filter_mode") /\ cfg' = [cfg EXCEPT !.filterMode = doc.filterMode] /\ UNCHANGED words
ReadFilterLogic ==
    Reading("filter_logic") /\ cfg' = [cfg EXCEPT !.filterLogic = doc.filterLogic] /\ UNCHANGED words
ReadFilter == Reading("filter") /\ cfg' = [cfg EXCEPT !.filter = doc.filter] /\ UNCHANGED words
ReadScope == Reading("scope") /\ cfg' = [cfg EXCEPT !.scope = doc.scope] /\ UNCHANGED words
ReadObfs == Reading("obfs") /\ cfg' = [cfg EXCEPT !.mark = doc.mark] /\ UNCHANGED words
ReadHostKey == (\E key \in HostKeys: Reading(key)) /\ UNCHANGED <<cfg, words>>

Terms(w) == {w.list, w.block, w.strip, w.obfs}
HasEmptyTerm(w) == \E ts \in Terms(w): \E n \in 1..Len(ts): ts[n] = <<>>

\* The terms of a sequence go under the mode.
Resolve(w, mode) ==
    IF w.legacy
    THEN [w EXCEPT !.block = IF mode = "block" THEN w.list ELSE @,
                   !.strip = IF mode = "strip" THEN w.list ELSE @,
                   !.obfs = IF mode = "obfs" THEN w.list ELSE @]
    ELSE w

\* Mutant: they go under the mode read so far.
ResolvedWhenRead(w) == [Resolve(w, cfg.mode) EXCEPT !.legacy = FALSE]
Parsed(w) == w

ReadWords ==
    /\ ~HasEmptyTerm(doc.words)
    /\ Reading("words")
    /\ words' = Parsed(doc.words)
    /\ UNCHANGED cfg

\* An unknown key, a malformed value or an empty word.
Reject ==
    /\ pc = "read" /\ read < Len(doc.keys)
    /\ LET key == doc.keys[read + 1]
       IN  \/ key \notin PluginKeys \cup HostKeys
           \/ key \in doc.malformed
           \/ key = "words" /\ HasEmptyTerm(doc.words)
    /\ pc' = "error"
    /\ UNCHANGED <<doc, read, cfg, words, compiled>>

BadObfsTerm(term, mark) == Len(term) < 2 \/ \E n \in 1..Len(term): term[n] = mark

\* All keys are read: the rules are laid out by action and the obfs terms are
\* checked against the mark.
Assemble ==
    /\ pc = "read" /\ read = Len(doc.keys)
    /\ LET w == Resolve(words, cfg.mode)
       IN  /\ words' = w
           /\ cfg' = [cfg EXCEPT !.rules = w.block \o w.strip \o w.obfs,
                                 !.blockEnd = Len(w.block),
                                 !.stripEnd = Len(w.block) + Len(w.strip)]
           /\ pc' = IF \E n \in 1..Len(w.obfs): BadObfsTerm(w.obfs[n], cfg.mark)
                    THEN "error" ELSE "compile"
    /\ UNCHANGED <<doc, read, compiled>>

-----------------------------------------------------------------------------
(* compileSnapshot. *)

Marked(term) == <<term[1], cfg.mark>> \o SubSeq(term, 2, Len(term))

Folded(term) == [k \in 1..Len(term) |-> FoldClass[term[k]]]
All == 1..Len(cfg.rules)
Blocking == 1..cfg.blockEnd

\* Mutants: the automaton begins behind the first rule it should hold; the
\* preflight knows the strip rules only; the marked rules begin one too late.
SearchedTooFew == Blocking \ 1..(PrefixRules + 1)
StripPreflighted == (cfg.blockEnd + 1)..cfg.stripEnd
MarkedFromNext == cfg.stripEnd + 1

ExactSearched == Blocking \ 1..PrefixRules
Preflighted == All \ Blocking
MarkedFrom == cfg.stripEnd

CompileFold ==
    [NotCompiled EXCEPT
        !.runes = [r \in All |-> Folded(cfg.rules[r])],
        !.blockMatcher = Blocking,
        !.rewriteMatcher = {r \in Preflighted: Cardinality(All \ Blocking) >= PreflightMinRules},
        !.failure = {r \in All \ Blocking: Len(cfg.rules[r]) >= MinPattern}]

CompileExact ==
    [NotCompiled EXCEPT
        !.exactMatcher = {r \in ExactSearched: cfg.blockEnd >= MatcherMinRules},
        !.replacement = [r \in All |-> IF r > MarkedFrom THEN Marked(cfg.rules[r]) ELSE <<>>]]

Compile ==
    /\ pc = "compile"
    /\ compiled' = IF cfg.fold THEN CompileFold ELSE CompileExact
    /\ pc' = "ok"
    /\ UNCHANGED <<doc, read, cfg, words>>

Next ==
    \/ Validate \/ Reject \/ Assemble \/ Compile
    \/ ReadMode \/ ReadIgnoreCase \/ ReadFilterMode \/ ReadFilterLogic \/ ReadFilter
    \/ ReadScope \/ ReadObfs \/ ReadHostKey \/ ReadWords

Spec == Init /\ [][Next]_vars

-----------------------------------------------------------------------------
(* Properties. *)

Given(key) == \E n \in 1..Len(doc.keys): doc.keys[n] = key
Declared(key, value, default) == IF Given(key) THEN value ELSE default

DeclaredMode == Declared("mode", doc.mode, "block")
DeclaredMark == Declared("obfs", doc.mark, DefaultMark)
DeclaredTerms(action) ==
    IF ~Given("words") THEN <<>>
    ELSE IF doc.words.legacy THEN IF DeclaredMode = action THEN doc.words.list ELSE <<>>
    ELSE doc.words[action]

DeclaredSnapshot ==
    [mode |-> DeclaredMode, fold |-> Declared("ignore_case", doc.fold, FALSE),
     rules |-> DeclaredTerms("block") \o DeclaredTerms("strip") \o DeclaredTerms("obfs"),
     blockEnd |-> Len(DeclaredTerms("block")),
     stripEnd |-> Len(DeclaredTerms("block")) + Len(DeclaredTerms("strip")),
     mark |-> DeclaredMark,
     filterMode |-> Declared("filter_mode", doc.filterMode, "exclude"),
     filterLogic |-> Declared("filter_logic", doc.filterLogic, "or"),
     filter |-> Declared("filter", doc.filter, DefaultFilter),
     scope |-> Declared("scope", doc.scope, DefaultScope)]

Refused ==
    \/ Duplicated
    \/ \E n \in 1..Len(doc.keys):
           \/ doc.keys[n] \notin PluginKeys \cup HostKeys
           \/ doc.keys[n] \in doc.malformed
    \/ Given("words") /\ HasEmptyTerm(doc.words)
    \/ \E n \in 1..Len(DeclaredTerms("obfs")): BadObfsTerm(DeclaredTerms("obfs")[n], DeclaredMark)

\* The order of the keys means nothing: a document is refused for what it says,
\* and an accepted one makes the snapshot it declares, the terms of a sequence
\* under the mode that stands before or behind it.
OrderMeansNothing ==
    /\ pc = "error" => Refused
    /\ pc = "ok" => ~Refused /\ cfg = DeclaredSnapshot
=============================================================================
