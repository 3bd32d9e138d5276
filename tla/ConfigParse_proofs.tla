------------------------- MODULE ConfigParse_proofs -------------------------
(***************************************************************************)
(* Proofs about the configuration parser for any set of documents: the     *)
(* snapshot an accepted document makes is the one it declares, whatever    *)
(* the order of its keys, and judging any text with the compiled rules     *)
(* finds the block term the document says, and skips no rewrite term.      *)
(***************************************************************************)
EXTENDS CompiledRules, FiniteSetTheorems, SequenceTheorems, WellFoundedInduction, TLAPS

\* A key among those that have been read, and what it means so far.
Upto(key) == \E n \in 1..read: doc.keys[n] = key
SoFar(key, value, default) == IF Upto(key) THEN value ELSE default

ModeSoFar == SoFar("mode", doc.mode, "block")
FoldSoFar == SoFar("ignore_case", doc.fold, FALSE)
MarkSoFar == SoFar("obfs", doc.mark, DefaultMark)
FilterModeSoFar == SoFar("filter_mode", doc.filterMode, "exclude")
FilterLogicSoFar == SoFar("filter_logic", doc.filterLogic, "or")
FilterSoFar == SoFar("filter", doc.filter, DefaultFilter)
ScopeSoFar == SoFar("scope", doc.scope, DefaultScope)
WordsSoFar == SoFar("words", doc.words, NoWords)

\* The snapshot made of the keys that have been read, without the rules.
ReadSoFar ==
    [mode |-> ModeSoFar, fold |-> FoldSoFar, rules |-> <<>>, blockEnd |-> 0, stripEnd |-> 0,
     mark |-> MarkSoFar, filterMode |-> FilterModeSoFar, filterLogic |-> FilterLogicSoFar,
     filter |-> FilterSoFar, scope |-> ScopeSoFar]

Shape ==
    /\ doc \in Documents /\ read \in Nat /\ read <= Len(doc.keys)
    /\ pc \in {"validate", "read", "compile", "ok", "error"}

\* The keys that have been read say what the parser holds, and none of them
\* was a reason to refuse the document.
ReadInv ==
    /\ pc \in {"validate", "read"} =>
           cfg = ReadSoFar /\ words = WordsSoFar
    /\ pc = "validate" => read = 0
    /\ pc = "read" =>
           /\ ~Duplicated
           /\ \A n \in 1..read:
                 /\ doc.keys[n] \in PluginKeys \cup HostKeys
                 /\ doc.keys[n] \notin doc.malformed
                 /\ doc.keys[n] = "words" => ~HasEmptyTerm(doc.words)

\* A document is refused for a reason, and otherwise the snapshot is the
\* declared one when its rules are compiled.
MadeInv ==
    /\ pc = "error" => Refused
    /\ pc \in {"compile", "ok"} => ~Refused /\ cfg = DeclaredSnapshot

ParseInv == Shape /\ ReadInv /\ MadeInv

-----------------------------------------------------------------------------
(* Reading the keys. *)

\* What the assumption says of the document at hand.
LEMMA DocumentTyped ==
    ASSUME doc \in Documents
    PROVE  /\ doc.keys \in Seq(STRING) /\ doc.mode \in Modes
           /\ doc.words \in [legacy: BOOLEAN, list: TermLists,
                             block: TermLists, strip: TermLists, obfs: TermLists]
           /\ doc.words.legacy => \A mode \in Modes: doc.words[mode] = <<>>
BY ConfigAssumption

\* One more key has been read.
LEMMA ReadOneMore ==
    ASSUME Shape, NEW key, Reading(key)
    PROVE  /\ \A k: Upto(k)' <=> (Upto(k) \/ k = key)
           /\ UNCHANGED doc
<1> PICK r \in Nat: r = read
  BY DEF Shape
<1>1. read' = r + 1 /\ doc' = doc /\ doc.keys[r + 1] = key
  BY DEF Reading
<1>2. \A k: Upto(k)' <=> \E n \in 1..(r + 1): doc.keys[n] = k
  BY <1>1 DEF Upto
<1>3. 1..(r + 1) = 1..r \cup {r + 1}
  OBVIOUS
<1> QED BY <1>1, <1>2, <1>3 DEF Upto

\* What any key but words does to the parser.
LEMMA ReadKeeps ==
    ASSUME ParseInv, NEW key, Reading(key), key \in PluginKeys \cup HostKeys,
           key = "words" => ~HasEmptyTerm(doc.words),
           cfg' = ReadSoFar', words' = WordsSoFar'
    PROVE  ParseInv'
<1>1. PICK r \in Nat: r = read
  BY DEF ParseInv, Shape
<1>2. /\ pc = "read" /\ r < Len(doc.keys) /\ doc.keys[r + 1] = key /\ key \notin doc.malformed
      /\ read' = r + 1 /\ UNCHANGED <<doc, compiled, pc>>
  BY <1>1 DEF Reading
<1>3. doc.keys \in Seq(STRING)
  BY DocumentTyped DEF ParseInv, Shape
<1>4. Shape'
  <2>1. r + 1 <= Len(doc.keys) /\ r + 1 \in Nat
    BY <1>2, <1>3
  <2> QED BY <1>2, <2>1 DEF ParseInv, Shape
<1>5. ~Duplicated'
  BY <1>2 DEF ParseInv, ReadInv, Duplicated
<1>6. \A n \in 1..(r + 1):
         /\ doc.keys[n] \in PluginKeys \cup HostKeys
         /\ doc.keys[n] \notin doc.malformed
         /\ doc.keys[n] = "words" => ~HasEmptyTerm(doc.words)
  <2>1. 1..(r + 1) = 1..r \cup {r + 1}
    OBVIOUS
  <2> QED BY <1>1, <1>2, <2>1 DEF ParseInv, ReadInv
<1>7. HasEmptyTerm(doc.words)' <=> HasEmptyTerm(doc.words)
  BY <1>2 DEF HasEmptyTerm, Terms
<1>8. ReadInv'
  BY <1>2, <1>5, <1>6, <1>7 DEF ReadInv
<1>9. MadeInv'
  BY <1>2 DEF MadeInv
<1> QED BY <1>4, <1>8, <1>9 DEF ParseInv

\* Every key sets its own part of the snapshot.
LEMMA ReadStep ==
    ASSUME ParseInv,
           ReadMode \/ ReadIgnoreCase \/ ReadFilterMode \/ ReadFilterLogic \/ ReadFilter
               \/ ReadScope \/ ReadObfs \/ ReadHostKey \/ ReadWords
    PROVE  ParseInv'
<1>1. ASSUME NEW key, Reading(key)
      PROVE  /\ cfg = ReadSoFar /\ words = WordsSoFar
             /\ \A k: Upto(k)' <=> (Upto(k) \/ k = key)
             /\ UNCHANGED doc
  BY <1>1, ReadOneMore DEF ParseInv, ReadInv, Reading
<1>2. ASSUME NEW key \in PluginKeys \cup HostKeys, Reading(key),
             key = "words" => ~HasEmptyTerm(doc.words),
             cfg' = ReadSoFar', words' = WordsSoFar'
      PROVE  ParseInv'
  BY <1>2, ReadKeeps
<1>3. ASSUME NEW key, Reading(key), key # "words", UNCHANGED words
      PROVE  words' = WordsSoFar'
  BY <1>1, <1>3 DEF SoFar, WordsSoFar
<1>4. ASSUME NEW key, Reading(key)
       PROVE  /\ ModeSoFar' = IF key = "mode" THEN doc.mode ELSE ModeSoFar
              /\ FoldSoFar' = IF key = "ignore_case" THEN doc.fold ELSE FoldSoFar
              /\ MarkSoFar' = IF key = "obfs" THEN doc.mark ELSE MarkSoFar
              /\ FilterModeSoFar' = IF key = "filter_mode" THEN doc.filterMode ELSE FilterModeSoFar
              /\ FilterLogicSoFar' = IF key = "filter_logic" THEN doc.filterLogic ELSE FilterLogicSoFar
              /\ FilterSoFar' = IF key = "filter" THEN doc.filter ELSE FilterSoFar
              /\ ScopeSoFar' = IF key = "scope" THEN doc.scope ELSE ScopeSoFar
  BY <1>1, <1>4 DEF SoFar, ModeSoFar, FoldSoFar, MarkSoFar, FilterModeSoFar, FilterLogicSoFar, FilterSoFar, ScopeSoFar
<1>5. CASE ReadMode
  <2>1. Reading("mode") /\ cfg' = [cfg EXCEPT !.mode = doc.mode] /\ UNCHANGED words
    BY <1>5 DEF ReadMode
  <2>2. cfg' = ReadSoFar'
    BY <1>1, <1>4, <2>1 DEF ReadSoFar
  <2> QED BY <1>2, <1>3, <2>1, <2>2 DEF PluginKeys
<1>6. CASE ReadIgnoreCase
  <2>1. Reading("ignore_case") /\ cfg' = [cfg EXCEPT !.fold = doc.fold] /\ UNCHANGED words
    BY <1>6 DEF ReadIgnoreCase
  <2>2. cfg' = ReadSoFar'
    BY <1>1, <1>4, <2>1 DEF ReadSoFar
  <2> QED BY <1>2, <1>3, <2>1, <2>2 DEF PluginKeys
<1>7. CASE ReadFilterMode
  <2>1. Reading("filter_mode") /\ cfg' = [cfg EXCEPT !.filterMode = doc.filterMode] /\ UNCHANGED words
    BY <1>7 DEF ReadFilterMode
  <2>2. cfg' = ReadSoFar'
    BY <1>1, <1>4, <2>1 DEF ReadSoFar
  <2> QED BY <1>2, <1>3, <2>1, <2>2 DEF PluginKeys
<1>8. CASE ReadFilterLogic
  <2>1. Reading("filter_logic") /\ cfg' = [cfg EXCEPT !.filterLogic = doc.filterLogic] /\ UNCHANGED words
    BY <1>8 DEF ReadFilterLogic
  <2>2. cfg' = ReadSoFar'
    BY <1>1, <1>4, <2>1 DEF ReadSoFar
  <2> QED BY <1>2, <1>3, <2>1, <2>2 DEF PluginKeys
<1>9. CASE ReadFilter
  <2>1. Reading("filter") /\ cfg' = [cfg EXCEPT !.filter = doc.filter] /\ UNCHANGED words
    BY <1>9 DEF ReadFilter
  <2>2. cfg' = ReadSoFar'
    BY <1>1, <1>4, <2>1 DEF ReadSoFar
  <2> QED BY <1>2, <1>3, <2>1, <2>2 DEF PluginKeys
<1>10. CASE ReadScope
  <2>1. Reading("scope") /\ cfg' = [cfg EXCEPT !.scope = doc.scope] /\ UNCHANGED words
    BY <1>10 DEF ReadScope
  <2>2. cfg' = ReadSoFar'
    BY <1>1, <1>4, <2>1 DEF ReadSoFar
  <2> QED BY <1>2, <1>3, <2>1, <2>2 DEF PluginKeys
<1>11. CASE ReadObfs
  <2>1. Reading("obfs") /\ cfg' = [cfg EXCEPT !.mark = doc.mark] /\ UNCHANGED words
    BY <1>11 DEF ReadObfs
  <2>2. cfg' = ReadSoFar'
    BY <1>1, <1>4, <2>1 DEF ReadSoFar
  <2> QED BY <1>2, <1>3, <2>1, <2>2 DEF PluginKeys
<1>12. CASE ReadHostKey
  <2>1. PICK key \in HostKeys: Reading(key)
    BY <1>12 DEF ReadHostKey
  <2>2. UNCHANGED <<cfg, words>> /\ key \notin PluginKeys
    BY <1>12 DEF ReadHostKey, HostKeys, PluginKeys
  <2>3. cfg' = ReadSoFar'
    BY <1>1, <1>4, <2>1, <2>2 DEF ReadSoFar, PluginKeys
  <2>4. key # "words"
    BY <2>2 DEF PluginKeys
  <2> QED BY <1>2, <1>3, <2>1, <2>2, <2>3, <2>4
<1>13. CASE ReadWords
  <2>1. Reading("words") /\ ~HasEmptyTerm(doc.words) /\ words' = doc.words /\ UNCHANGED cfg
    BY <1>13 DEF ReadWords, Parsed
  <2>2. cfg' = ReadSoFar'
    BY <1>1, <1>4, <2>1 DEF ReadSoFar
  <2>3. words' = WordsSoFar'
    BY <1>1, <2>1 DEF SoFar, WordsSoFar
  <2> QED BY <1>2, <2>1, <2>2, <2>3 DEF PluginKeys
<1> QED BY <1>5, <1>6, <1>7, <1>8, <1>9, <1>10, <1>11, <1>12, <1>13

-----------------------------------------------------------------------------
(* The other steps of the parser. *)

\* Nothing is read at first.
LEMMA ParseStart == Init => ParseInv
<1> SUFFICES ASSUME Init PROVE ParseInv
  OBVIOUS
<1>1. doc.keys \in Seq(STRING)
  BY DocumentTyped DEF Init
<1>2. \A k: ~Upto(k)
  BY DEF Init, Upto
<1>3. cfg = ReadSoFar /\ words = WordsSoFar
  BY <1>2 DEF Init, Default, ReadSoFar, ModeSoFar, FoldSoFar, MarkSoFar, FilterModeSoFar,
              FilterLogicSoFar, FilterSoFar, ScopeSoFar, WordsSoFar, SoFar
<1>4. Shape
  BY <1>1 DEF Init, Shape
<1> QED BY <1>3, <1>4 DEF Init, ParseInv, ReadInv, MadeInv

\* What a document says does not change while it is parsed.
LEMMA SaysTheSame ==
    ASSUME UNCHANGED doc
    PROVE  /\ Refused' <=> Refused
           /\ Duplicated' <=> Duplicated
           /\ DeclaredSnapshot' = DeclaredSnapshot /\ DeclaredMark' = DeclaredMark
<1>1. Duplicated' <=> Duplicated
  BY DEF Duplicated
<1>2. DeclaredMark' = DeclaredMark
  BY DEF DeclaredMark, Declared, Given
<1>3. DeclaredSnapshot' = DeclaredSnapshot
  BY DEF DeclaredSnapshot, Given, Declared, DeclaredTerms, DeclaredMode, DeclaredMark
<1>4. Refused' <=> Refused
  BY DEF Refused, Duplicated, Given, Declared, DeclaredTerms, DeclaredMode, DeclaredMark,
         HasEmptyTerm, Terms, BadObfsTerm
<1> QED BY <1>1, <1>2, <1>3, <1>4

\* Steps that refuse the document, or begin to read it.
LEMMA CheckStep == ASSUME ParseInv, Validate \/ Reject PROVE ParseInv'
<1>1. UNCHANGED <<doc, read, cfg, words>>
  BY DEF Validate, Reject
<1>3. /\ Refused' <=> Refused
      /\ ReadSoFar' = ReadSoFar /\ WordsSoFar' = WordsSoFar
      /\ Duplicated' <=> Duplicated
  <2>2. \A k: Upto(k)' <=> Upto(k)
    BY <1>1 DEF Upto
  <2>3. ReadSoFar' = ReadSoFar /\ WordsSoFar' = WordsSoFar
    BY <1>1, <2>2 DEF ReadSoFar, ModeSoFar, FoldSoFar, MarkSoFar, FilterModeSoFar,
                      FilterLogicSoFar, FilterSoFar, ScopeSoFar, WordsSoFar, SoFar
  <2> QED BY <1>1, <2>3, SaysTheSame
<1>4. CASE Validate
  <2>1. pc = "validate" /\ read = 0 /\ pc' = IF Duplicated THEN "error" ELSE "read"
    BY <1>4 DEF Validate, ParseInv, ReadInv
  <2>2. Duplicated => Refused
    BY DEF Refused
  <2>3. 1..read = {}
    BY <2>1
  <2>4. ReadInv'
    BY <1>1, <1>3, <2>1, <2>3 DEF ParseInv, ReadInv
  <2>5. MadeInv' /\ Shape'
    BY <1>1, <1>3, <2>1, <2>2 DEF ParseInv, MadeInv, Shape
  <2> QED BY <2>4, <2>5 DEF ParseInv
<1>5. CASE Reject
  <2>1. pc' = "error" /\ read + 1 \in 1..Len(doc.keys)
    <3>1. doc.keys \in Seq(STRING) /\ read \in Nat
      BY DocumentTyped DEF ParseInv, Shape
    <3> QED BY <1>5, <3>1 DEF Reject
  <2>2. Refused
    BY <1>5, <2>1 DEF Reject, Refused, Given
  <2>3. ReadInv' /\ MadeInv' /\ Shape'
    BY <1>1, <1>3, <2>1, <2>2 DEF ParseInv, ReadInv, MadeInv, Shape
  <2> QED BY <2>3 DEF ParseInv
<1> QED BY <1>4, <1>5

\* What the document declares are lists of terms, and what it resolves to when
\* all its keys are read.
LEMMA TermsDeclared ==
    ASSUME ParseInv, pc = "read", read = Len(doc.keys)
    PROVE  /\ \A action \in Modes: Resolve(words, cfg.mode)[action] = DeclaredTerms(action)
           /\ cfg = [mode |-> DeclaredMode, fold |-> Declared("ignore_case", doc.fold, FALSE),
                     rules |-> <<>>, blockEnd |-> 0, stripEnd |-> 0, mark |-> DeclaredMark,
                     filterMode |-> Declared("filter_mode", doc.filterMode, "exclude"),
                     filterLogic |-> Declared("filter_logic", doc.filterLogic, "or"),
                     filter |-> Declared("filter", doc.filter, DefaultFilter),
                     scope |-> Declared("scope", doc.scope, DefaultScope)]
           /\ cfg.mode = DeclaredMode /\ cfg.mark = DeclaredMark
<1>1. \A k: Upto(k) <=> Given(k)
  BY DEF Upto, Given
<1>2. cfg = ReadSoFar /\ words = WordsSoFar
  BY DEF ParseInv, ReadInv
<1>3. \A k, value, default: SoFar(k, value, default) = Declared(k, value, default)
  BY <1>1 DEF SoFar, Declared
<1>4. /\ cfg = [mode |-> DeclaredMode, fold |-> Declared("ignore_case", doc.fold, FALSE),
                rules |-> <<>>, blockEnd |-> 0, stripEnd |-> 0, mark |-> DeclaredMark,
                filterMode |-> Declared("filter_mode", doc.filterMode, "exclude"),
                filterLogic |-> Declared("filter_logic", doc.filterLogic, "or"),
                filter |-> Declared("filter", doc.filter, DefaultFilter),
                scope |-> Declared("scope", doc.scope, DefaultScope)]
      /\ words = Declared("words", doc.words, NoWords)
  BY <1>2, <1>3 DEF ReadSoFar, ModeSoFar, FoldSoFar, MarkSoFar, FilterModeSoFar, FilterLogicSoFar,
                    FilterSoFar, ScopeSoFar, WordsSoFar, DeclaredMode, DeclaredMark
<1>5. cfg.mode = DeclaredMode /\ cfg.mark = DeclaredMark
  BY <1>4
<1>6. ASSUME NEW action \in Modes
      PROVE  Resolve(words, DeclaredMode)[action] = DeclaredTerms(action)
  <2>1. CASE ~Given("words")
    <3>1. words = NoWords
      BY <1>4, <2>1 DEF Declared
    <3> QED BY <2>1, <3>1 DEF Resolve, NoWords, DeclaredTerms, Modes
  <2>2. CASE Given("words")
    <3>1. words = doc.words
      BY <1>4, <2>2 DEF Declared
    <3>2. /\ doc.words \in [legacy: BOOLEAN, list: TermLists,
                            block: TermLists, strip: TermLists, obfs: TermLists]
          /\ doc.words.legacy => \A mode \in Modes: doc.words[mode] = <<>>
      BY DocumentTyped DEF ParseInv, Shape
    <3>3. CASE doc.words.legacy
      BY <2>2, <3>1, <3>2, <3>3 DEF Resolve, DeclaredTerms, Modes
    <3>4. CASE ~doc.words.legacy
      BY <2>2, <3>1, <3>4 DEF Resolve, DeclaredTerms
    <3> QED BY <3>3, <3>4
  <2> QED BY <2>1, <2>2
<1> QED BY <1>4, <1>5, <1>6

\* The rules are laid out and checked.
LEMMA AssembleStep == ASSUME ParseInv, Assemble PROVE ParseInv'
<1>1. pc = "read" /\ read = Len(doc.keys) /\ UNCHANGED <<doc, read>>
  BY DEF Assemble
<1> DEFINE b == DeclaredTerms("block")
           s == DeclaredTerms("strip")
           o == DeclaredTerms("obfs")
           Bad == \E n \in 1..Len(o): BadObfsTerm(o[n], DeclaredMark)
<1>2. LET w == Resolve(words, cfg.mode) IN w.block = b /\ w.strip = s /\ w.obfs = o
  BY <1>1, TermsDeclared DEF Modes
<1>3. cfg' = [cfg EXCEPT !.rules = b \o s \o o, !.blockEnd = Len(b), !.stripEnd = Len(b) + Len(s)]
  BY <1>2 DEF Assemble
<1>4. pc' = IF Bad THEN "error" ELSE "compile"
  <2>1. cfg.mark = DeclaredMark
    BY <1>1, TermsDeclared
  <2> QED BY <1>2, <2>1 DEF Assemble
<1>5. cfg' = DeclaredSnapshot
  <2> DEFINE fold == Declared("ignore_case", doc.fold, FALSE)
             filterMode == Declared("filter_mode", doc.filterMode, "exclude")
             filterLogic == Declared("filter_logic", doc.filterLogic, "or")
             filter == Declared("filter", doc.filter, DefaultFilter)
             scope == Declared("scope", doc.scope, DefaultScope)
  <2>1. cfg = [mode |-> DeclaredMode, fold |-> fold, rules |-> <<>>, blockEnd |-> 0, stripEnd |-> 0,
               mark |-> DeclaredMark, filterMode |-> filterMode, filterLogic |-> filterLogic,
               filter |-> filter, scope |-> scope]
    BY <1>1, TermsDeclared
  <2>2. DeclaredSnapshot =
            [mode |-> DeclaredMode, fold |-> fold, rules |-> b \o s \o o,
             blockEnd |-> Len(b), stripEnd |-> Len(b) + Len(s),
             mark |-> DeclaredMark, filterMode |-> filterMode, filterLogic |-> filterLogic,
             filter |-> filter, scope |-> scope]
    BY DEF DeclaredSnapshot
  <2> HIDE DEF b, s, o, fold, filterMode, filterLogic, filter, scope
  <2>3. cfg' = [mode |-> DeclaredMode, fold |-> fold, rules |-> b \o s \o o,
                blockEnd |-> Len(b), stripEnd |-> Len(b) + Len(s),
                mark |-> DeclaredMark, filterMode |-> filterMode, filterLogic |-> filterLogic,
                filter |-> filter, scope |-> scope]
    BY <1>3, <2>1
  <2> QED BY <2>2, <2>3
<1>6. /\ Refused' <=> Refused
      /\ DeclaredSnapshot' = DeclaredSnapshot
  BY <1>1, SaysTheSame
<1>7. Bad <=> Refused
  <2>1. Bad => Refused
    BY DEF Refused
  <2>2. /\ ~Duplicated
        /\ \A n \in 1..Len(doc.keys):
              /\ doc.keys[n] \in PluginKeys \cup HostKeys
              /\ doc.keys[n] \notin doc.malformed
              /\ doc.keys[n] = "words" => ~HasEmptyTerm(doc.words)
    BY <1>1 DEF ParseInv, ReadInv
  <2>3. ~(Given("words") /\ HasEmptyTerm(doc.words))
    BY <2>2 DEF Given
  <2> QED BY <2>1, <2>2, <2>3 DEF Refused
<1>8. pc' # "read" /\ pc' # "validate" /\ pc' # "ok"
  BY <1>4
<1>9. Shape' /\ ReadInv'
  BY <1>1, <1>4, <1>8 DEF ParseInv, Shape, ReadInv
<1>10. MadeInv'
  BY <1>4, <1>5, <1>6, <1>7 DEF MadeInv
<1> QED BY <1>9, <1>10 DEF ParseInv

\* What the terms of an accepted document are.
LEMMA SnapshotRules ==
    ASSUME ParseInv, pc \in {"compile", "ok"}
    PROVE  /\ cfg.rules \in TermLists
           /\ cfg.blockEnd \in Nat /\ cfg.blockEnd <= Len(cfg.rules)
           /\ cfg.blockEnd = Len(DeclaredTerms("block"))
           /\ \A r \in Blocking: cfg.rules[r] = DeclaredTerms("block")[r]
           /\ cfg.fold = Declares.fold
<1> DEFINE b == DeclaredTerms("block")
           s == DeclaredTerms("strip")
           o == DeclaredTerms("obfs")
<1>1. cfg = DeclaredSnapshot
  BY DEF ParseInv, MadeInv
<1>2. cfg.rules = b \o s \o o /\ cfg.blockEnd = Len(b) /\ cfg.fold = Declares.fold
  BY <1>1 DEF DeclaredSnapshot, Declares
<1>3. b \in TermLists /\ s \in TermLists /\ o \in TermLists
  <2>1. doc.words \in [legacy: BOOLEAN, list: TermLists,
                       block: TermLists, strip: TermLists, obfs: TermLists]
    BY DocumentTyped DEF ParseInv, Shape
  <2>2. <<>> \in TermLists
    BY EmptySeq DEF TermLists
  <2> QED BY <2>1, <2>2 DEF DeclaredTerms
<1> HIDE DEF b, s, o
<1>4. /\ b \o s \in TermLists /\ Len(b \o s) = Len(b) + Len(s)
      /\ Len(b) \in Nat /\ Len(s) \in Nat /\ Len(o) \in Nat
      /\ \A n \in 1..Len(b): (b \o s)[n] = b[n]
  BY <1>3, ConcatProperties DEF TermLists
<1>5. PICK f: f = b \o s
  OBVIOUS
<1>6. /\ f \o o \in TermLists /\ Len(f \o o) = Len(f) + Len(o)
      /\ \A n \in 1..Len(f): (f \o o)[n] = f[n]
  BY <1>3, <1>4, <1>5, ConcatProperties DEF TermLists
<1>7. ASSUME NEW r \in 1..Len(b) PROVE cfg.rules[r] = b[r]
  BY <1>2, <1>4, <1>5, <1>6, <1>7
<1>8. Len(b) <= Len(cfg.rules)
  BY <1>2, <1>4, <1>5, <1>6
<1> QED BY <1>2, <1>4, <1>5, <1>6, <1>7, <1>8 DEF b, Blocking

\* compileSnapshot derives the structures from the rules of the snapshot.
CompiledInv == pc = "ok" => compiled = IF cfg.fold THEN CompileFold ELSE CompileExact

LEMMA CompileStep == ASSUME ParseInv, Compile PROVE ParseInv' /\ CompiledInv'
<1>1. pc = "compile" /\ pc' = "ok" /\ UNCHANGED <<doc, read, cfg, words>>
  BY DEF Compile
<1>2. ReadInv' /\ Shape'
  BY <1>1 DEF ParseInv, ReadInv, Shape
<1>3. MadeInv'
  BY <1>1, SaysTheSame DEF ParseInv, MadeInv
<1>4. CompileFold' = CompileFold /\ CompileExact' = CompileExact
  BY <1>1 DEF CompileFold, CompileExact, All, Blocking, Preflighted, ExactSearched, MarkedFrom,
              Marked
<1>5. CompiledInv'
  BY <1>1, <1>4 DEF Compile, CompiledInv
<1> QED BY <1>2, <1>3, <1>5 DEF ParseInv

\* Every step keeps the invariant.
LEMMA ParseStep == ParseInv /\ CompiledInv /\ [Next]_vars => ParseInv' /\ CompiledInv'
<1> SUFFICES ASSUME ParseInv, CompiledInv, [Next]_vars PROVE ParseInv' /\ CompiledInv'
  OBVIOUS
<1>1. CASE UNCHANGED vars
  <2>1. UNCHANGED <<doc, read, cfg, words, compiled, pc>>
    BY <1>1 DEF vars
  <2>2. CompileFold' = CompileFold /\ CompileExact' = CompileExact
    BY <2>1 DEF CompileFold, CompileExact, All, Blocking, Preflighted, ExactSearched, MarkedFrom,
                Marked
  <2>3. CompiledInv'
    BY <2>1, <2>2 DEF CompiledInv
  <2>4. Shape' /\ MadeInv'
    BY <2>1, SaysTheSame DEF ParseInv, Shape, MadeInv
  <2>5. \A k: Upto(k)' <=> Upto(k)
    BY <2>1 DEF Upto
  <2>6. ReadSoFar' = ReadSoFar /\ WordsSoFar' = WordsSoFar
    BY <2>1, <2>5 DEF ReadSoFar, ModeSoFar, FoldSoFar, MarkSoFar, FilterModeSoFar,
                      FilterLogicSoFar, FilterSoFar, ScopeSoFar, WordsSoFar, SoFar
  <2>7. ReadInv'
    BY <2>1, <2>6 DEF ParseInv, ReadInv, Duplicated, HasEmptyTerm, Terms
  <2> QED BY <2>3, <2>4, <2>7 DEF ParseInv
<1>2. CASE Compile
  BY <1>2, CompileStep
<1>3. CASE Next /\ ~Compile
  <2>1. ParseInv'
    BY <1>3, ReadStep, CheckStep, AssembleStep DEF Next
  <2>2. pc' # "ok"
    BY <1>3 DEF Next, Validate, Reject, Assemble, Reading, ReadMode, ReadIgnoreCase, ReadFilterMode,
                ReadFilterLogic, ReadFilter, ReadScope, ReadObfs, ReadHostKey, ReadWords
  <2> QED BY <2>1, <2>2 DEF CompiledInv
<1> QED BY <1>1, <1>2, <1>3

\* Whatever order its keys stand in, a document is refused for what it says, or
\* makes the snapshot it declares.
THEOREM OrderIrrelevant == Spec => []OrderMeansNothing
<1>1. ParseInv => OrderMeansNothing
  BY DEF ParseInv, MadeInv, OrderMeansNothing
<1>2. Init => CompiledInv
  BY DEF Init, CompiledInv
<1> QED BY ParseStart, ParseStep, <1>1, <1>2, PTL DEF Spec

-----------------------------------------------------------------------------
(* Searching with the compiled rules. *)

\* The compiled form of a rule occurs in what the search sees of a text where
\* the declared term occurs in the text under the declared case rule.
LEMMA SearchFindsTerm ==
    ASSUME ParseInv, CompiledInv, pc = "ok", NEW text \in Text, NEW r \in All
    PROVE  Occurs(Exactly, Seen(text), Sought(r)) <=> Occurs(Declares, text, cfg.rules[r])
<1>1. PICK term \in Text: term = cfg.rules[r]
  BY SnapshotRules DEF TermLists, All
<1>2. cfg.fold = Declares.fold /\ Exactly.fold = FALSE
  BY SnapshotRules DEF Exactly
<1>3. Len(text) \in Nat /\ Len(term) \in Nat
  BY DEF Text
<1>4. CASE cfg.fold
  <2>1. Seen(text) = Folded(text) /\ Sought(r) = Folded(term)
    <3>1. compiled.runes = [q \in All |-> Folded(cfg.rules[q])]
      BY <1>4 DEF CompiledInv, CompileFold, NotCompiled
    <3> QED BY <1>1, <1>4, <3>1 DEF Seen, Sought
  <2>2. /\ Len(Folded(text)) = Len(text) /\ Len(Folded(term)) = Len(term)
        /\ \A k \in 1..Len(text): Folded(text)[k] = FoldClass[text[k]]
        /\ \A k \in 1..Len(term): Folded(term)[k] = FoldClass[term[k]]
    BY <1>3 DEF Folded, Text
  <2>3. ASSUME NEW i \in 1..Len(text)
        PROVE  TermAt(Exactly, Folded(text), Folded(term), i) <=> TermAt(Declares, text, term, i)
    <3>1. ASSUME i + Len(term) - 1 <= Len(text), NEW k \in 1..Len(term)
          PROVE  SameChar(Exactly, Folded(text)[i + k - 1], Folded(term)[k])
                     <=> SameChar(Declares, text[i + k - 1], term[k])
      <4>1. i + k - 1 \in 1..Len(text)
        BY <1>3, <3>1
      <4> QED BY <1>2, <1>4, <2>2, <4>1 DEF SameChar
    <3> QED BY <2>2, <3>1 DEF TermAt
  <2> QED BY <1>1, <2>1, <2>2, <2>3 DEF Occurs
<1>5. CASE ~cfg.fold
  <2>1. Seen(text) = text /\ Sought(r) = term
    BY <1>1, <1>5 DEF Seen, Sought
  <2>2. \A x, y: SameChar(Exactly, x, y) <=> SameChar(Declares, x, y)
    BY <1>2, <1>5 DEF SameChar
  <2> QED BY <1>1, <2>1, <2>2 DEF Occurs, TermAt
<1> QED BY <1>4, <1>5

\* A set of rules has a least one, and that is what Least returns.
LEMMA LeastIs ==
    ASSUME NEW S \in SUBSET (Nat \ {0})
    PROVE  /\ S = {} => Least(S) = 0
           /\ S # {} => Least(S) \in S /\ \A q \in S: Least(S) <= q
<1>1. CASE S = {}
  BY <1>1 DEF Least
<1>2. CASE S # {}
  <2> DEFINE Below == {p \in Nat \X Nat: p[1] < p[2]}
  <2>1. OpToRel(<, Nat) = Below
    BY DEF OpToRel
  <2>2. IsWellFoundedOn(Below, Nat) /\ S \subseteq Nat
    BY <2>1, NatLessThanWellFounded, Zenon
  <2>3. \A x, y \in Nat: <<y, x>> \in Below <=> y < x
    OBVIOUS
  <2> HIDE DEF Below
  <2>4. PICK x \in S: \A y \in S: ~(<<y, x>> \in Below)
    BY <1>2, <2>2, WFMin, Zenon
  <2>5. ASSUME NEW y \in S PROVE x <= y
    <3>1. x \in Nat /\ y \in Nat
      BY <2>2
    <3>2. ~(y < x)
      BY <2>3, <2>4, <3>1
    <3> QED BY <3>1, <3>2
  <2> QED BY <1>2, <2>5 DEF Least
<1> QED BY <1>1, <1>2

\* The rules of a search that stands behind one that found nothing, or in front
\* of the others, hold the least rule of all.
LEMMA LeastFirst ==
    ASSUME NEW S \in SUBSET (Nat \ {0}), NEW T \in SUBSET (Nat \ {0}),
           \A s \in S, t \in T: s < t
    PROVE  Least(S \cup T) = IF S # {} THEN Least(S) ELSE Least(T)
<1>1. CASE S = {}
  <2>1. S \cup T = T
    BY <1>1
  <2> QED BY <1>1, <2>1
<1>2. CASE S # {}
  <2>1. Least(S) \in S /\ \A q \in S: Least(S) <= q
    BY <1>2, LeastIs
  <2>2. S \cup T # {} /\ S \cup T \in SUBSET (Nat \ {0})
    BY <1>2
  <2>3. Least(S \cup T) \in S \cup T /\ \A q \in S \cup T: Least(S \cup T) <= q
    BY <2>2, LeastIs
  <2>4. Least(S \cup T) <= Least(S) /\ Least(S) \in Nat /\ Least(S \cup T) \in Nat
    BY <2>1, <2>3
  <2>5. Least(S \cup T) \in S
    BY <2>1, <2>3, <2>4
  <2>6. Least(S) <= Least(S \cup T)
    BY <2>1, <2>5
  <2> QED BY <1>2, <2>4, <2>6
<1> QED BY <1>1, <1>2

\* The declared decision is the least of all block rules the search finds.
LEMMA DeclaredIsLeast ==
    ASSUME ParseInv, CompiledInv, pc = "ok", NEW text \in Text
    PROVE  DeclaredBlock(text) = Least(Found(text, Blocking))
<1>1. /\ cfg.blockEnd \in Nat /\ cfg.blockEnd <= Len(cfg.rules) /\ Len(cfg.rules) \in Nat
      /\ cfg.blockEnd = Len(DeclaredTerms("block"))
      /\ \A r \in Blocking: cfg.rules[r] = DeclaredTerms("block")[r]
  BY SnapshotRules DEF TermLists
<1>2. Blocking = 1..Len(DeclaredTerms("block")) /\ Blocking \subseteq All
  BY <1>1 DEF Blocking, All
<1>3. ASSUME NEW r \in Blocking
      PROVE  Occurs(Exactly, Seen(text), Sought(r))
                 <=> Occurs(Declares, text, DeclaredTerms("block")[r])
  BY <1>1, <1>2, SearchFindsTerm
<1>4. Found(text, Blocking) =
          {n \in 1..Len(DeclaredTerms("block")):
               Occurs(Declares, text, DeclaredTerms("block")[n])}
  BY <1>2, <1>3 DEF Found
<1> QED BY <1>4 DEF DeclaredBlock

\* With or without an automaton, and with few rules or many tried before it, the
\* search decides on that rule.
LEMMA SearchDecides ==
    ASSUME ParseInv, CompiledInv, pc = "ok", NEW text \in Text, NEW long \in BOOLEAN
    PROVE  BlockedBy(text, long) = Least(Found(text, Blocking))
<1>1. CASE cfg.fold
  <2>1. compiled.blockMatcher = Blocking
    BY <1>1 DEF CompiledInv, CompileFold, NotCompiled
  <2> QED BY <1>1, <2>1 DEF BlockedBy
<1>2. CASE ~cfg.fold
  <2>1. compiled.exactMatcher = {r \in Blocking \ 1..PrefixRules: cfg.blockEnd >= MatcherMinRules}
    BY <1>2 DEF CompiledInv, CompileExact, NotCompiled, ExactSearched
  <2>2. PrefixRules \in Nat /\ cfg.blockEnd \in Nat
    BY ConfigAssumption, SnapshotRules
  <2>3. Blocking \subseteq Nat \ {0} /\ Prefix \subseteq Blocking
    BY <2>2 DEF Blocking, Prefix
  <2>4. compiled.exactMatcher # {} =>
            compiled.exactMatcher = Blocking \ Prefix
    <3>1. \A r \in Blocking: r <= PrefixRules <=> r \in 1..PrefixRules
      BY <2>2, <2>3
    <3> QED BY <2>1, <3>1 DEF Prefix
  <2>5. \A s \in Prefix, t \in Blocking \ Prefix: s < t
    BY <2>2, <2>3 DEF Prefix
  <2> DEFINE first == Found(text, Prefix)
             last == Found(text, Blocking \ Prefix)
  <2>6. first \cup last = Found(text, Blocking)
    BY <2>3 DEF Found
  <2>7. first \in SUBSET (Nat \ {0}) /\ last \in SUBSET (Nat \ {0}) /\ \A s \in first, t \in last: s < t
    BY <2>3, <2>5 DEF Found
  <2>8. BlockedBy(text, long) = IF first # {} THEN Least(first) ELSE Least(last)
    BY <1>2, <2>4 DEF BlockedBy
  <2> HIDE DEF first, last
  <2> QED BY <2>6, <2>7, <2>8, LeastFirst
<1> QED BY <1>1, <1>2

\* For every text and whether or not it is long enough for the automaton: the
\* first block term the document lists that occurs decides, and a text the
\* preflight takes out of the rewriting holds no strip or obfs term.
THEOREM RulesCompiled ==
    Spec => [](pc = "ok" => BlocksAsDeclared(Text) /\ SkipsNothing(Text))
<1>1. ASSUME ParseInv, CompiledInv, pc = "ok" PROVE BlocksAsDeclared(Text)
  BY <1>1, SearchDecides, DeclaredIsLeast DEF BlocksAsDeclared
<1>2. ASSUME ParseInv, CompiledInv, pc = "ok" PROVE SkipsNothing(Text)
  <2> SUFFICES ASSUME NEW text \in Text, NEW long \in BOOLEAN, Skipped(text, long),
                      NEW r \in All \ Blocking
               PROVE  ~Occurs(Declares, text, cfg.rules[r])
    BY DEF SkipsNothing
  <2>1. compiled.rewriteMatcher # {} /\ Found(text, compiled.rewriteMatcher) = {}
    BY DEF Skipped
  <2>2. compiled.rewriteMatcher = All \ Blocking
    BY <1>2, <2>1 DEF CompiledInv, CompileFold, CompileExact, NotCompiled, Preflighted
  <2>3. ~Occurs(Exactly, Seen(text), Sought(r))
    BY <2>1, <2>2 DEF Found
  <2> QED BY <1>2, <2>3, SearchFindsTerm
<1>3. ParseInv /\ CompiledInv => (pc = "ok" => BlocksAsDeclared(Text) /\ SkipsNothing(Text))
  BY <1>1, <1>2
<1>4. Init => CompiledInv
  BY DEF Init, CompiledInv
<1> QED BY ParseStart, ParseStep, <1>3, <1>4, PTL DEF Spec
=============================================================================
