--------------------------- MODULE MCConfigParse ---------------------------
(***************************************************************************)
(* ConfigParse on documents of up to five keys in every order: words as a  *)
(* sequence or in buckets with mode, obfs.char and ignore_case around      *)
(* them, the filter keys, and documents that are malformed, duplicate a    *)
(* key or have an unknown one; on texts of both cases.  The thresholds are *)
(* scaled down to two, one rule being tried before the automaton.          *)
(***************************************************************************)
EXTENDS CompiledRules

MCFoldClass == [c \in {"a", "A", "b", "w", "z"} |-> IF c = "A" THEN "a" ELSE c]

MCTexts ==
    {<<>>, <<"a">>, <<"A">>, <<"b">>, <<"z">>, <<"a", "b">>, <<"A", "b">>, <<"b", "a">>,
     <<"w", "b", "z", "a">>, <<"a", "b", "A", "b", "a">>, <<"A", "z", "b", "z">>,
     <<"b", "z", "A", "z", "b">>, <<"b", "w", "A", "b", "w">>}

Orders(S) == {s \in [1..Cardinality(S) -> S]: \A m, n \in 1..Cardinality(S): s[m] = s[n] => m = n}

Lists == {<<>>, <<<<"a", "b">>>>, <<<<"a", "b">>, <<"b">>, <<"b", "z", "a">>>>, <<<<"a">>, <<>>>>}
Bucketed == {[NoWords EXCEPT !.block = b, !.strip = s, !.obfs = o]:
                b \in {<<>>, <<<<"A">>, <<"b">>, <<"a", "b">>>>},
                s \in {<<>>, <<<<"z">>>>},
                o \in {<<>>, <<<<"a", "b", "A">>, <<"b", "z">>>>, <<<<"b", "w">>, <<"a", "b">>>>, <<<<"a">>>>}}
MCWords == {[NoWords EXCEPT !.legacy = TRUE, !.list = l]: l \in Lists} \cup Bucketed

Base == [keys |-> <<>>, malformed |-> {}, mode |-> "block", fold |-> TRUE, words |-> NoWords,
         mark |-> "z", filterMode |-> "include", filterLogic |-> "and",
         filter |-> [apiKeys |-> <<"k">>, models |-> <<"m*">>],
         scope |-> [formats |-> {"gemini"}, roles |-> {}]]

RuleKeys == {{"words"}, {"words", "ignore_case"}, {"words", "mode"}, {"words", "mode", "obfs"},
             {"words", "mode", "obfs", "ignore_case", "store"}}
MCDocuments ==
    {[Base EXCEPT !.keys = k, !.words = w, !.mode = m]:
        k \in UNION {Orders(S): S \in RuleKeys}, w \in MCWords, m \in {"block", "strip", "obfs"}}
    \cup {[Base EXCEPT !.keys = k]:
        k \in Orders({"filter", "filter_mode", "filter_logic", "scope", "priority"})}
    \cup {[Base EXCEPT !.keys = k, !.malformed = b]:
        k \in Orders({"words", "filter", "mode"}) \cup {<<"mode", "words", "mode">>, <<"wrods">>, <<>>},
        b \in {{}, {"filter"}, {"mode"}}}
=============================================================================
