----------------------------- MODULE Transform -----------------------------
(***************************************************************************)
(* One request body through the rules (transform.go): the selected text    *)
(* leaves are flattened, block rules look at the original text, strip and  *)
(* obfs rules rewrite it rule by rule, an emptied tool description         *)
(* activates the one nested below it, and the constraints of the rewritten *)
(* leaves decide between a new body and a local rejection.                 *)
(*                                                                         *)
(* A text is a sequence of characters; JSON offsets are abstracted to the  *)
(* order of the leaves, which is the order of their tokens in the body.    *)
(* The matcher and the rewriters are the operators of TermSearch here;     *)
(* their algorithms have modules of their own.                             *)
(***************************************************************************)
EXTENDS TermSearch

CONSTANTS
    Mark,               \* the character obfs inserts (obfs.char)
    Configs,            \* the rule sets of the instance
    Bodies,             \* the selected leaves of the bodies of the instance
    Overhead,           \* what the encoding of a carrier adds to its texts
    PrefixRules,        \* exactByteMatcherPrefixRules
    MatcherMinRules,    \* exactByteMatcherMinRules
    MatcherMinText,     \* exactByteMatcherMinTextBytes
    PreflightMinRules,  \* foldRewritePreflightMinRules
    PreflightMinText    \* foldRewritePreflightMinTextBytes

\* Terms in rule order (block, then strip, then obfs) and the two boundaries.
Configuration ==
    {c \in [rules: Seq(Text \ {<<>>}), blockEnd: Nat, stripEnd: Nat, fold: BOOLEAN]:
        c.blockEnd <= c.stripEnd /\ c.stripEnd <= Len(c.rules)}

\* A text, its role and what a rewrite of it must respect; nested is the text of
\* the description below it, <<>> if there is none.
Leaf == [text: Text, role: STRING, nested: Text, badNested: BOOLEAN,
         signed: BOOLEAN, nonEmpty: BOOLEAN, max: Nat]

\* A plain leaf, or an encoded carrier of several with a limit on the whole.
Item == [encoded: BOOLEAN, leaves: Seq(Leaf), max: Nat]

ASSUME TransformAssumption ==
    /\ Mark \in Chars
    /\ \A c \in Configs: c \in Configuration
    /\ \A b \in Bodies: b \in Seq(Item)
    /\ {Overhead, PrefixRules, MatcherMinRules, MatcherMinText,
        PreflightMinRules, PreflightMinText} \subseteq Nat

VARIABLES
    cfg,       \* the snapshot the request loaded
    items,     \* the selected leaves as collected
    pc,        \* where transformSelectedSpans is
    spans,     \* the leaves applyMode works on: text, changed, skip
    sources,   \* the leaves as collected that spans stands for
    rule,      \* the rule the rewrite loop is at
    flat,      \* the first pass's spans while the activated ones are worked on
    result     \* transformResult

vars == <<cfg, items, pc, spans, sources, rule, flat, result>>

Pending == [kind |-> "pending"]

-----------------------------------------------------------------------------
(* What a rule does to a text. *)

Obfuscated(c, text, term) == MarkedWith(c, text, term, Mark)

Rewritten(c, text, r) ==
    IF r <= c.stripEnd THEN Stripped(c, text, c.rules[r])
                       ELSE Obfuscated(c, text, c.rules[r])

-----------------------------------------------------------------------------
(* Block: which rule matches, and in which leaf. *)

NoMatch == [rule |-> 0, span |-> 0]

\* The loops over rules lo..hi and, for each, over the leaves.
RuleMajor(c, lo, hi) ==
    LET hits == {r \in lo..hi: \E i \in 1..Len(spans): Occurs(c, spans[i].text, c.rules[r])}
        first == CHOOSE r \in hits: \A q \in hits: r <= q
        found == {i \in 1..Len(spans): Occurs(c, spans[i].text, c.rules[first])}
    IN  IF hits = {} THEN NoMatch
        ELSE [rule |-> first, span |-> CHOOSE i \in found: \A j \in found: i <= j]

\* matcher.match: the least of the rules lo..hi that occurs in the text.
LeastRule(c, text, lo, hi) ==
    LET hits == {r \in lo..hi: Occurs(c, text, c.rules[r])}
    IN  IF hits = {} THEN 0 ELSE CHOOSE r \in hits: \A q \in hits: r <= q

\* Mutant: a later leaf with the same rule takes the role over.
LastOf(best, r, i) ==
    IF r # 0 /\ (best.rule = 0 \/ r <= best.rule) THEN [rule |-> r, span |-> i] ELSE best

\* Rule r is the least of leaf i; an earlier leaf keeps the match it shares.
FirstOf(best, r, i) ==
    IF r # 0 /\ (best.rule = 0 \/ r < best.rule) THEN [rule |-> r, span |-> i] ELSE best

\* The loop over the leaves with an automaton of the rules lo..hi.
SpanMajor(c, lo, hi) ==
    LET best[i \in 0..Len(spans)] ==
            IF i = 0 THEN NoMatch
            ELSE FirstOf(best[i - 1], LeastRule(c, spans[i].text, lo, hi), i)
    IN  best[Len(spans)]

\* How long the texts of a list of leaves are together.
TotalText(list) == Len(FlattenSeq([i \in 1..Len(list) |-> list[i].text]))

\* matchExactBlock: a few rules one by one, then the automaton when the rules
\* and the text are large enough.
ExactBlock(c) ==
    LET automaton == c.blockEnd >= MatcherMinRules
        prefix == IF ~automaton THEN 0
                  ELSE IF PrefixRules < c.blockEnd THEN PrefixRules ELSE c.blockEnd
        head == RuleMajor(c, 1, prefix)
    IN  IF head # NoMatch THEN head
        ELSE IF automaton /\ TotalText(spans) >= MatcherMinText
        THEN SpanMajor(c, prefix + 1, c.blockEnd)
        ELSE RuleMajor(c, prefix + 1, c.blockEnd)

BlockMatch(c) == IF c.fold THEN SpanMajor(c, 1, c.blockEnd) ELSE ExactBlock(c)

-----------------------------------------------------------------------------
(* The state machine. *)

FlatLeaves(body) == FlattenSeq([i \in 1..Len(body) |-> body[i].leaves])

Fresh(leaves) == [i \in 1..Len(leaves) |-> [text |-> leaves[i].text, changed |-> FALSE,
                                           skip |-> FALSE]]

Init ==
    /\ cfg \in Configs
    /\ items \in Bodies
    /\ pc = "block"
    /\ sources = FlatLeaves(items)
    /\ spans = Fresh(sources)
    /\ rule = 0
    /\ flat = <<>>
    /\ result = Pending

\* Mutant: the preflight automaton holds the strip rules only.
PreflightStripOnly(c, text) ==
    /\ c.fold /\ Len(c.rules) - c.blockEnd >= PreflightMinRules
    /\ Len(text) >= PreflightMinText
    /\ \A r \in (c.blockEnd + 1)..c.stripEnd: ~Occurs(c, text, c.rules[r])

\* A long text no rewrite rule occurs in is left out of the rewrite loops.
Preflight(c, text) ==
    /\ c.fold /\ Len(c.rules) - c.blockEnd >= PreflightMinRules
    /\ Len(text) >= PreflightMinText
    /\ \A r \in (c.blockEnd + 1)..Len(c.rules): ~Occurs(c, text, c.rules[r])

\* applyMode, block rules and what it prepares for the rewrite loops.
Block ==
    /\ pc = "block"
    /\ LET match == BlockMatch(cfg)
       IN  IF match # NoMatch
           THEN /\ result' = [kind |-> "blocked", rule |-> match.rule,
                              role |-> sources[match.span].role]
                /\ pc' = "done"
                /\ UNCHANGED <<spans, rule>>
           ELSE /\ pc' = "rewrite"
                /\ rule' = cfg.blockEnd + 1
                /\ spans' = [i \in 1..Len(spans) |->
                                [spans[i] EXCEPT !.changed = FALSE,
                                                 !.skip = Preflight(cfg, spans[i].text)]]
                /\ UNCHANGED result
    /\ UNCHANGED <<cfg, items, sources, flat>>

\* Mutant: the originals are never kept.
NeverRetain(c) == FALSE

\* Strip and obfs rules together can cancel: then the original texts are kept to
\* tell what changed.
RetainOriginal(c) == c.blockEnd < c.stripEnd /\ c.stripEnd < Len(c.rules)

RewriteSpan(c, r, s) ==
    IF s.skip \/ ~Occurs(c, s.text, c.rules[r]) THEN s
    ELSE [s EXCEPT !.text = Rewritten(c, @, r), !.changed = @ \/ ~RetainOriginal(c)]

\* One rule over all leaves: first the strip rules, then the obfs rules.
RewriteRule ==
    /\ pc = "rewrite" /\ rule <= Len(cfg.rules)
    /\ spans' = [i \in 1..Len(spans) |-> RewriteSpan(cfg, rule, spans[i])]
    /\ rule' = rule + 1
    /\ UNCHANGED <<cfg, items, pc, sources, flat, result>>

\* The changed flags of the pass just finished.
Settled ==
    [i \in 1..Len(spans) |->
        IF RetainOriginal(cfg)
        THEN [spans[i] EXCEPT !.changed = spans[i].text # sources[i].text]
        ELSE spans[i]]

\* Mutant: an emptied description leaves the nested one as it is.
NoActivation(done) == <<>>

\* The nested descriptions that become effective because theirs was emptied.
Activated(done) ==
    FlattenSeq([i \in 1..Len(done) |->
        IF done[i].changed /\ done[i].text = <<>> /\ sources[i].nested # <<>>
        THEN <<[sources[i] EXCEPT !.text = sources[i].nested, !.nested = <<>>]>>
        ELSE <<>>])

\* transformSelectedSpans after the first pass.
FirstPassDone ==
    /\ pc = "rewrite" /\ rule > Len(cfg.rules) /\ flat = <<>>
    /\ IF \A i \in 1..Len(spans): ~Settled[i].changed
       THEN /\ result' = [kind |-> "noop"]
            /\ pc' = "done"
            /\ UNCHANGED <<spans, sources, flat>>
       ELSE /\ flat' = Settled
            /\ sources' = Activated(Settled)
            /\ spans' = Fresh(sources')
            /\ pc' = IF sources' = <<>> THEN "finish" ELSE "block"
            /\ UNCHANGED result
    /\ UNCHANGED <<cfg, items, rule>>

\* The second pass ends: only its changed flags matter.
SecondPassDone ==
    /\ pc = "rewrite" /\ rule > Len(cfg.rules) /\ flat # <<>>
    /\ spans' = Settled
    /\ pc' = "finish"
    /\ UNCHANGED <<cfg, items, sources, rule, flat, result>>

\* Mutants: constraints asked of every leaf; carriers forgotten.
LeafRejectedAlways(leaf, s) ==
    leaf.signed \/ (leaf.nonEmpty /\ s.text = <<>>) \/ (leaf.max > 0 /\ Len(s.text) > leaf.max)
CarrierNeverRejected(item, done) == FALSE

\* changedSpanInvalidMessage.
LeafRejected(leaf, s) ==
    s.changed /\ \/ leaf.signed
                 \/ leaf.nonEmpty /\ s.text = <<>>
                 \/ leaf.max > 0 /\ Len(s.text) > leaf.max

\* The same for the rebuilt text of a carrier of the leaves done.
CarrierRejected(item, done) ==
    /\ item.encoded /\ item.max > 0
    /\ \E i \in 1..Len(done): done[i].changed
    /\ Overhead + TotalText(done) > item.max

\* The flat spans of one item.
PartOf(k) ==
    LET start == Len(FlatLeaves(SubSeq(items, 1, k - 1)))
    IN  SubSeq(flat, start + 1, start + Len(items[k].leaves))

BadNested ==
    \E i \in 1..Len(flat): flat[i].changed /\ flat[i].text = <<>>
                           /\ FlatLeaves(items)[i].badNested

AnyRejected ==
    \/ \E i \in 1..Len(flat): LeafRejected(FlatLeaves(items)[i], flat[i])
    \/ \E k \in 1..Len(items): CarrierRejected(items[k], PartOf(k))

\* The rest of transformSelectedSpans: reject or rebuild.
Finish ==
    /\ pc = "finish"
    /\ result' = IF BadNested \/ AnyRejected THEN [kind |-> "invalid"]
                 ELSE [kind |-> "body",
                       texts |-> [i \in 1..Len(flat) |-> flat[i].text],
                       nested |-> [i \in 1..Len(spans) |-> spans[i].text]]
    /\ pc' = "done"
    /\ UNCHANGED <<cfg, items, spans, sources, rule, flat>>

Next == Block \/ RewriteRule \/ FirstPassDone \/ SecondPassDone \/ Finish

Spec == Init /\ [][Next]_vars

-----------------------------------------------------------------------------
(* Properties.  Original, Final and FirstBlock read the request and the      *)
(* configuration alone: what the rules mean, without passes or flags.        *)

Original == FlatLeaves(items)

\* All rewrite rules in order on one text.
Final(text) ==
    LET after[r \in cfg.blockEnd..Len(cfg.rules)] ==
            IF r = cfg.blockEnd THEN text ELSE Rewritten(cfg, after[r - 1], r)
    IN  after[Len(cfg.rules)]

Blocks(text) == \E r \in 1..cfg.blockEnd: Occurs(cfg, text, cfg.rules[r])

\* The leaves a filtered body would have emptied.
Emptied == {i \in 1..Len(Original): Original[i].text # <<>> /\ Final(Original[i].text) = <<>>}

\* A body whose leaves hold a block term is blocked, with the first term in rule
\* order that occurs at all and the role of the first leaf that holds it,
\* whichever search found it (README "block checks rules before document order").
BlockIsFirst ==
    (pc # "block" /\ \E i \in 1..Len(Original): Blocks(Original[i].text)) =>
        /\ result.kind = "blocked"
        /\ \E i \in 1..Len(Original):
              /\ result.role = Original[i].role
              /\ Occurs(cfg, Original[i].text, cfg.rules[result.rule])
              /\ \A j \in 1..Len(Original), r \in 1..result.rule:
                    Occurs(cfg, Original[j].text, cfg.rules[r]) => r = result.rule /\ j >= i

\* A leaf counts as changed exactly if its final text differs from the original:
\* rules that cancel each other leave the leaf's bytes alone.
ChangedIsDifferent ==
    pc \in {"finish", "done"} =>
        \A i \in 1..Len(flat): flat[i].changed <=> flat[i].text # Original[i].text

\* In a forwarded body every effective text went through all rules: each leaf,
\* whether or not a preflight left it out of the loops, and each nested
\* description that took over from an emptied one.  The original body goes on
\* exactly if no rule blocks and every leaf comes out as it went in.
ForwardedIsFiltered ==
    /\ pc = "done" =>
        (result.kind = "noop" <=>
            \A i \in 1..Len(Original):
                ~Blocks(Original[i].text) /\ Final(Original[i].text) = Original[i].text)
    /\ result.kind = "body" =>
        /\ \A i \in 1..Len(Original):
              ~Blocks(Original[i].text) /\ result.texts[i] = Final(Original[i].text)
        /\ \A i \in Emptied: ~Original[i].badNested /\ ~Blocks(Original[i].nested)
        /\ result.nested = FlattenSeq([i \in 1..Len(Original) |->
              IF i \in Emptied /\ Original[i].nested # <<>> THEN <<Final(Original[i].nested)>>
                                                           ELSE <<>>])

\* A forwarded body keeps every constraint a rewrite could break, on leaves and
\* on the carriers that enclose them.
ForwardedIsValid ==
    result.kind = "body" =>
        /\ \A i \in 1..Len(Original):
              result.texts[i] # Original[i].text =>
                  /\ ~Original[i].signed
                  /\ Original[i].nonEmpty => result.texts[i] # <<>>
                  /\ Original[i].max > 0 => Len(result.texts[i]) <= Original[i].max
        /\ \A k \in 1..Len(items): items[k].encoded /\ items[k].max > 0 =>
              LET texts == [i \in 1..Len(items[k].leaves) |-> Final(items[k].leaves[i].text)]
              IN  \/ \A i \in 1..Len(texts): texts[i] = items[k].leaves[i].text
                  \/ Overhead + Len(FlattenSeq(texts)) <= items[k].max

\* A refusal has a cause in what the rules find or change: a text that already
\* broke a limit, or is protected, passes as long as the rules leave it alone.
RefusalHasCause ==
    /\ result.kind = "blocked" =>
          \/ \E i \in 1..Len(Original): Blocks(Original[i].text)
          \/ \E i \in Emptied: Blocks(Original[i].nested)
    /\ result.kind = "invalid" =>
          \/ \E i \in Emptied: Original[i].badNested
          \/ \E i \in 1..Len(Original): LET t == Final(Original[i].text) IN
                /\ t # Original[i].text
                /\ \/ Original[i].signed
                   \/ Original[i].nonEmpty /\ t = <<>>
                   \/ Original[i].max > 0 /\ Len(t) > Original[i].max
          \/ \E k \in 1..Len(items): LET leaves == items[k].leaves IN
                /\ items[k].encoded
                /\ \E i \in 1..Len(leaves): Final(leaves[i].text) # leaves[i].text
                /\ items[k].max < Overhead
                     + Len(FlattenSeq([i \in 1..Len(leaves) |-> Final(leaves[i].text)]))
=============================================================================
