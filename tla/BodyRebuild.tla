----------------------------- MODULE BodyRebuild -----------------------------
(***************************************************************************)
(* One request body from its bytes to its bytes: the nesting guard of      *)
(* NestingGuard, the offsets of the selected tokens (selectors.go) through *)
(* flattening, activation and sorting, and rebuildBody, which puts new     *)
(* tokens between the bytes that stay (transform.go).  Which strings are   *)
(* selected is the subject of Selectors, what the rules make of them the   *)
(* subject of Transform: here any text may become any other.               *)
(*                                                                         *)
(* A body is a sequence of segments: bytes no selector takes, the token of *)
(* a selected string, the description of a tool and the one kept as nested *)
(* with it, wherever in the body the two stand, and the token of a         *)
(* carrier, whose text is a body again.                                    *)
(***************************************************************************)
EXTENDS NestingGuard, FiniteSets

CONSTANTS
    Documents,  \* the bodies of the instance
    NewTexts    \* what the rules may make of a text

-----------------------------------------------------------------------------
(* Bytes and tokens. *)

\* What the JSON encoder writes for a text.
Encode(text) ==
    <<Quote>>
    \o FlattenSeq([i \in DOMAIN text |->
          IF text[i] \in {Quote, Escape} THEN <<Escape, text[i]>> ELSE <<text[i]>>])
    \o <<Quote>>

\* A segment: its bytes in the body and the text they stand for, and for a
\* description the tool of the body it belongs to.
Segment(kind, raw, text, inner) ==
    [kind |-> kind, tool |-> 0, raw |-> raw, text |-> text, inner |-> inner]

Segments(kinds, inner) ==
    [kind: kinds, tool: Nat, raw: Seq(Byte), text: Seq(Byte), inner: inner]
Plain == Segments({"raw", "text"}, {<<>>})
Piece == Segments({"raw", "text", "tool", "nested"}, {<<>>}) \cup Segments({"carrier"}, Seq(Plain))

Render(segments) == FlattenSeq([i \in DOMAIN segments |-> segments[i].raw])

Carrier(segments) == Segment("carrier", Encode(Render(segments)), Render(segments), segments)

\* The nested description that goes with a tool's own: the one of the same tool,
\* any number of other tokens before or behind it.
NestedOf(segments, i) ==
    {k \in DOMAIN segments: /\ segments[i].kind = "tool" /\ segments[k].kind = "nested"
                            /\ segments[k].tool = segments[i].tool}

\* A token has bytes, a tool one nested description, its own, and a carrier is
\* the encoding of what it carries.
WellFormed(segments) ==
    /\ segments \in Seq(Piece)
    /\ \A i \in DOMAIN segments:
          /\ segments[i].kind # "raw" => segments[i].raw # <<>>
          /\ segments[i].kind = "carrier" =>
                /\ segments[i] = Carrier(segments[i].inner)
                /\ \A k \in DOMAIN segments[i].inner:
                      segments[i].inner[k].kind = "text" => segments[i].inner[k].raw # <<>>
    /\ \A i, j \in DOMAIN segments: \A k \in NestedOf(segments, i): \A m \in NestedOf(segments, j):
          i = j <=> k = m

ASSUME RebuildAssumption ==
    /\ \A segments \in Documents: WellFormed(segments)
    /\ \A text \in NewTexts: text \in Seq(Byte)

TextKinds == {"text", "tool", "nested"}

\* The texts that have a rewrite: <<i>> in the body, <<i, k>> inside a carrier.
Ids(segments) ==
    {<<i>>: i \in {j \in DOMAIN segments: segments[j].kind \in TextKinds}}
    \cup UNION {{<<i, k>>: k \in {j \in DOMAIN segments[i].inner: segments[i].inner[j].kind = "text"}}:
                    i \in {j \in DOMAIN segments: segments[j].kind = "carrier"}}

VARIABLES
    body,       \* the request body, as segments
    rewrites,   \* what the rules make of each of its texts
    stage,      \* where the call is
    selected,   \* the selected spans
    flatSpans,  \* the leaves applyMode has worked on
    reply       \* transformResult

input == <<body, rewrites>>
rebuild == <<input, stage, guard, selected, flatSpans, reply>>

RebuildInit ==
    /\ body \in Documents
    /\ rewrites \in [Ids(body) -> NewTexts]
    /\ stage = "guard"
    /\ bytes = Render(body) /\ GuardInit
    /\ selected = <<>> /\ flatSpans = <<>>
    /\ reply = [kind |-> "pending"]

Reply(answer) == stage' = "done" /\ reply' = answer

\* jsonNestingWithin.
Guard == GuardNext /\ UNCHANGED <<input, stage, selected, flatSpans, reply>>

\* collectTextSpans: only what the guard lets through goes to the readers.
Validate ==
    /\ stage = "guard" /\ verdict # "reading"
    /\ IF verdict = "within" /\ Reads(bytes) THEN stage' = "collect" /\ UNCHANGED reply
       ELSE Reply([kind |-> "refused"])
    /\ UNCHANGED <<input, guard, selected, flatSpans>>

-----------------------------------------------------------------------------
(* Spans.  Offsets count from 0, end exclusive, in the bytes of the body or, *)
(* for the children of a carrier, in its text.                               *)

StartOf(segments, i) == Len(FlattenSeq([k \in 1..(i - 1) |-> segments[k].raw]))

SpanAt(segments, i, id) ==
    [id |-> id, start |-> StartOf(segments, i),
     end |-> StartOf(segments, i) + Len(segments[i].raw), text |-> segments[i].text,
     changed |-> FALSE, nested |-> <<>>, encoded |-> FALSE, children |-> <<>>]

\* A text, with the nested description if it is a tool's.
TextSpan(i) ==
    LET below == NestedOf(body, i)
        nested == CHOOSE k \in below: TRUE
    IN  [SpanAt(body, i, <<i>>) EXCEPT
            !.nested = IF below = {} THEN <<>> ELSE <<SpanAt(body, nested, <<nested>>)>>]

CarrierSpan(i) ==
    LET inner == body[i].inner
    IN  [SpanAt(body, i, <<i>>) EXCEPT
            !.encoded = TRUE,
            !.children = FlattenSeq([k \in DOMAIN inner |->
                IF inner[k].kind = "text" THEN <<SpanAt(inner, k, <<i, k>>)>> ELSE <<>>])]

SpanFor(i) == IF body[i].kind = "carrier" THEN CarrierSpan(i) ELSE TextSpan(i)

Selectable == {i \in DOMAIN body: body[i].kind \in {"text", "tool", "carrier"}}

\* The collectors follow their lists of keys, not the body: any order.
Collect ==
    /\ stage = "collect"
    /\ \E order \in SetToSeqs(Selectable): selected' = [n \in DOMAIN order |-> SpanFor(order[n])]
    /\ stage' = "rewrite"
    /\ UNCHANGED <<input, guard, flatSpans, reply>>

\* sortAndValidateSpans: sorted by their start ...
Ascending(list, order) ==
    \A i, j \in DOMAIN list: i < j => list[order[i]].start <= list[order[j]].start

Order(list) == CHOOSE order \in SetToSeqs(DOMAIN list): Ascending(list, order)

Sorted(list) == [i \in DOMAIN list |-> list[Order(list)[i]]]

\* ... inside the text they are in and one after the other.
Valid(list, length) ==
    \A i \in DOMAIN list:
        /\ 0 <= list[i].start /\ list[i].start < list[i].end /\ list[i].end <= length
        /\ i > 1 => list[i - 1].end <= list[i].start

Failed == [kind |-> "error"]

-----------------------------------------------------------------------------
(* transformSelectedSpans, as far as offsets are concerned. *)

Leaves(span) == IF span.encoded THEN Sorted(span.children) ELSE <<span>>

\* applyMode.
Applied(list) ==
    [i \in DOMAIN list |-> [list[i] EXCEPT !.text = rewrites[list[i].id],
                                           !.changed = rewrites[list[i].id] # list[i].text]]

AnyChanged(list) == \E i \in DOMAIN list: list[i].changed

\* The spans in the order of their tokens, carriers flattened in place.
Flattened(list) == FlattenSeq([i \in DOMAIN list |-> Leaves(list[i])])

Rewrite ==
    /\ stage = "rewrite"
    /\ selected' = Sorted(selected)
    /\ flatSpans' = Applied(Flattened(selected'))
    /\ IF \/ ~Valid(selected', Len(bytes))
          \/ \E i \in DOMAIN selected':
                selected'[i].encoded /\ ~Valid(Leaves(selected'[i]), Len(selected'[i].text))
       THEN Reply(Failed)
       ELSE IF ~AnyChanged(flatSpans') THEN Reply([kind |-> "noop"])
       ELSE stage' = "settle" /\ UNCHANGED reply
    /\ UNCHANGED <<input, guard>>

\* Mutant: the bytes before a token are taken from where the last one began.
CopyFromStart(old, done, span) == SubSeq(old, done.from + 1, span.start)

\* The bytes between two tokens.
Between(old, done, span) == SubSeq(old, done.end + 1, span.start)

\* The changed spans lie inside the text and one after the other.
Apart(list, length) ==
    \A i \in DOMAIN list:
        list[i].changed =>
            /\ 0 <= list[i].start /\ list[i].start < list[i].end /\ list[i].end <= length
            /\ \A k \in 1..(i - 1): list[k].changed => list[k].end <= list[i].start

\* rebuildBody: the bytes with the changed spans replaced.  The length it
\* reserves is below that of the body, since a token has two quotes at least.
Rebuilt(old, list) ==
    LET done[n \in 0..Len(list)] ==
            IF n = 0 THEN [out |-> <<>>, from |-> 0, end |-> 0]
            ELSE IF ~list[n].changed THEN done[n - 1]
            ELSE [out |-> done[n - 1].out \o Between(old, done[n - 1], list[n])
                              \o Encode(list[n].text),
                  from |-> list[n].start, end |-> list[n].end]
        last == done[Len(list)]
    IN  IF ~Apart(list, Len(old)) THEN Failed
        ELSE IF ~AnyChanged(list) THEN [kind |-> "noop"]
        ELSE [kind |-> "body", bytes |-> last.out \o SubSeq(old, last.end + 1, Len(old))]

\* Each span's leaves, back in their place: a carrier is changed if a child is,
\* and its text is rebuilt.  An error of rebuildBody would end the call here; it
\* would leave Failed.bytes, a field that is not there.
PartFor(i) ==
    LET start == Len(FlattenSeq([k \in 1..(i - 1) |-> Leaves(selected[k])]))
    IN  SubSeq(flatSpans, start + 1, start + Len(Leaves(selected[i])))

Gathered(i) ==
    LET span == selected[i]
        part == PartFor(i)
    IN  IF ~span.encoded THEN part[1]
        ELSE IF AnyChanged(part)
        THEN [span EXCEPT !.changed = TRUE, !.children = part, !.text = Rebuilt(span.text, part).bytes]
        ELSE [span EXCEPT !.children = part]

\* The descriptions that take over from an emptied one, rewritten.
TakingOver ==
    Applied(Sorted(FlattenSeq([i \in DOMAIN flatSpans |->
        IF flatSpans[i].changed /\ flatSpans[i].text = <<>> THEN flatSpans[i].nested ELSE <<>>])))

ChangedOf(list) ==
    FlattenSeq([i \in DOMAIN list |-> IF list[i].changed THEN <<list[i]>> ELSE <<>>])

\* Mutant: the spans of the activated descriptions stay at the end.
Appended(list, more) == list \o more

\* Changed ones join the spans, which are sorted again.
Joined(list, more) == Sorted(list \o more)

Settle ==
    /\ stage = "settle"
    /\ selected' = Joined([i \in DOMAIN selected |-> Gathered(i)], ChangedOf(TakingOver))
    /\ IF TakingOver # <<>> /\ ~Valid(selected', Len(bytes)) THEN Reply(Failed)
       ELSE stage' = "rebuild" /\ UNCHANGED reply
    /\ UNCHANGED <<input, guard, flatSpans>>

Rebuild ==
    /\ stage = "rebuild"
    /\ Reply(Rebuilt(bytes, selected))
    /\ UNCHANGED <<input, guard, selected, flatSpans>>

RebuildNext ==
    \/ Guard \/ Validate
    \/ Collect \/ Rewrite \/ Settle \/ Rebuild

RebuildSpec == RebuildInit /\ [][RebuildNext]_rebuild

-----------------------------------------------------------------------------
(* Properties. *)

\* A text the rules change.
Altered(segments, path, i) ==
    segments[i].kind \in TextKinds /\ rewrites[Append(path, i)] # segments[i].text

\* The segments of a body after the rules: a changed token is encoded anew, a
\* nested description if the tool's own was emptied.
Replaced(segments, path) ==
    LET emptied(k) == \E i \in DOMAIN segments:
                          /\ k \in NestedOf(segments, i)
                          /\ Altered(segments, path, i) /\ rewrites[Append(path, i)] = <<>>
    IN  [i \in DOMAIN segments |->
            IF Altered(segments, path, i) /\ (segments[i].kind = "nested" => emptied(i))
            THEN [segments[i] EXCEPT !.raw = Encode(rewrites[Append(path, i)])] ELSE segments[i]]

\* A carrier is encoded anew if a text in it changed.
Renewed ==
    LET inside(i) == Replaced(body[i].inner, <<i>>)
    IN  [i \in DOMAIN body |->
            IF body[i].kind = "carrier"
               /\ \E k \in DOMAIN body[i].inner: Altered(body[i].inner, <<i>>, k)
            THEN Carrier(inside(i)) ELSE Replaced(body, <<>>)[i]]

Expected == Render(Renewed)

\* The new body is the old one with exactly the changed tokens replaced and
\* every other byte as it was, in whatever order the spans were collected; no
\* selection of distinct tokens fails.
RebuildReplaces ==
    /\ reply.kind # "error"
    /\ reply.kind = "body" => reply.bytes = Expected
    /\ reply.kind = "noop" => Expected = bytes
=============================================================================
