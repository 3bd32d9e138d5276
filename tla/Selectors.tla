------------------------------ MODULE Selectors ------------------------------
(***************************************************************************)
(* selectTextSpans (selectors.go): the texts of a body that the rules of   *)
(* the enabled roles apply to, for each source format of the host.  One    *)
(* step takes one request body to its spans; what is hard is that a body   *)
(* can hold everything at once, that several collectors walk over the same *)
(* values, and that the roles enabled decide which of them run.            *)
(***************************************************************************)
EXTENDS JsonBody

CONSTANTS
    Bodies,         \* [format, json] of the instance
    RoleSets        \* the sets of roles it enables

ASSUME RolesAssumption == RoleSets \subseteq SUBSET Scopes

OpenAI == INSTANCE SelectOpenAI
Claude == INSTANCE SelectClaude
Gemini == INSTANCE SelectGemini
Interactions == INSTANCE SelectInteractions

VARIABLES
    body,       \* the request body and the source format
    roles,      \* the enabled roles (scope of the configuration)
    outcome,    \* what selectTextSpans returns
    spans       \* the spans it returns

vars == <<body, roles, outcome, spans>>

Init ==
    /\ body \in Bodies
    /\ roles \in RoleSets
    /\ outcome = "pending"
    /\ spans = <<>>

\* Each format knows some of the roles.
selectorHasEnabledRole(format, enabled) ==
    CASE format = "claude" -> enabled \ {"developer"} # {}
      [] format = "gemini" -> enabled \ {"tool"} # {}
      [] OTHER -> enabled # {}

\* The collector of the format, for a body that is not refused.
Collect(json, format, enabled) ==
    LET root == At(<<>>, json)
    IN  IF enabled # {} /\ ~selectorHasEnabledRole(format, enabled) THEN <<>>
        ELSE CASE format = "openai" -> OpenAI!collectOpenAI(root, enabled)
               [] format = "openai-response" -> OpenAI!collectOpenAIResponses(root, enabled)
               [] format = "claude" -> Claude!collectClaude(root, enabled)
               [] format = "gemini" -> Gemini!collectGemini(root, enabled)
               [] format = "interactions" -> Interactions!collectInteractions(root, enabled)

\* collectTextSpans refuses what is no object or has two members of one name.
Refuse ==
    /\ outcome = "pending"
    /\ body.json.kind # "object" \/ hasDuplicateJSONMembers(body.json)
    /\ outcome' = "refused"
    /\ UNCHANGED <<body, roles, spans>>

\* sortAndValidateSpans: two spans on one text overlap.
Overlap(found) == \E i, j \in DOMAIN found: i < j /\ found[i].at = found[j].at

\* An overlap fails the call, on which the host goes on with the original body.
Select ==
    /\ outcome = "pending"
    /\ body.json.kind = "object" /\ ~hasDuplicateJSONMembers(body.json)
    /\ LET found == Collect(body.json, body.format, roles)
       IN  IF Overlap(found) THEN outcome' = "invalid" /\ spans' = <<>>
           ELSE outcome' = "spans" /\ spans' = found
    /\ UNCHANGED <<body, roles>>

Next == Refuse \/ Select

Spec == Init /\ [][Next]_vars

-----------------------------------------------------------------------------
(* Properties. *)

\* The texts the rules see: a carrier stands for those it encodes.
Texts(found) ==
    UNION {IF found[i].carrier THEN {found[i].children[k].at: k \in DOMAIN found[i].children}
                               ELSE {found[i].at}: i \in DOMAIN found}

\* No text is selected twice, whichever collectors walk over it: the call would
\* fail and the body go on unfiltered.  Neither is one inside a carrier, and a
\* nested description that joins the spans later lies on none of them and on no
\* other one that may join.
SpansDisjoint ==
    LET joined == FlattenSeq([i \in DOMAIN spans |-> <<spans[i].at>> \o spans[i].nested])
    IN  /\ outcome # "invalid"
        /\ \A i \in DOMAIN spans: ~Overlap(spans[i].children)
        /\ \A i, j \in DOMAIN joined: i < j => joined[i] # joined[j]

\* The enabled roles choose among the spans of a body and decide nothing else:
\* no early return and no test for several roles loses a text of an enabled
\* one.  Only the instructions of the Responses API belong to the developer if
\* the system is not enabled.
RolesChoose ==
    LET all == Collect(body.json, body.format, Scopes)
        recast(s) == IF body.format = "openai-response" /\ s.at = <<"instructions">>
                        /\ "system" \notin roles
                     THEN [s EXCEPT !.role = "developer"] ELSE s
    IN  outcome = "spans" =>
            spans = SelectSeq([i \in DOMAIN all |-> recast(all[i])], LAMBDA s: s.role \in roles)

RECURSIVE Reversed(_)
Reversed(val) ==
    [val EXCEPT !.in = IF val.kind = "array"
        THEN [i \in DOMAIN val.in |-> [val.in[i] EXCEPT !.val = Reversed(val.in[i].val)]]
        ELSE Reverse([i \in DOMAIN val.in |-> [val.in[i] EXCEPT !.val = Reversed(val.in[i].val)]])]

\* What the string at a position encodes: the check for two members of one name
\* ends at a string.
Held(path) ==
    FoldLeft(LAMBDA val, key: (CHOOSE m \in ToSet(val.in): m.key = key).val, body.json, path).in

\* A span as far as every reader must take it the same way: not what is inside a
\* carrier whose own JSON has two members of one name.
Settled(span) ==
    IF \E m \in ToSet(Held(span.at)): hasDuplicateJSONMembers(m.val)
    THEN [span EXCEPT !.carrier = FALSE, !.children = <<>>] ELSE span

\* A reader that takes the last of several members of a name, escaped or not,
\* finds the same texts in a body that is not refused: what was filtered is what
\* is read.  Inside a carrier it is only so if that JSON has no such members, for
\* they are not refused there; the rest of the body is read alike even then.
ReadersAgree ==
    outcome = "spans" =>
        LET other == Collect(Reversed(body.json), body.format, roles)
        IN  {Settled(s): s \in ToSet(spans)} = {Settled(s): s \in ToSet(other)}

RECURSIVE Emptied(_, _, _)
Emptied(val, path, positions) ==
    [val EXCEPT
        !.str = IF path \in positions THEN "" ELSE val.str,
        !.in = [i \in DOMAIN val.in |->
                   [val.in[i] EXCEPT !.val = Emptied(val.in[i].val, Append(path, val.in[i].key),
                                                     positions)]]]

\* A rewrite that empties texts brings no text into effect that the rules have
\* not seen, except the one kept as nested with an emptied description.
EmptyingUncoversNested ==
    outcome = "spans" =>
        \A positions \in {Texts(spans)} \cup {{at}: at \in Texts(spans)}:
            LET after == Collect(Emptied(body.json, <<>>, positions), body.format, roles)
                kept == UNION {ToSet(spans[i].nested):
                                  i \in {j \in DOMAIN spans: spans[j].at \in positions}}
            IN  Texts(after) \subseteq (Texts(spans) \ positions) \cup kept

\* Whether a Gemini content names its turn itself, by its role or as the answer
\* to a function call.
TurnNamed(content) ==
    CASE Gemini!Named(Get(content, "role")) -> StrOf(Get(content, "role"))
      [] Gemini!geminiHasFunctionResponse(content) -> "user"
      [] OTHER -> ""

\* The turns of a Gemini conversation alternate from the last content that names
\* its turn, or from a user at the beginning, over contents of every kind and
\* whatever roles are enabled; a text is filtered as what its turn makes it.
TurnsAlternate ==
    LET contents == Elements(Get(At(<<>>, body.json), "contents"))
        anchors(i) == {j \in 1..i: TurnNamed(contents[j]) # ""}
        anchor(i) == CHOOSE j \in anchors(i): \A k \in anchors(i): k <= j
        users(i) == IF anchors(i) = {} THEN i % 2 = 1
                    ELSE (TurnNamed(contents[anchor(i)]) = "user") <=> (i - anchor(i)) % 2 = 0
    IN  body.format = "gemini" =>
            \A s \in ToSet(spans), i \in DOMAIN contents:
                IsPrefix(contents[i].at, s.at) =>
                    s.role = IF users(i) THEN "user" ELSE "assistant"
=============================================================================
