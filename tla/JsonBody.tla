------------------------------ MODULE JsonBody ------------------------------
(***************************************************************************)
(* A request body as the selectors read it through gjson, and what they    *)
(* all share (selectors.go): when a string becomes a span to be filtered,  *)
(* what a part of a message may contribute, and which bodies are refused   *)
(* because two readers could read them differently.                        *)
(*                                                                         *)
(* A position in a body is the sequence of keys leading to it; an array    *)
(* has its indexes as keys.  A collector returns the spans it appends.     *)
(***************************************************************************)
EXTENDS Naturals, FiniteSets, FiniteSetsExt, Sequences, SequencesExt, TLC

Scopes == {"system", "developer", "user", "assistant", "tool"}

-----------------------------------------------------------------------------
(* JSON values: a kind, the text of a string, the members in order.  A key  *)
(* may be written with escapes; a string may itself hold the text of a JSON *)
(* value, its only member then.                                             *)

Node(kind, str, members) == [kind |-> kind, str |-> str, in |-> members]
Member(key, val) == [key |-> key, esc |-> FALSE, val |-> val]

Str(s) == Node("string", s, <<>>)
Null == Node("null", "", <<>>)
Num == Node("number", "", <<>>)
True == Node("true", "", <<>>)
Arr(vals) == Node("array", "", [i \in DOMAIN vals |-> Member(ToString(i), vals[i])])
Obj(fields) ==
    LET keys == FoldSet(LAMBDA key, seq: Append(seq, key), <<>>, DOMAIN fields)
    IN  Node("object", "", [i \in DOMAIN keys |-> Member(keys[i], fields[keys[i]])])
Json(val) == Node("string", "json", <<Member("json", val)>>)

(* gjson: a result is a value and where it was found.                       *)

At(path, val) == [at |-> path, v |-> val]
Missing == At(<<>>, Node("missing", "", <<>>))

IsObject(r) == r.v.kind = "object"
IsArray(r) == r.v.kind = "array"
IsString(r) == r.v.kind = "string"
Exists(r) == r.v.kind # "missing"
IsNull(r) == r.v.kind \in {"null", "missing"}
IsTrue(r) == r.v.kind = "true"

\* Result.Str: empty for everything but a string.
StrOf(r) == r.v.str
Is(r, s) == IsString(r) /\ r.v.str = s

\* Result.String() = "": also a number shows as some text.
ShowsEmpty(r) == IsNull(r) \/ Is(r, "")

Inside(r) == [i \in DOMAIN r.v.in |-> At(Append(r.at, r.v.in[i].key), r.v.in[i].val)]
Elements(r) == IF IsArray(r) THEN Inside(r) ELSE <<>>
Members(r) == IF IsObject(r) THEN Inside(r) ELSE <<>>

\* The first member of that name.
Get(r, key) ==
    LET hits == {i \in DOMAIN r.v.in: r.v.in[i].key = key}
    IN  IF IsObject(r) /\ hits # {}
        THEN Inside(r)[CHOOSE i \in hits: \A j \in hits: i <= j]
        ELSE Missing

GetPath(r, keys) == FoldLeft(Get, r, keys)

\* ForEach with a collector for every element.
Each(Collect(_), results) == FlattenSeq([i \in DOMAIN results |-> Collect(results[i])])

\* if or an early return around what a collector appends.
When(enabled, spans) == IF enabled THEN spans ELSE <<>>

-----------------------------------------------------------------------------
(* Refused bodies. *)

\* Mutant: names are compared as they are written.
RawMemberName(member) == <<member.key, member.esc>>

canonicalJSONMemberName(member) == member.key

RECURSIVE hasDuplicateJSONMembers(_)
hasDuplicateJSONMembers(val) ==
    \/ /\ val.kind = "object"
       /\ \E i, j \in DOMAIN val.in:
             i < j /\ canonicalJSONMemberName(val.in[i]) = canonicalJSONMemberName(val.in[j])
    \/ /\ val.kind \in {"object", "array"}
       /\ \E i \in DOMAIN val.in: hasDuplicateJSONMembers(val.in[i].val)

-----------------------------------------------------------------------------
(* Spans. *)

\* textSpan as collected: nested and nonString are about the description that
\* would take over, a carrier is a string whose texts are in the JSON it holds.
Span(at, role) ==
    [at |-> at, role |-> role, nonEmpty |-> FALSE, max |-> 0, frozen |-> FALSE,
     nested |-> <<>>, nonString |-> FALSE, carrier |-> FALSE, children |-> <<>>]

appendStringSpan(val, role, roles) ==
    IF IsString(val) /\ StrOf(val) # "" /\ role \in roles THEN <<Span(val.at, role)>> ELSE <<>>

appendNonEmptyStringSpan(val, role, roles) ==
    LET spans == appendStringSpan(val, role, roles)
    IN  [i \in DOMAIN spans |-> [spans[i] EXCEPT !.nonEmpty = TRUE]]

\* appendStringSpan and a limit on the length of what replaces the text.
Limited(spans, max) == [i \in DOMAIN spans |-> [spans[i] EXCEPT !.max = max]]
MaxOutput == 10485760

Frozen(spans) == [i \in DOMAIN spans |-> [spans[i] EXCEPT !.frozen = TRUE]]

Some(r) == IsString(r) /\ StrOf(r) # ""

\* A part that shows an image, in the two notations.
IsImage(part) ==
    LET holder == IF Is(Get(part, "type"), "image_url") THEN Get(part, "image_url") ELSE part
        url == IF Is(Get(part, "type"), "image_url") THEN "url" ELSE "image_url"
    IN  /\ StrOf(Get(part, "type")) \in {"image_url", "input_image"}
        /\ Some(Get(holder, url)) \/ Some(Get(holder, "file_id"))

\* A tool result that encodes an array of parts with an image among them is
\* filtered part by part, any other as the text it is.
appendToolResultStringSpan(val, role, roles) ==
    LET spans == appendStringSpan(val, role, roles)
        parts == IF IsString(val) /\ val.v.in # <<>> THEN Elements(Inside(val)[1]) ELSE <<>>
        texts == SelectSeq(parts, LAMBDA p:
                    StrOf(Get(p, "type")) \in {"text", "input_text", "output_text"})
    IN  IF \E i \in DOMAIN parts: IsImage(parts[i])
        THEN [i \in DOMAIN spans |-> [spans[i] EXCEPT
                 !.carrier = TRUE,
                 !.children = Each(LAMBDA p: appendStringSpan(Get(p, "text"), role, roles), texts)]]
        ELSE spans

MachineKeys ==
    {"functionCall", "function_call", "functionResponse", "function_response", "inlineData",
     "inline_data", "fileData", "file_data", "executableCode", "executable_code",
     "codeExecutionResult", "code_execution_result"}

\* scanTextPart: the text of a part, whether it may be filtered, and whether a
\* signature binds it.
scanTextPart(part, requireTextType) ==
    LET present(key) == ~IsNull(Get(part, key))
        type == Get(part, "type")
        signed == \/ present("thoughtSignature") \/ present("thought_signature")
                  \/ ~IsNull(GetPath(part, <<"extra_content", "google", "thought_signature">>))
    IN  [text |-> Get(part, "text"),
         signed |-> signed,
         allowed |-> /\ IsObject(part)
                     /\ \A key \in MachineKeys: ~present(key)
                     /\ ~IsTrue(Get(part, "thought"))
                     /\ requireTextType =>
                          ~signed /\ (Exists(type) => Is(type, "") \/ Is(type, "text"))]

-----------------------------------------------------------------------------
(* The descriptions of a JSON schema, for every format. *)

SchemaMaps == <<"properties", "patternProperties", "$defs", "definitions", "dependentSchemas">>
SchemaSingles == <<"items", "additionalProperties", "unevaluatedProperties", "propertyNames",
                   "contains", "not", "if", "then", "else">>
SchemaLists == <<"prefixItems", "allOf", "anyOf", "oneOf">>

RECURSIVE appendJSONSchemaDescriptions(_, _, _)
appendJSONSchemaDescriptions(schema, role, roles) ==
    LET below(child) == appendJSONSchemaDescriptions(child, role, roles)
    IN  IF ~IsObject(schema) \/ role \notin roles THEN <<>>
        ELSE appendStringSpan(Get(schema, "description"), role, roles)
             \o Each(LAMBDA key: Each(below, Members(Get(schema, key))), SchemaMaps)
             \o Each(LAMBDA key: below(Get(schema, key)), SchemaSingles)
             \o Each(LAMBDA key: Each(below, Elements(Get(schema, key))), SchemaLists)
=============================================================================
