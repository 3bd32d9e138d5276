---------------------------- MODULE SelectGemini ----------------------------
(***************************************************************************)
(* What the format gemini selects (selectors_gemini.go).  A content may    *)
(* leave its role out: it then follows from the contents before it.        *)
(***************************************************************************)
EXTENDS JsonBody

appendGeminiTextPart(part, role, roles) ==
    LET scan == scanTextPart(part, FALSE)
        spans == IF scan.allowed THEN appendStringSpan(scan.text, role, roles) ELSE <<>>
    IN  IF scan.signed THEN Frozen(spans) ELSE spans

collectParts(content, role, roles) ==
    When(role \in roles,
         Each(LAMBDA p: appendGeminiTextPart(p, role, roles), Elements(Get(content, "parts"))))

-----------------------------------------------------------------------------
(* Definitions. *)

\* Mutant: every description the typed schema reaches, whichever way.
CompletesAlways(schema, roles, underAnyOf) ==
    appendStringSpan(Get(schema, "description"), "developer", roles)

\* The JSON schema helper does not follow any_of; what it finds is not repeated.
Completes(schema, roles, underAnyOf) ==
    IF underAnyOf THEN appendStringSpan(Get(schema, "description"), "developer", roles) ELSE <<>>

RECURSIVE appendGeminiSchemaAnyOfDescriptions(_, _, _)
appendGeminiSchemaAnyOfDescriptions(schema, roles, underAnyOf) ==
    LET below(child) == appendGeminiSchemaAnyOfDescriptions(child, roles, underAnyOf)
        anyOf(child) == appendGeminiSchemaAnyOfDescriptions(child, roles, TRUE)
    IN  IF ~IsObject(schema) THEN <<>>
        ELSE Completes(schema, roles, underAnyOf)
             \o Each(below, Members(Get(schema, "properties")))
             \o below(Get(schema, "items"))
             \o Each(below, Elements(Get(schema, "anyOf")))
             \o Each(anyOf, Elements(Get(schema, "any_of")))

DeclarationSchemas == <<"parameters", "parametersJsonSchema", "parameters_json_schema",
                        "response", "responseJsonSchema", "response_json_schema">>
ConfigSchemas == <<<<"responseSchema">>, <<"response_schema">>, <<"_responseJsonSchema">>,
                   <<"response_json_schema">>, <<"responseJsonSchema">>,
                   <<"response_json_schema_ordered">>, <<"responseFormat", "text", "schema">>>>
Typed == {"parameters", "response", "responseSchema", "response_schema"}

\* A schema below holder: its descriptions, for a typed one also under any_of.
GeminiSchema(holder, keys, roles) ==
    LET schema == GetPath(holder, keys)
    IN  appendJSONSchemaDescriptions(schema, "developer", roles)
        \o (IF Head(keys) \in Typed THEN appendGeminiSchemaAnyOfDescriptions(schema, roles, FALSE)
                                    ELSE <<>>)

GeminiDefinitions(root, roles) ==
    LET declaration(d) ==
            appendStringSpan(Get(d, "description"), "developer", roles)
            \o Each(LAMBDA key: GeminiSchema(d, <<key>>, roles), DeclarationSchemas)
        tool(t) == Each(declaration, Elements(Get(t, "functionDeclarations")))
                   \o Each(declaration, Elements(Get(t, "function_declarations")))
        config(key) == Each(LAMBDA keys: GeminiSchema(Get(root, key), keys, roles), ConfigSchemas)
    IN  When("developer" \in roles,
             Each(tool, Elements(Get(root, "tools")))
             \o config("generationConfig") \o config("generation_config"))

-----------------------------------------------------------------------------
(* Contents. *)

geminiHasFunctionResponse(content) ==
    \E i \in DOMAIN Elements(Get(content, "parts")):
        LET part == Elements(Get(content, "parts"))[i]
        IN  Exists(Get(part, "functionResponse")) \/ Exists(Get(part, "function_response"))

nextGeminiRole(previousRole) == IF previousRole \in {"", "model"} THEN "user" ELSE "model"

Unnamed(role) == ShowsEmpty(role)
Named(role) == Is(role, "user") \/ Is(role, "model")

\* Mutant: only a content without a role moves the turn on.
TurnSkipsUnknown(previousRole, content) ==
    LET role == Get(content, "role")
    IN  CASE Named(role) -> StrOf(role)
          [] ~Named(role) /\ ~Unnamed(role) -> previousRole
          [] Unnamed(role) /\ geminiHasFunctionResponse(content) -> "user"
          [] OTHER -> nextGeminiRole(previousRole)

\* previousRole after a content.
Turn(previousRole, content) ==
    LET role == Get(content, "role")
    IN  CASE Named(role) -> StrOf(role)
          [] ~Named(role) /\ geminiHasFunctionResponse(content) -> "user"
          [] OTHER -> nextGeminiRole(previousRole)

collectGeminiContents(contents, roles) ==
    FoldLeft(LAMBDA done, content:
                LET turn == Turn(done.previousRole, content)
                    role == Get(content, "role")
                IN  [previousRole |-> turn,
                     spans |-> done.spans
                         \o (IF Named(role) \/ Unnamed(role)
                             THEN collectParts(content, IF turn = "user" THEN "user"
                                                                         ELSE "assistant", roles)
                             ELSE <<>>)],
             [previousRole |-> "", spans |-> <<>>], contents).spans

\* Mutant: the contents are only read for the user.
ReadsUserContents(roles) == "user" \in roles

ReadsContents(roles) == {"user", "assistant"} \cap roles # {}

collectGemini(root, roles) ==
    GeminiDefinitions(root, roles)
    \o When("system" \in roles, collectParts(Get(root, "systemInstruction"), "system", roles)
                                \o collectParts(Get(root, "system_instruction"), "system", roles))
    \o When(ReadsContents(roles), collectGeminiContents(Elements(Get(root, "contents")), roles))
=============================================================================
