------------------------- MODULE SelectInteractions -------------------------
(***************************************************************************)
(* What the format interactions selects (selectors_interactions.go).       *)
(***************************************************************************)
EXTENDS JsonBody

\* Annotations point into the text of a model: it must stay as it is.
appendInteractionTextPart(part, role, roles, protectAnnotations) ==
    LET scan == scanTextPart(part, TRUE)
        spans == IF scan.allowed THEN appendStringSpan(scan.text, role, roles) ELSE <<>>
    IN  IF protectAnnotations /\ Elements(Get(part, "annotations")) # <<>>
        THEN Frozen(spans) ELSE spans

TextParts(parts, role, roles, protectAnnotations) ==
    Each(LAMBDA p: appendInteractionTextPart(p, role, roles, protectAnnotations), Elements(parts))

appendInteractionResult(result, roles) ==
    LET texts == SelectSeq(Elements(result), LAMBDA p: Is(Get(p, "type"), "text"))
    IN  When("tool" \in roles,
             appendStringSpan(result, "tool", roles)
             \o Each(LAMBDA p: appendInteractionTextPart(p, "tool", roles, FALSE), texts))

ResultTypes == {"function_result", "mcp_server_tool_result", "code_execution_result"}

collectInteractionResult(item, roles) ==
    LET result == Get(item, "result")
        spans == appendStringSpan(result, "tool", roles)
    IN  CASE ~Is(Get(item, "type"), "code_execution_result") -> appendInteractionResult(result, roles)
          [] IsNull(Get(item, "signature")) -> spans
          [] OTHER -> Frozen(spans)

collectInteractionDefinitions(root, roles) ==
    LET functions == SelectSeq(Elements(Get(root, "tools")), LAMBDA t: Is(Get(t, "type"), "function"))
        format == Get(root, "response_format")
        formats == SelectSeq(<<format>> \o Elements(format), LAMBDA f: Is(Get(f, "type"), "text"))
        descriptions(r) == appendJSONSchemaDescriptions(r, "developer", roles)
        function(t) == appendStringSpan(Get(t, "description"), "developer", roles)
                       \o descriptions(Get(t, "parameters"))
    IN  When("developer" \in roles,
             Each(function, functions) \o Each(LAMBDA f: descriptions(Get(f, "schema")), formats))

InteractionSystem(root, roles) ==
    LET first == Get(root, "system_instruction")
        system == IF Exists(first) THEN first ELSE Get(root, "systemInstruction")
    IN  When("system" \in roles,
             appendStringSpan(system, "system", roles)
             \o appendInteractionTextPart(system, "system", roles, FALSE)
             \o TextParts(Get(system, "parts"), "system", roles, FALSE))

\* The role an item speaks in, "" for an item that is skipped with its steps.
ItemRole(item, inheritedRole) ==
    LET role == Get(item, "role")
        type == Get(item, "type")
        named == CASE ~Exists(role) -> inheritedRole
                   [] Is(role, "user") -> "user"
                   [] Is(role, "model") \/ Is(role, "assistant") -> "assistant"
                   [] OTHER -> ""
    IN  CASE named = "" -> ""
          [] ~Exists(type) \/ Is(type, "") \/ Is(type, "user_input") -> named
          [] Is(type, "model_output") -> "assistant"
          [] OTHER -> ""

\* The text of an item if its role is enabled, and its steps in any case.
RECURSIVE collectInteractionItem(_, _, _)
collectInteractionItem(item, inheritedRole, roles) ==
    LET role == ItemRole(item, inheritedRole)
        protect == Is(Get(item, "type"), "model_output")
        content == Get(item, "content")
        steps == Elements(Get(item, "steps"))
    IN  CASE ~IsObject(item) -> <<>>
          [] StrOf(Get(item, "type")) \in ResultTypes -> collectInteractionResult(item, roles)
          [] role = "" -> <<>>
          [] OTHER ->
                When(role \in roles,
                     appendStringSpan(content, role, roles)
                     \o appendInteractionTextPart(content, role, roles, protect)
                     \o TextParts(content, role, roles, protect)
                     \o TextParts(Get(item, "parts"), role, roles, FALSE))
                \o Each(LAMBDA s: collectInteractionItem(s, role, roles), steps)

InputItem(item, roles) ==
    IF Is(Get(item, "type"), "text") THEN appendInteractionTextPart(item, "user", roles, FALSE)
    ELSE appendStringSpan(item, "user", roles) \o collectInteractionItem(item, "user", roles)

\* Mutant: the input is only read for those who speak in it.
ReadsSpeakers(roles) == {"user", "assistant"} \cap roles # {}

ReadsInput(roles) == {"user", "assistant", "tool"} \cap roles # {}

collectInteractions(root, roles) ==
    LET input == Get(root, "input")
    IN  collectInteractionDefinitions(root, roles) \o InteractionSystem(root, roles)
        \o When(ReadsInput(roles), Each(LAMBDA i: InputItem(i, roles), <<input>> \o Elements(input)))
=============================================================================
