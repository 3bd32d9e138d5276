---------------------------- MODULE SelectOpenAI ----------------------------
(***************************************************************************)
(* What the formats openai (chat completions) and openai-response select   *)
(* (selectors_openai.go).                                                  *)
(***************************************************************************)
EXTENDS JsonBody

-----------------------------------------------------------------------------
(* Chat completions. *)

appendOpenAIChatTool(tool, roles) ==
    LET function == Get(tool, "function")
        first == Get(function, "parameters")
        schema == IF Exists(first) THEN first ELSE Get(function, "parametersJsonSchema")
        text(r) == appendStringSpan(r, "developer", roles)
        descriptions(r) == appendJSONSchemaDescriptions(r, "developer", roles)
    IN  CASE ~IsObject(tool) \/ "developer" \notin roles -> <<>>
          [] StrOf(Get(tool, "type")) = "function" ->
                text(Get(function, "description")) \o descriptions(schema)
                \o descriptions(Get(function, "output_schema"))
          [] StrOf(Get(tool, "type")) = "custom" ->
                (IF Some(Get(tool, "name")) THEN text(Get(tool, "description")) ELSE <<>>)
                \o text(GetPath(tool, <<"custom", "description">>))
          [] OTHER -> <<>>

\* Text parts, and the refusals of an assistant.
ChatPart(part, role, roles) ==
    CASE Is(Get(part, "type"), "text") -> appendStringSpan(Get(part, "text"), role, roles)
      [] Is(Get(part, "type"), "refusal") /\ role = "assistant" ->
            appendStringSpan(Get(part, "refusal"), role, roles)
      [] OTHER -> <<>>

ChatMessage(message, roles) ==
    LET name == StrOf(Get(message, "role"))
        role == IF name = "function" THEN "tool" ELSE name
        content == Get(message, "content")
        refusal == IF role = "assistant" THEN Get(message, "refusal") ELSE Missing
    IN  IF role \notin roles THEN <<>>
        ELSE (IF role = "tool" THEN appendToolResultStringSpan(content, role, roles)
                               ELSE appendStringSpan(content, role, roles))
             \o appendStringSpan(refusal, role, roles)
             \o Each(LAMBDA part: ChatPart(part, role, roles), Elements(content))

ChatPrediction(root, roles) ==
    LET content == GetPath(root, <<"prediction", "content">>)
        texts == SelectSeq(Elements(content), LAMBDA p: Is(Get(p, "type"), "text"))
    IN  When("assistant" \in roles /\ Is(GetPath(root, <<"prediction", "type">>), "content"),
             appendStringSpan(content, "assistant", roles)
             \o Each(LAMBDA p: appendStringSpan(Get(p, "text"), "assistant", roles), texts))

\* functions, tools and response_format are the developer's.
ChatDefinitions(root, roles) ==
    LET text(r) == appendStringSpan(r, "developer", roles)
        descriptions(r) == appendJSONSchemaDescriptions(r, "developer", roles)
        format == Get(root, "response_format")
        schema == IF Is(Get(format, "type"), "json_schema") THEN Get(format, "json_schema")
                                                            ELSE Missing
        function(f) == text(Get(f, "description")) \o descriptions(Get(f, "parameters"))
                       \o descriptions(Get(f, "output_schema"))
    IN  When("developer" \in roles,
             Each(function, Elements(Get(root, "functions")))
             \o Each(LAMBDA t: appendOpenAIChatTool(t, roles), Elements(Get(root, "tools")))
             \o text(Get(schema, "description")) \o descriptions(Get(schema, "schema")))

collectOpenAI(root, roles) ==
    Each(LAMBDA m: ChatMessage(m, roles), Elements(Get(root, "messages")))
    \o ChatPrediction(root, roles) \o ChatDefinitions(root, roles)

-----------------------------------------------------------------------------
(* Responses: tools. *)

\* Where a function tool may keep its schema; the first that exists counts.
ToolSchemas == <<<<"parameters">>, <<"parametersJsonSchema">>, <<"input_schema">>,
                 <<"function", "parameters">>, <<"function", "parametersJsonSchema">>>>

ToolSchema(tool) ==
    LET found == SelectSeq([i \in DOMAIN ToolSchemas |-> GetPath(tool, ToolSchemas[i])], Exists)
    IN  IF found = <<>> THEN Missing ELSE Head(found)

\* A tool without a type is a function if it has a name.
ToolKind(tool) ==
    LET type == Get(tool, "type")
        named == \/ ~ShowsEmpty(Get(tool, "name"))
                 \/ ~ShowsEmpty(GetPath(tool, <<"function", "name">>))
    IN  IF named /\ (Exists(type) => Is(type, "")) THEN "function" ELSE StrOf(type)

\* Mutant: the description behind the effective one is not kept.
ForgetNested(tool, role, roles) ==
    LET own == Get(tool, "description")
    IN  appendStringSpan(IF ShowsEmpty(own) THEN GetPath(tool, <<"function", "description">>)
                                            ELSE own, role, roles)

\* Mutant: the description behind the effective one is kept and selected as well.
SelectsBoth(tool, role, roles) ==
    LET fallback == GetPath(tool, <<"function", "description">>)
        own == appendStringSpan(Get(tool, "description"), role, roles)
    IN  [i \in DOMAIN own |-> [own[i] EXCEPT !.nested = IF Some(fallback) THEN <<fallback.at>> ELSE <<>>]]
        \o appendStringSpan(fallback, role, roles)

\* The effective description of a function or custom tool, with the one that
\* takes over if a rewrite empties it.
ToolDescription(tool, role, roles) ==
    LET own == Get(tool, "description")
        fallback == GetPath(tool, <<"function", "description">>)
        spans == appendStringSpan(IF ShowsEmpty(own) THEN fallback ELSE own, role, roles)
    IN  IF ~Some(own) \/ ShowsEmpty(fallback) THEN spans
        ELSE [i \in DOMAIN spans |-> [spans[i] EXCEPT
                 !.nested = IF IsString(fallback) THEN <<fallback.at>> ELSE <<>>,
                 !.nonString = ~IsString(fallback)]]

RECURSIVE collectOpenAIResponsesTool(_, _, _)
collectOpenAIResponsesTool(tool, role, roles) ==
    LET kind == ToolKind(tool)
        text(r) == appendStringSpan(r, role, roles)
        descriptions(r) == appendJSONSchemaDescriptions(r, role, roles)
        environment == Get(tool, "environment")
    IN  IF ~IsObject(tool) \/ role \notin roles THEN <<>>
        ELSE CASE kind = "shell" ->
                    IF ~Is(Get(environment, "type"), "local") THEN <<>>
                    ELSE Each(LAMBDA s: text(Get(s, "description")),
                              Elements(Get(environment, "skills")))
               [] kind = "function" ->
                    ToolDescription(tool, role, roles) \o descriptions(ToolSchema(tool))
                    \o descriptions(Get(tool, "output_schema"))
               [] kind = "custom" -> ToolDescription(tool, role, roles)
               [] kind = "namespace" ->
                    text(Get(tool, "description"))
                    \o Each(LAMBDA t: collectOpenAIResponsesTool(t, role, roles),
                            Elements(Get(tool, "tools")))
               [] kind = "tool_search" ->
                    text(Get(tool, "description")) \o descriptions(Get(tool, "parameters"))
               [] kind = "mcp" -> text(Get(tool, "server_description"))
               [] OTHER -> <<>>

-----------------------------------------------------------------------------
(* Responses: input items. *)

appendOpenAIResponsesInputTextOutput(output, roles, max) ==
    LET texts == SelectSeq(Elements(output), LAMBDA p: Is(Get(p, "type"), "input_text"))
    IN  Limited(appendToolResultStringSpan(output, "tool", roles)
                \o Each(LAMBDA p: appendStringSpan(Get(p, "text"), "tool", roles), texts), max)

ToolOutputTypes ==
    {"function_call_output", "custom_tool_call_output", "local_shell_call_output",
     "apply_patch_call_output", "shell_call_output", "mcp_call", "mcp_list_tools",
     "additional_tools", "tool_search_output", "program_output", "file_search_call",
     "code_interpreter_call", "mcp_approval_response"}

\* What a tool answered, and the tools of its role that come as input.
ToolOutput(item, roles) ==
    LET type == StrOf(Get(item, "type"))
        text(r) == appendStringSpan(r, "tool", roles)
        output == Get(item, "output")
        tools == Elements(Get(item, "tools"))
        error == Get(item, "error")
        logs == SelectSeq(Elements(Get(item, "outputs")), LAMBDA o: Is(Get(o, "type"), "logs"))
    IN  CASE type = "function_call_output" ->
                appendOpenAIResponsesInputTextOutput(output, roles, MaxOutput)
          [] type = "custom_tool_call_output" ->
                appendOpenAIResponsesInputTextOutput(output, roles, 0)
          [] type = "local_shell_call_output" -> text(output)
          [] type = "apply_patch_call_output" -> Limited(text(output), MaxOutput)
          [] type = "shell_call_output" ->
                Limited(Each(LAMBDA r: text(Get(r, "stdout")) \o text(Get(r, "stderr")),
                             Elements(output)), MaxOutput)
          [] type = "mcp_call" ->
                text(output)
                \o (IF StrOf(Get(error, "type")) \in {"mcp_protocol_error", "http_error"}
                    THEN text(Get(error, "message")) ELSE <<>>)
          [] type = "mcp_list_tools" ->
                text(error)
                \o Each(LAMBDA t: text(Get(t, "description"))
                            \o appendJSONSchemaDescriptions(Get(t, "input_schema"), "tool", roles),
                        tools)
          [] type = "tool_search_output" ->
                Each(LAMBDA t: collectOpenAIResponsesTool(t, "tool", roles), tools)
          [] type = "program_output" -> Limited(text(Get(item, "result")), MaxOutput)
          [] type = "file_search_call" ->
                Each(LAMBDA r: text(Get(r, "text")), Elements(Get(item, "results")))
          [] type = "code_interpreter_call" -> Each(LAMBDA o: text(Get(o, "logs")), logs)

\* What the item types other than messages contribute.
collectOpenAIResponsesToolOutput(item, roles) ==
    LET role == StrOf(Get(item, "role"))
    IN  CASE Is(Get(item, "type"), "additional_tools") ->
                When(role \in Scopes, Each(LAMBDA t: collectOpenAIResponsesTool(t, role, roles),
                                           Elements(Get(item, "tools"))))
          [] Is(Get(item, "type"), "mcp_approval_response") ->
                When("user" \in roles, appendStringSpan(Get(item, "reason"), "user", roles))
          [] OTHER -> When("tool" \in roles, ToolOutput(item, roles))

\* Text an assistant produced with annotations must stay as it is: they point
\* into it.
ResponsesPart(part, role, roles) ==
    LET type == Get(part, "type")
        partRole == IF Is(type, "output_text") THEN "assistant" ELSE role
        spans == When(partRole \in roles, appendStringSpan(Get(part, "text"), partRole, roles))
        annotated == Elements(Get(part, "annotations")) # <<>>
    IN  CASE Is(type, "refusal") ->
                When("assistant" \in roles, appendStringSpan(Get(part, "refusal"), "assistant", roles))
          [] Exists(type) => IsString(type) /\ StrOf(type) \in {"", "input_text", "output_text"} ->
                IF role = "assistant" /\ Is(type, "output_text") /\ annotated
                THEN Frozen(spans) ELSE spans
          [] OTHER -> <<>>

openAIResponsesMessageType(item) ==
    LET type == Get(item, "type") IN Exists(type) => Is(type, "") \/ Is(type, "message")

\* A message of a disabled role may still hold parts of the assistant.
ResponsesMessage(item, roles) ==
    LET role == StrOf(Get(item, "role"))
        content == Get(item, "content")
    IN  IF \/ role \notin Scopes \ {"tool"} \/ {role, "assistant"} \cap roles = {}
        THEN <<>>
        ELSE appendStringSpan(content, role, roles)
             \o Each(LAMBDA p: ResponsesPart(p, role, roles), Elements(content))

ResponsesItem(item, roles) ==
    CASE StrOf(Get(item, "type")) \in ToolOutputTypes -> collectOpenAIResponsesToolOutput(item, roles)
      [] IsObject(item) /\ openAIResponsesMessageType(item) -> ResponsesMessage(item, roles)
      [] OTHER -> <<>>

-----------------------------------------------------------------------------
(* Responses: the body. *)

collectOpenAIResponsesPromptVariables(root, roles) ==
    LET texts(val) == SelectSeq(<<val>> \o Elements(val), LAMBDA p: Is(Get(p, "type"), "input_text"))
        variable(val) == appendStringSpan(val, "user", roles)
                         \o Each(LAMBDA p: appendStringSpan(Get(p, "text"), "user", roles), texts(val))
    IN  When("user" \in roles, Each(variable, Members(GetPath(root, <<"prompt", "variables">>))))

\* text.format is the developer's.
ResponsesFormat(root, roles) ==
    LET format == GetPath(root, <<"text", "format">>)
        schema == Get(format, "schema")
    IN  When("developer" \in roles /\ Is(Get(format, "type"), "json_schema"),
             appendStringSpan(Get(format, "description"), "developer", roles)
             \o appendJSONSchemaDescriptions(
                    IF Exists(schema) THEN schema ELSE GetPath(format, <<"json_schema", "schema">>),
                    "developer", roles))

\* The skills of a shell are the user's, every other tool the developer's.
ResponsesTool(tool, roles) ==
    collectOpenAIResponsesTool(
        tool, IF Is(Get(tool, "type"), "shell") THEN "user" ELSE "developer", roles)

\* The instructions are the system's, or the developer's if only that is enabled.
Instructions(root, roles) ==
    LET spoken(role) == appendStringSpan(Get(root, "instructions"), role, roles)
    IN  IF "system" \in roles THEN spoken("system")
        ELSE When("developer" \in roles, spoken("developer"))

\* Mutant: the tools are only read for the developer.
ReadsDeveloperTools(roles) == "developer" \in roles

ReadsTools(roles) == {"developer", "user"} \cap roles # {}

collectOpenAIResponses(root, roles) ==
    Instructions(root, roles)
    \o collectOpenAIResponsesPromptVariables(root, roles)
    \o ResponsesFormat(root, roles)
    \o When(ReadsTools(roles), Each(LAMBDA t: ResponsesTool(t, roles), Elements(Get(root, "tools"))))
    \o When("user" \in roles, appendStringSpan(Get(root, "input"), "user", roles))
    \o Each(LAMBDA i: ResponsesItem(i, roles), Elements(Get(root, "input")))
=============================================================================
