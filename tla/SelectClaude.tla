---------------------------- MODULE SelectClaude ----------------------------
(***************************************************************************)
(* What the format claude selects (selectors_claude.go).  Where the API    *)
(* refuses an empty text, the span asks for one that is not empty.         *)
(***************************************************************************)
EXTENDS JsonBody

TextBlocks(r) == SelectSeq(Elements(r), LAMBDA b: Is(Get(b, "type"), "text"))
BlockTexts(r, role, roles) ==
    Each(LAMBDA b: appendNonEmptyStringSpan(Get(b, "text"), role, roles), TextBlocks(r))

\* The system prompt, the tools, the output formats and the compaction edits.
ClaudeSystem(root, roles) ==
    LET system == Get(root, "system")
        text(r) == appendStringSpan(r, "system", roles)
        descriptions(r) == appendJSONSchemaDescriptions(r, "system", roles)
        declared(t) == IsString(Get(t, "name")) /\ IsObject(Get(t, "input_schema"))
        tools == SelectSeq(Elements(Get(root, "tools")), declared)
        formats == SelectSeq(<<GetPath(root, <<"output_config", "format">>),
                               Get(root, "output_format")>>,
                             LAMBDA f: Is(Get(f, "type"), "json_schema"))
        edits == SelectSeq(Elements(GetPath(root, <<"context_management", "edits">>)),
                           LAMBDA e: Is(Get(e, "type"), "compact_20260112"))
        tool(t) == text(Get(t, "description")) \o descriptions(Get(t, "input_schema"))
    IN  When("system" \in roles,
             text(system) \o BlockTexts(system, "system", roles) \o Each(tool, tools)
             \o Each(LAMBDA f: descriptions(Get(f, "schema")), formats))
        \o When("system" \in roles, Each(LAMBDA e: text(Get(e, "instructions")), edits))

\* Search results and documents, in a message or in a tool result.
appendClaudeResultText(block, role, roles) ==
    LET type == StrOf(Get(block, "type"))
        source == Get(block, "source")
        content == Get(source, "content")
        required(key) == appendNonEmptyStringSpan(Get(block, key), role, roles)
    IN  CASE role \notin roles -> <<>>
          [] type = "search_result" ->
                appendStringSpan(Get(block, "title"), role, roles)
                \o BlockTexts(Get(block, "content"), role, roles)
          [] type = "document" ->
                Limited(required("title"), 500) \o required("context")
                \o (CASE Is(Get(source, "type"), "text") ->
                           appendStringSpan(Get(source, "data"), role, roles)
                      [] Is(Get(source, "type"), "content") ->
                           appendStringSpan(content, role, roles) \o BlockTexts(content, role, roles)
                      [] OTHER -> <<>>)
          [] OTHER -> <<>>

ClaudeBlock(block, role, roles) ==
    LET type == StrOf(Get(block, "type"))
        content == Get(block, "content")
        result(inner) == appendClaudeResultText(inner, "tool", roles)
    IN  CASE type = "text" ->
                When(role \in roles, appendNonEmptyStringSpan(Get(block, "text"), role, roles))
          [] type \in {"search_result", "document"} /\ role = "user" ->
                appendClaudeResultText(block, "user", roles)
          [] type = "tool_result" /\ role = "user" /\ "tool" \in roles ->
                appendStringSpan(content, "tool", roles) \o Each(result, Elements(content))
                \o BlockTexts(content, "tool", roles)
          [] type = "mcp_tool_result" /\ role \in {"user", "assistant"} /\ "tool" \in roles ->
                appendStringSpan(content, "tool", roles) \o BlockTexts(content, "tool", roles)
          [] OTHER -> <<>>

\* Mutant: a message of a disabled role is skipped with its tool results.
SkipsDisabledMessage(role, roles) == role \notin roles

\* The switch over the role of a message: an enabled tool role keeps the messages
\* of users and assistants, whose blocks may be tool results.
SkipsMessage(role, roles) ==
    \/ role = "system" /\ "system" \notin roles
    \/ role \in {"user", "assistant"} /\ {role, "tool"} \cap roles = {}
    \/ role \notin {"system", "user", "assistant"}

\* An assistant message may only be empty at the end, as a prefill.
ClaudeMessage(message, last, roles) ==
    LET role == StrOf(Get(message, "role"))
        content == Get(message, "content")
        mayBeEmpty == \/ role = "assistant" /\ last
                      \/ role = "system" /\ Exists(GetPath(message, <<"output_config", "effort">>))
    IN  IF SkipsMessage(role, roles) THEN <<>>
        ELSE (IF mayBeEmpty THEN appendStringSpan(content, role, roles)
                            ELSE appendNonEmptyStringSpan(content, role, roles))
             \o Each(LAMBDA b: ClaudeBlock(b, role, roles), Elements(content))

collectClaude(root, roles) ==
    LET messages == Elements(Get(root, "messages"))
    IN  ClaudeSystem(root, roles)
        \o FlattenSeq([i \in DOMAIN messages |->
                          ClaudeMessage(messages[i], i = Len(messages), roles)])
=============================================================================
