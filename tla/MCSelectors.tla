----------------------------- MODULE MCSelectors -----------------------------
(***************************************************************************)
(* Bodies of the five formats.  Each family fills every place of a         *)
(* template in turn; texts are all "t", positions tell them apart.         *)
(***************************************************************************)
EXTENDS Selectors

T == Str("t")
Part(type) == Obj([type |-> Str(type), text |-> T])
Body(format, fields) == [format |-> format, json |-> Obj(fields)]
Again(val, key, other) == [val EXCEPT !.in = Append(@, [key |-> key, esc |-> TRUE, val |-> other])]
Maybe(key, vals) == {<<>>} \cup {key :> v: v \in vals}

-----------------------------------------------------------------------------
(* Schemas: below every kind of key, any_of met beside, above and below.    *)

Described == Obj([description |-> T])
Deep ==
    Obj([description |-> T,
         properties |-> Obj([any_of |-> Described, description |-> Described]),
         items |-> Obj([anyOf |-> Arr(<<Described, Obj([any_of |-> Arr(<<Described>>)])>>)])])
Schemas ==
    {Deep, Null, Obj("$defs" :> Obj([a |-> Deep]) @@ "not" :> Described),
     Obj([any_of |-> Arr(<<Deep, T>>), prefixItems |-> Arr(<<Described>>)]),
     Obj([description |-> Num, anyOf |-> Arr(<<Obj([any_of |-> Arr(<<Described>>)])>>)])}

-----------------------------------------------------------------------------
(* Tool results that encode their parts. *)

Image == Obj([type |-> Str("input_image"), file_id |-> T])
ImageUrl == Obj([type |-> Str("image_url"), image_url |-> Obj([url |-> T])])
Results == {T, Json(Obj([text |-> T])), Json(Arr(<<Part("text"), Part("other")>>)),
            Json(Arr(<<Part("text"), Image, Part("output_text")>>)),
            Json(Arr(<<ImageUrl, T, Part("input_text")>>)),
            Json(Arr(<<Again(Part("text"), "type", Str("other")), Image>>)),
            Json(Arr(<<Part("text"), Again(Image, "file_id", Null)>>))}
Contents == Results \cup {Str(""), Arr(<<Part("text"), Part("input_text"), T>>),
                          Arr(<<Obj([type |-> Str("refusal"), refusal |-> T, text |-> T])>>)}

-----------------------------------------------------------------------------
ChatTools ==
    {Obj([type |-> Str("function"), function |-> Obj([description |-> T] @@ s)]):
        s \in {[parameters |-> Deep], [parametersJsonSchema |-> Deep],
               [parameters |-> Null, parametersJsonSchema |-> Deep, output_schema |-> Deep]}}
    \cup {Obj([type |-> Str("custom"), description |-> T, custom |-> Described] @@ n):
            n \in Maybe("name", {T, Str("")})}

OpenAIBodies ==
    {Body("openai", [messages |-> Arr(<<Obj([role |-> r, content |-> c, refusal |-> T]), T>>)]):
        r \in {Str("system"), Str("user"), Str("assistant"), Str("function"), Str("critic"), Null},
        c \in Contents}
    \cup {Body("openai", [tools |-> Arr(<<t, T>>), functions |-> Arr(<<Obj([parameters |-> s])>>)]):
            t \in ChatTools, s \in {Deep, T}}
    \cup {Body("openai",
            [response_format |-> Obj([type |-> Str("json_schema"),
                                      json_schema |-> Obj([description |-> T, schema |-> s])]),
             prediction |-> Obj([type |-> Str("content"), content |-> c])]):
            s \in Schemas, c \in {T, Arr(<<Part("text")>>)}}

-----------------------------------------------------------------------------
Descriptions == Maybe("description", {T, Str(""), Num})
Nested == Maybe("function", {Obj([description |-> d, name |-> T, parameters |-> Deep]):
                                d \in {T, Str(""), Num}})
ResponsesTools ==
    {Obj([name |-> T] @@ ty @@ d @@ n):
        ty \in Maybe("type", {Str("function"), Str("custom")}), d \in Descriptions, n \in Nested}
    \cup {Obj([type |-> Str(k), description |-> T, server_description |-> T, parameters |-> Deep]):
            k \in {"tool_search", "mcp", "web_search"}}
    \cup {Obj([type |-> Str("shell"), description |-> T,
               environment |-> Obj([type |-> Str(e), skills |-> Arr(<<Described>>)])]):
            e \in {"local", "container"}}
Namespace(tool) == Obj([type |-> Str("namespace"), description |-> T, tools |-> Arr(<<tool, T>>)])

Annotated == Obj([type |-> Str("output_text"), text |-> T, annotations |-> Arr(<<Null>>)])
ResponsesItems ==
    {Obj([type |-> Str(k), output |-> o]):
        k \in {"function_call_output", "custom_tool_call_output", "apply_patch_call_output"},
        o \in Contents}
    \cup {Obj([type |-> Str(k), output |-> T, error |-> e, role |-> Str("user"), reason |-> T,
               result |-> T, tools |-> Arr(<<Obj([name |-> T, description |-> T, input_schema |-> Deep])>>),
               results |-> Arr(<<Obj([text |-> T])>>),
               outputs |-> Arr(<<Obj([type |-> Str("logs"), logs |-> T])>>)]):
            k \in OpenAI!ToolOutputTypes \cup {"reasoning"},
            e \in {T, Obj([type |-> Str("http_error"), message |-> T])}}
    \cup {Obj([type |-> Str("shell_call_output"), output |-> Arr(<<Obj([stdout |-> T, stderr |-> T])>>)])}
    \cup {Obj([role |-> Str(r), content |-> Arr(<<Annotated, Part("input_text"), Part(""), T,
                                                 Obj([type |-> Str("refusal"), refusal |-> T])>>)]
              @@ ty): r \in {"system", "user", "assistant", "tool"}, ty \in Maybe("type", {Str("message")})}
    \cup {Obj([role |-> Str("developer"), content |-> T])}

ResponsesBodies ==
    {Body("openai-response", [tools |-> Arr(<<t>>)]): t \in ResponsesTools}
    \cup {Body("openai-response", [tools |-> Arr(<<Namespace(Namespace(t))>>), instructions |-> T]):
            t \in ResponsesTools}
    \cup {Body("openai-response", [input |-> Arr(<<i, T>>), instructions |-> T]): i \in ResponsesItems}
    \cup {Body("openai-response",
            [input |-> T, prompt |-> Obj([variables |-> Obj([a |-> v, b |-> T])]),
             text |-> Obj([format |-> Obj([type |-> Str("json_schema"), description |-> T] @@ s)])]):
            v \in {T, Part("input_text"), Arr(<<Part("input_text"), Part("text")>>)},
            s \in {[schema |-> Deep], [json_schema |-> Obj([schema |-> Deep])]}}

-----------------------------------------------------------------------------
Document(source) == Obj([type |-> Str("document"), title |-> T, context |-> T, source |-> source])
Found == Obj([type |-> Str("search_result"), title |-> T, content |-> Arr(<<Part("text")>>)])
ClaudeBlocks ==
    {Part("text"), Found, Document(Obj([type |-> Str("text"), data |-> T])),
     Document(Obj([type |-> Str("content"), content |-> Arr(<<Part("text")>>)])),
     Document(Obj([type |-> Str("content"), content |-> T])), Part("thinking"), T}
ClaudeMessages ==
    {Obj([role |-> Str(r), content |-> c]):
        r \in {"system", "user", "assistant", "tool"},
        c \in {T, Arr(<<Part("text"), Found, Document(Obj([type |-> Str("text"), data |-> T]))>>)}
              \cup {Arr(<<Obj([type |-> Str(k), content |-> Arr(<<b>>)])>>):
                        k \in {"tool_result", "mcp_tool_result"}, b \in ClaudeBlocks}
              \cup {Arr(<<Obj([type |-> Str("tool_result"), content |-> T])>>)}}

ClaudeBodies ==
    {Body("claude", [messages |-> Arr(<<m, Obj([role |-> Str("assistant"), content |-> T])>>),
                     system |-> T]): m \in ClaudeMessages}
    \cup {Body("claude",
            [system |-> Arr(<<Part("text"), Part("image")>>),
             tools |-> Arr(<<Obj([name |-> n, description |-> T, input_schema |-> s])>>),
             output_config |-> Obj([format |-> Obj([type |-> Str("json_schema"), schema |-> s])]),
             output_format |-> Obj([type |-> Str("json_schema"), schema |-> s]),
             context_management |-> Obj([edits |-> Arr(<<Obj([type |-> Str("compact_20260112"),
                                                             instructions |-> T])>>)])]):
            n \in {T, Null}, s \in Schemas}

-----------------------------------------------------------------------------
Text == Obj([text |-> T])
Answer == Obj([functionResponse |-> Obj([name |-> T]), text |-> T])
Signed == Obj([text |-> T, thoughtSignature |-> T])
GeminiContents ==
    {Obj([parts |-> Arr(<<p, Text>>)] @@ r): p \in {Text, Answer}, r \in Maybe("role", {Str("critic")})}
    \cup {Obj([parts |-> Arr(<<Signed>>), role |-> r]): r \in {Str("user"), Str("model"), Null}}

GeminiBodies ==
    {Body("gemini", [contents |-> Arr(<<a, b, c>>)]):
        a \in GeminiContents, b \in GeminiContents, c \in GeminiContents}
    \cup {Body("gemini",
            [tools |-> Arr(<<Obj(key :> Arr(<<Obj([description |-> T] @@ place :> s)>>))>>),
             system_instruction |-> Obj([parts |-> Arr(<<Text, Signed, Answer>>)]),
             generationConfig |-> Obj(("responseFormat" :> Obj([text |-> Obj([schema |-> s])]))
                                      @@ where :> s)]):
            key \in {"functionDeclarations", "function_declarations"},
            place \in {"parameters", "parametersJsonSchema"},
            where \in {"responseSchema", "responseJsonSchema"}, s \in Schemas}

-----------------------------------------------------------------------------
Noted == Obj([text |-> T, annotations |-> Arr(<<Null>>)])
Thought == Obj([text |-> T, thought |-> True])
StepTypes == {Str(""), Str("model_output"), Str("thought"), Num}
Items ==
    {Obj([content |-> c] @@ r @@ ty):
        c \in {T, Noted, Arr(<<Noted, Thought, Signed, Part("image")>>)},
        r \in Maybe("role", {Str("model"), Str("user"), Null}), ty \in Maybe("type", StepTypes)}
    \cup {Obj([type |-> Str(k), result |-> v]):
            k \in {"function_result", "code_execution_result"}, v \in {T, Arr(<<Part("text"), Text>>)}}
    \cup {Obj([type |-> Str("code_execution_result"), result |-> T, signature |-> T])}

Format(schema) == Obj([type |-> Str("text"), schema |-> schema])

InteractionsBodies ==
    {Body("interactions", [input |-> Arr(<<i, T>>)]): i \in Items}
    \cup {Body("interactions", [input |-> Obj([role |-> Str(r), parts |-> Arr(<<Text>>),
                                               steps |-> Arr(<<i>>)])]):
            r \in {"user", "model", "critic"}, i \in Items}
    \cup {Body("interactions",
            [input |-> Part("text"), system_instruction |-> v, systemInstruction |-> T,
             tools |-> Arr(<<Obj([type |-> Str("function"), description |-> T, parameters |-> s])>>),
             response_format |-> f]):
            v \in {T, Null, Text, Obj([text |-> T, parts |-> Arr(<<Text>>)])}, s \in Schemas,
            f \in {Format(Deep), Arr(<<Format(Deep)>>)}}

-----------------------------------------------------------------------------
Twice ==
    LET message(r) == Obj([role |-> r, content |-> T])
        one(format, m) == Body(format, [messages |-> Arr(<<m>>)])
    IN  {one(f, Again(message(Str("user")), "role", Str("assistant"))): f \in {"openai", "claude"}}
        \cup {one("openai", Again(message(Str("user")), "content", Null)),
              Body("gemini", [contents |-> Arr(<<Again(Obj([role |-> Str("user"), parts |-> Arr(<<Text>>)]),
                                                       "role", Str("model"))>>)]),
              [format |-> "openai", json |-> Again(Obj([messages |-> Null]), "messages", T)],
              [format |-> "openai", json |-> Arr(<<T>>)]}

MCBodies == OpenAIBodies \cup ResponsesBodies \cup ClaudeBodies \cup GeminiBodies
            \cup InteractionsBodies \cup Twice

\* One role alone meets every test for several of them, one role missing every
\* text that could slip through with the others.
MCRoleSets == {enabled \in SUBSET Scopes: Cardinality(enabled) \notin {2, 3}}
=============================================================================
