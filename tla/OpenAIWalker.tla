---------------------------- MODULE OpenAIWalker ----------------------------
(* The walker of OpenAI chat completions (walker/openai.go). *)
EXTENDS CommonWalker

openAIRootControlFields ==
    <<"audio", "frequency_penalty", "function_call", "logit_bias", "logprobs",
      "max_completion_tokens", "max_tokens", "metadata", "modalities", "moderation", "n",
      "parallel_tool_calls", "presence_penalty", "prompt_cache_key", "prompt_cache_options",
      "prompt_cache_retention", "reasoning_effort", "response_format", "safety_identifier",
      "seed", "service_tier", "stop", "store", "stream", "stream_options", "temperature",
      "tool_choice", "top_logprobs", "top_p", "user", "verbosity", "web_search_options">>

walkOpenAI ==
    Unique({"messages", "prediction", "tools", "functions"})
      \o MarkFields(openAIRootControlFields)
      \o Required("messages", Arr(Each("walkOpenAIMessage")))
      \o Optional("prediction", Obj(Run("walkOpenAIPrediction")))
      \o Call("walkOpenAIToolDefinitions")

walkOpenAIToolDefinitions ==
    Optional("tools", Arr(Each("walkOpenAITool")))
      \o Optional("functions", Arr(Each("walkOpenAILegacyFunction")))

walkOpenAITool ==
    This(ObjOr(Skip, Reject))
      \o Unique({"type", "function", "cache_control"})
      \o Switch("type", [function |-> Skip], Reject, InvalidShape)
      \o Required("function", Obj(Run("walkOpenAIFunctionDefinition")))
      \o Optional("cache_control", ObjOrNull(Run("walkAnthropicCacheControl")))

walkOpenAILegacyFunction == This(ObjOr(Run("walkOpenAIFunctionDefinition"), Reject))

walkOpenAIFunctionDefinition ==
    Unique({"name", "description", "parameters", "strict"})
      \o RequiredOpaque("name")
      \o Text("description", "system")
      \o Schema("parameters")

walkOpenAIPrediction ==
    Unique({"type", "content"})
      \o Switch("type", [content |-> Skip], Reject, InvalidShape)
      \o Required("content", Anything(RunAs("walkTypedTextContent", "assistant")))

\* An unknown role is reported, but the rest of the message is walked for its
\* shape; its content stays without a disposition.
walkOpenAIMessage ==
    This(Obj(Skip))
      \o Unique({"role", "content", "tool_calls", "function_call", "name", "id", "call_id",
                 "tool_call_id", "refusal", "audio", "reasoning", "reasoning_content",
                 "reasoning_details", "cache_control", "annotations"})
      \o OpaqueStrings(<<"name", "id", "call_id", "tool_call_id">>)
      \o Optional("cache_control", ObjOrNull(Run("walkAnthropicCacheControl")))
      \o Optional("annotations", Anything(Mark))
      \o Switch("role", scopeForRole, RejectRole("unknown"), InvalidShape)
      \o Call("walkOpenAIReasoningReplay")
      \o If(InScope({"unknown"}), Optional("content", Anything(Skip)))
      \o If(InScope({"system", "user", "assistant", "tool_output"}),
            Optional("content", Anything(Run("walkTypedTextContent"))))
      \o If(InScope({"assistant"}), Text("refusal", "assistant"))
      \o If(InScope({"system", "user", "tool_output", "unknown"}),
            Optional("refusal", StrOrNull(Reject)))
      \o Optional("audio", ObjOrNull(Run("walkOpenAIAudio")))
      \o Optional("tool_calls", Arr(Each("walkOpenAIToolCall")))
      \o Optional("function_call", Obj(Run("walkOpenAIFunction")))

walkOpenAIAudio == OpaqueString("id")

walkOpenAIReasoningReplay ==
    LET elsewhere == {"system", "user", "tool_output", "unknown"}
        texts == <<"reasoning", "reasoning_content">>
    IN If(InScope({"assistant"}),
          Members(texts, StrOrNull(Mark))
            \o Optional("reasoning_details", ArrOrNull(Each("walkOpenAIReasoningDetail"))))
         \o If(InScope(elsewhere),
               Members(texts, StrOrNull(Reject))
                 \o Optional("reasoning_details", ArrOrNull(Reject)))

walkOpenAIReasoningDetail ==
    This(Obj(Skip))
      \o UniqueAll
      \o OpaqueStrings(<<"id", "format">>)
      \o Optional("index", NumberOrNull)
      \o Switch("type",
                "reasoning.text" :> Run("reasoningText")
                  @@ "reasoning.summary" :> Run("reasoningSummary")
                  @@ "reasoning.encrypted" :> Run("reasoningEncrypted"),
                Reject, InvalidShape)

reasoningText == OpaqueStrings(<<"text", "signature">>)
reasoningSummary == RequiredOpaque("summary")
reasoningEncrypted == RequiredOpaque("data")

walkOpenAIToolCall ==
    This(Obj(Skip))
      \o Unique({"type", "function", "id", "name", "call_id", "extra_content", "cache_control"})
      \o OpaqueStrings(<<"id", "name", "call_id">>)
      \o Optional("extra_content", Anything(Mark))
      \o Optional("cache_control", ObjOrNull(Run("walkAnthropicCacheControl")))
      \o Switch("type", [function |-> Skip], Reject, Skip)
      \o Required("function", Obj(Run("walkOpenAIFunction")))

walkOpenAIFunction ==
    Unique({"arguments", "name", "id", "call_id"})
      \o OpaqueStrings(<<"name", "id", "call_id">>)
      \o Optional("arguments", Str(Add("tool_input")))

OpenAIPrograms ==
    [walkOpenAI |-> walkOpenAI,
     walkOpenAIToolDefinitions |-> walkOpenAIToolDefinitions,
     walkOpenAITool |-> walkOpenAITool,
     walkOpenAILegacyFunction |-> walkOpenAILegacyFunction,
     walkOpenAIFunctionDefinition |-> walkOpenAIFunctionDefinition,
     walkOpenAIPrediction |-> walkOpenAIPrediction,
     walkOpenAIMessage |-> walkOpenAIMessage,
     walkOpenAIAudio |-> walkOpenAIAudio,
     walkOpenAIReasoningReplay |-> walkOpenAIReasoningReplay,
     walkOpenAIReasoningDetail |-> walkOpenAIReasoningDetail,
     reasoningText |-> reasoningText,
     reasoningSummary |-> reasoningSummary,
     reasoningEncrypted |-> reasoningEncrypted,
     walkOpenAIToolCall |-> walkOpenAIToolCall,
     walkOpenAIFunction |-> walkOpenAIFunction]
=============================================================================
