--------------------------- MODULE ResponsesWalker ---------------------------
(* The walker of OpenAI responses (walker/responses.go). *)
EXTENDS CommonWalker

BooleanOrNull == Boolean @@ [null |-> Skip]

\* markOpaqueStringArrayField
OpaqueStringArray(key) == Optional(key, ArrOrNull(Each("opaqueString")))

-----------------------------------------------------------------------------
(* Root members *)

walkResponses ==
    Unique({"instructions", "input", "prompt", "context_management", "conversation", "tools",
            "client_metadata"})
      \o Call("walkResponsesRootControls")
      \o Call("walkResponsesRootReferences")
      \o Text("instructions", "system")
      \o Optional("input", [string |-> Add("user"), array |-> Each("walkResponsesItem"),
                            null |-> Skip])
      \o Optional("prompt", Obj(Run("walkResponsesPrompt")))
      \o Optional("client_metadata", ObjOrNull(Run("walkResponsesClientMetadata")))
      \o Optional("tools", Arr(Each("walkResponsesRootTools")))

walkResponsesRootControls ==
    Unique({"model", "background", "max_output_tokens", "max_tool_calls", "parallel_tool_calls",
            "previous_response_id", "store", "temperature", "top_logprobs", "top_p",
            "prompt_cache_key", "safety_identifier", "user", "include", "metadata",
            "moderation", "prompt_cache_retention", "service_tier", "stream", "stream_options",
            "truncation", "prompt_cache_options", "reasoning", "text", "tool_choice"})
      \o OpaqueStrings(<<"model", "previous_response_id", "prompt_cache_key",
                         "safety_identifier", "user", "prompt_cache_retention",
                         "service_tier", "truncation">>)
      \o Members(<<"background", "parallel_tool_calls", "store", "stream">>, BooleanOrNull)
      \o Members(<<"max_output_tokens", "max_tool_calls", "temperature", "top_logprobs",
                   "top_p">>, NumberOrNull)
      \o OpaqueStringArray("include")
      \o Optional("metadata", ObjOrNull(Mark))
      \o Optional("moderation", ObjOrNull(Run("walkResponsesModeration")))
      \o Optional("prompt_cache_options", ObjOrNull(Run("walkResponsesPromptCacheOptions")))
      \o Optional("stream_options", ObjOrNull(Run("walkResponsesStreamOptions")))
      \o Optional("reasoning", ObjOrNull(Run("walkResponsesReasoningConfig")))
      \o Optional("text", ObjOrNull(Run("walkResponsesTextConfig")))
      \o Optional("tool_choice", StrOrNull(Mark) @@ Obj(Run("walkResponsesToolChoice")))

isResponsesClientMetadataControl ==
    <<"x-codex-installation-id", "session_id", "thread_id", "x-codex-window-id", "turn_id",
      "x-openai-subagent", "x-codex-parent-thread-id", "parent_turn_id", "root_turn_id",
      "x-codex-turn-state", "x-codex-responses-lite", "x-codex-ws-stream-request-start-ms",
      "traceparent", "tracestate">>

\* Metadata of unknown names is inspected, not refused.
walkResponsesClientMetadata ==
    UniqueAll
      \o Text("x-codex-turn-metadata", "tool_input")
      \o OpaqueStrings(isResponsesClientMetadataControl)
      \o This(Obj(AddOthers("tool_input")))

walkResponsesUntrustedMetadata == Anything(Add("tool_input"))

walkResponsesModeration ==
    Unique({"model", "policy"})
      \o RequiredOpaque("model")
      \o Optional("policy", ObjOrNull(Run("moderationPolicy")))

moderationPolicy ==
    Unique({"input", "output"})
      \o Members(<<"input", "output">>, ObjOrNull(Run("moderationDirection")))

moderationDirection == Unique({"mode"}) \o RequiredOpaque("mode")

walkResponsesPromptCacheOptions == Unique({"mode", "ttl"}) \o OpaqueStrings(<<"mode", "ttl">>)

walkResponsesStreamOptions ==
    Unique({"include_obfuscation"}) \o Optional("include_obfuscation", BooleanOrNull)

walkResponsesReasoningConfig ==
    Unique({"context", "effort", "generate_summary", "summary", "mode"})
      \o OpaqueStrings(<<"context", "effort", "generate_summary", "summary", "mode">>)

walkResponsesTextConfig ==
    Unique({"verbosity", "format"})
      \o OpaqueString("verbosity")
      \o Optional("format", ObjOrNull(Run("textFormat")))

textFormat ==
    Switch("type", [text |-> Stop, json_object |-> Stop, json_schema |-> Run("jsonSchema")],
           Reject, InvalidShape)

jsonSchema ==
    Unique({"type", "name", "schema", "strict", "description"})
      \o RequiredOpaque("name")
      \o Text("description", "system")
      \o Required("schema", Obj(Add("system")))
      \o Optional("strict", BooleanOrNull)

walkResponsesToolChoice ==
    Switch("type",
           [allowed_tools |-> Run("choiceAllowedTools"), function |-> Run("choiceNamed"),
            custom |-> Run("choiceNamed"), mcp |-> Run("choiceMCP")]
             @@ [t \in {"file_search", "web_search_preview", "computer",
                        "computer_use_preview", "computer_use",
                        "web_search_preview_2025_03_11", "image_generation",
                        "code_interpreter", "programmatic_tool_calling", "apply_patch",
                        "shell"} |-> Stop],
           Reject, InvalidShape)

choiceAllowedTools ==
    Unique({"type", "mode", "tools"})
      \o RequiredOpaque("mode")
      \o Required("tools", Arr(Each("allowedTool")))

allowedTool == This(Obj(Mark))
choiceNamed == Unique({"type", "name"}) \o RequiredOpaque("name")

choiceMCP ==
    Unique({"type", "server_label", "name"})
      \o RequiredOpaque("server_label")
      \o OpaqueString("name")

walkResponsesRootReferences ==
    Optional("context_management", Arr(Each("contextManagement")))
      \o Optional("conversation", StrOrNull(Mark) @@ Obj(Run("conversationID")))

conversationID == Unique({"id"}) \o RequiredOpaque("id")

contextManagement ==
    This(ObjOr(Skip, Reject))
      \o Unique({"type", "compact_threshold"})
      \o Switch("type", [compaction |-> Skip], Reject, InvalidShape)

walkResponsesPrompt ==
    Unique({"variables", "id", "version", "name"})
      \o OpaqueStrings(<<"id", "version", "name">>)
      \o Optional("variables", ObjOrNull(EachAs("promptVariable", "user")))

promptVariable ==
    This([string |-> Add("user"), object |-> Run("walkResponsesInputContent")]
           @@ Anything(Reject))

-----------------------------------------------------------------------------
(* Tool definitions *)

walkResponsesRootTools ==
    This(ObjOr(Skip, Reject))
      \o Switch("type",
                [function |-> Run("walkResponsesFunctionTool"),
                 custom |-> Run("walkResponsesCustomTool"),
                 namespace |-> Run("walkResponsesNamespaceTool"),
                 tool_search |-> Run("walkResponsesToolSearchDefinition")]
                  @@ [t \in {"web_search", "web_search_2025_08_26", "web_search_preview",
                             "web_search_preview_2025_03_11"}
                        |-> Run("walkResponsesWebSearchDefinition")]
                  @@ [t \in {"file_search", "computer", "computer_use_preview", "mcp",
                             "code_interpreter", "programmatic_tool_calling",
                             "image_generation", "local_shell", "shell", "apply_patch"}
                        |-> Reject],
                Reject, InvalidShape)

walkResponsesFunctionTool ==
    Unique({"type", "name", "description", "parameters", "strict", "allowed_callers",
            "defer_loading", "output_schema"})
      \o RequiredOpaque("name")
      \o Text("description", "system")
      \o Required("parameters", Obj(Add("system")))
      \o OpaqueStringArray("allowed_callers")
      \o Schema("output_schema")

walkResponsesCustomTool ==
    Unique({"type", "name", "description", "defer_loading", "format", "allowed_callers"})
      \o RequiredOpaque("name")
      \o Text("description", "system")
      \o Optional("defer_loading", BooleanOrNull)
      \o OpaqueStringArray("allowed_callers")
      \o Optional("format", ObjOrNull(Run("customFormat")))

customFormat ==
    Unique({"type", "syntax", "definition"})
      \o RequiredOpaque("type")
      \o OpaqueString("syntax")
      \o Text("definition", "system")

walkResponsesNamespaceTool ==
    Unique({"type", "name", "description", "tools"})
      \o RequiredOpaque("name")
      \o Text("description", "system")
      \o Required("tools", Arr(Each("walkResponsesRootTools")))

walkResponsesToolSearchDefinition ==
    Unique({"type", "execution", "description", "parameters"})
      \o RequiredOpaque("execution")
      \o RequiredText("description", "system")
      \o Required("parameters", Obj(Add("system")))

walkResponsesWebSearchDefinition ==
    Unique({"type", "external_web_access", "indexed_web_access", "filters", "user_location",
            "search_context_size", "search_content_types", "return_token_budget"})
      \o Members(<<"external_web_access", "indexed_web_access">>, BooleanOrNull)
      \o Optional("filters", ObjOrNull(Run("webSearchFilters")))
      \o Optional("user_location", ObjOrNull(Run("userLocation")))
      \o OpaqueString("search_context_size")
      \o OpaqueStringArray("search_content_types")
      \o Optional("return_token_budget", NumberOrNull)

webSearchFilters ==
    Unique({"allowed_domains", "blocked_domains"})
      \o OpaqueStringArray("allowed_domains")
      \o OpaqueStringArray("blocked_domains")

userLocation ==
    Unique({"type", "country", "region", "city", "timezone"})
      \o RequiredOpaque("type")
      \o OpaqueStrings(<<"country", "region", "city", "timezone">>)

-----------------------------------------------------------------------------
(* Input items *)

walkResponsesInternalItemMetadata ==
    Unique({"turn_id", "create_time", "content_item_kinds", "cell_id", "executed_tool_calls",
            "tool_calls_complete"})
      \o OpaqueStrings(<<"turn_id", "cell_id">>)
      \o OpaqueStringArray("content_item_kinds")
      \o Optional("create_time", NumberOrNull)
      \o Optional("tool_calls_complete", BooleanOrNull)
      \o Optional("executed_tool_calls", [null |-> Skip] @@ walkResponsesUntrustedMetadata)

walkResponsesItem ==
    This(ObjOr(Skip, Reject))
      \o Optional("internal_chat_message_metadata_passthrough",
                  ObjOrNull(Run("walkResponsesInternalItemMetadata")))
      \o Switch("type",
                [message |-> Run("walkResponsesMessage"),
                 file_search_call |-> Run("walkResponsesFileSearch"),
                 computer_call |-> Run("walkResponsesComputerCall"),
                 computer_call_output |-> Run("walkResponsesComputerOutput"),
                 web_search_call |-> Run("walkResponsesWebSearch"),
                 function_call |-> Run("walkResponsesFunctionCall"),
                 function_call_output |-> Run("walkResponsesCallOutput"),
                 custom_tool_call_output |-> Run("walkResponsesCallOutput"),
                 tool_search_call |-> Run("walkResponsesToolSearchCall"),
                 additional_tools |-> Run("walkResponsesAdditionalTools"),
                 reasoning |-> Run("walkResponsesReasoningReplay"),
                 compaction |-> Run("walkResponsesCompactionReplay"),
                 image_generation_call |-> Run("walkResponsesImageGenerationReplay"),
                 code_interpreter_call |-> Run("walkResponsesCodeInterpreter"),
                 local_shell_call |-> Run("walkResponsesLocalShell"),
                 local_shell_call_output |-> Run("walkResponsesLocalShellOutput"),
                 shell_call |-> Run("walkResponsesShellCall"),
                 shell_call_output |-> Run("walkResponsesShellOutput"),
                 apply_patch_call |-> Run("walkResponsesApplyPatch"),
                 apply_patch_call_output |-> Run("walkResponsesApplyPatchOutput"),
                 mcp_list_tools |-> Run("walkResponsesMCPListTools"),
                 mcp_approval_request |-> Run("walkResponsesMCPApprovalRequest"),
                 mcp_approval_response |-> Run("walkResponsesMCPApprovalResponse"),
                 mcp_call |-> Run("walkResponsesMCPCall"),
                 custom_tool_call |-> Run("walkResponsesCustomCall"),
                 compaction_trigger |-> Stop,
                 item_reference |-> Run("walkResponsesReferenceItem"),
                 program_output |-> Run("walkResponsesProgramOutput"),
                 text |-> Run("compatibilityInputText"),
                 input_text |-> Run("compatibilityInputText"),
                 output_text |-> Run("compatibilityOutputText")]
                  @@ [t \in {"tool_search_output", "program", "thought"} |-> Reject],
                Reject, Run("untypedResponsesItem"))

\* A message may come without its type.
untypedResponsesItem ==
    Optional("content", Anything(Skip))
      \o If(Has({"content"}), Call("walkResponsesMessage"))
      \o If(Lacks({"content"}), This(Anything(Reject)))

walkResponsesAdditionalTools ==
    Unique({"type", "id", "role", "tools"})
      \o OpaqueString("id")
      \o RequiredOpaque("role")
      \o Required("tools", Arr(Each("walkResponsesRootTools")))

walkResponsesMessage ==
    Unique({"type", "role", "content", "id", "status", "phase"})
      \o OpaqueStrings(<<"id", "status", "phase">>)
      \o Switch("role", scopeForRole, RejectRole("unknown"), InvalidShape)
      \o If(InScope({"unknown"}), This(Anything(Stop)))
      \o Required("content", [string |-> Add("same"), array |-> Each("responsesMessageBlock")])

responsesMessageBlock ==
    This(ObjOr(Skip, Reject))
      \o Switch("type",
                [input_text |-> Run("responsesInputText"),
                 input_image |-> Run("responsesInputImage"),
                 input_file |-> Run("responsesInputFile"),
                 output_text |-> Run("assistantOutputText"),
                 refusal |-> Run("assistantRefusal"),
                 text |-> Run("responsesText")],
                Reject, InvalidShape)

walkResponsesCacheBreakpoint ==
    Optional("prompt_cache_breakpoint", ObjOrNull(Run("walkCommonCacheBreakpoint")))

responsesText ==
    Unique({"type", "text", "id", "name", "call_id", "signature", "prompt_cache_breakpoint"})
      \o OpaqueStrings(<<"id", "name", "call_id", "signature">>)
      \o walkResponsesCacheBreakpoint
      \o RequiredText("text", "same")

walkResponsesInputContent ==
    This(Obj(Skip))
      \o Switch("type",
                [input_text |-> Run("responsesInputText"),
                 input_image |-> Run("responsesInputImage"),
                 input_file |-> Run("responsesInputFile")],
                Reject, InvalidShape)

responsesInputContent ==
    Unique({"type", "text", "file_id", "image_url", "detail", "file_data", "file_url",
            "filename", "prompt_cache_breakpoint"})
      \o walkResponsesCacheBreakpoint

responsesInputText == responsesInputContent \o RequiredText("text", "same")

responsesInputImage ==
    responsesInputContent \o OpaqueStrings(<<"file_id", "image_url", "detail">>)

responsesInputFile ==
    responsesInputContent
      \o OpaqueStrings(<<"file_data", "file_id", "file_url", "filename", "detail">>)

\* Output content belongs to the assistant.
assistantOnly == If(InScope({"system", "user", "tool_output"}), This(Anything(Reject)))

walkResponsesOutputContent == Unique({"type", "text", "refusal", "annotations", "logprobs"})

\* Annotations and log probabilities refer to positions in the text: the block
\* that has them is reported, whatever of it has been walked.
assistantOutputText ==
    assistantOnly
      \o walkResponsesOutputContent
      \o Optional("annotations", ArrOrNull(Each("walkResponsesOutputAnnotations")))
      \o Optional("logprobs", ArrOrNull(RejectOwnerNonEmpty))
      \o RequiredText("text", "assistant")

assistantRefusal ==
    assistantOnly \o walkResponsesOutputContent \o RequiredText("refusal", "assistant")

walkResponsesOutputAnnotations ==
    This(ObjOr(Skip, RejectBlock))
      \o Switch("type",
                [file_citation |-> Run("fileCitation"), file_path |-> Run("filePath"),
                 url_citation |-> RejectBlock, container_file_citation |-> RejectBlock],
                RejectBlock, InvalidShape)

fileCitation ==
    Unique({"type", "file_id", "filename", "index"})
      \o RequiredOpaque("file_id")
      \o RequiredOpaque("filename")
      \o Required("index", [number |-> Skip])

filePath ==
    Unique({"type", "file_id", "index"})
      \o RequiredOpaque("file_id")
      \o Required("index", [number |-> Skip])

-----------------------------------------------------------------------------
(* Tool calls and their outputs *)

toolInputString == This([string |-> Add("tool_input")] @@ Anything(Reject))

walkResponsesCallerField == Optional("caller", ObjOrNull(Run("caller")))

caller ==
    Unique({"type", "caller_id"})
      \o Switch("type", [direct |-> Stop, program |-> Run("programCaller")],
                Reject, InvalidShape)

programCaller == RequiredOpaque("caller_id")

walkResponsesFileSearch ==
    Unique({"type", "id", "queries", "status", "results"})
      \o OpaqueStrings(<<"id", "status">>)
      \o Required("queries", Arr(Each("toolInputString")))
      \o Optional("results", ArrOrNull(Each("fileSearchResult")))

fileSearchResult ==
    This(ObjOr(Skip, Reject))
      \o Unique({"file_id", "filename", "score", "text", "attributes"})
      \o OpaqueStrings(<<"file_id", "filename">>)
      \o Optional("text", Str(Add("tool_output")))
      \o Optional("attributes", Obj(Each("fileSearchAttribute")))

fileSearchAttribute ==
    This([string |-> Add("tool_output"), number |-> Skip] @@ Boolean @@ Anything(Reject))

walkResponsesComputerCall ==
    Unique({"type", "id", "call_id", "pending_safety_checks", "status", "action", "actions"})
      \o OpaqueStrings(<<"id", "call_id", "status">>)
      \o Required("pending_safety_checks", Arr(Each("walkResponsesSafetyChecks")))
      \o Optional("action", Anything(Run("walkResponsesComputerAction")))
      \o Optional("actions", Arr(Each("walkResponsesComputerAction")))

\* Key names are opaque; only the text to be typed is inspected.
walkResponsesComputerAction ==
    This(ObjOr(Skip, Reject))
      \o Unique({"type", "text", "button", "keys", "path", "x", "y", "scroll_x", "scroll_y"})
      \o Switch("type",
                [type |-> Run("actionType"), click |-> Run("actionClick"),
                 double_click |-> Run("actionDoubleClick"), drag |-> Run("actionDrag"),
                 keypress |-> Run("actionKeypress"), move |-> Run("actionMove"),
                 scroll |-> Run("actionScroll"), screenshot |-> Stop, wait |-> Stop],
                Reject, InvalidShape)

walkResponsesCoordinates(keys) ==
    Concat([i \in DOMAIN keys |-> Required(keys[i], [number |-> Skip])])

actionType == RequiredText("text", "tool_input")

actionClick ==
    RequiredOpaque("button") \o OpaqueStringArray("keys") \o walkResponsesCoordinates(<<"x", "y">>)

actionDoubleClick ==
    Required("keys", Arr(Each("opaqueString"))) \o walkResponsesCoordinates(<<"x", "y">>)

actionDrag == OpaqueStringArray("keys") \o Required("path", Arr(Each("walkResponsesDragPath")))
actionKeypress == Required("keys", Arr(Each("opaqueString")))
actionMove == OpaqueStringArray("keys") \o walkResponsesCoordinates(<<"x", "y">>)

actionScroll ==
    OpaqueStringArray("keys")
      \o walkResponsesCoordinates(<<"scroll_x", "scroll_y", "x", "y">>)

walkResponsesDragPath ==
    This(Obj(Skip)) \o Unique({"x", "y"}) \o walkResponsesCoordinates(<<"x", "y">>)

walkResponsesSafetyChecks ==
    This(ObjOr(Skip, Reject))
      \o Unique({"id", "code", "message"})
      \o OpaqueStrings(<<"id", "code", "message">>)

walkResponsesComputerOutput ==
    Unique({"type", "call_id", "output", "id", "acknowledged_safety_checks", "status"})
      \o OpaqueStrings(<<"call_id", "id", "status">>)
      \o Optional("acknowledged_safety_checks", Arr(Each("walkResponsesSafetyChecks")))
      \o Required("output", Obj(Run("computerOutput")))

computerOutput ==
    Unique({"type", "file_id", "image_url"})
      \o Switch("type", [computer_screenshot |-> Skip], Reject, InvalidShape)
      \o OpaqueStrings(<<"file_id", "image_url">>)

walkResponsesWebSearch ==
    Unique({"type", "id", "action", "status"})
      \o OpaqueStrings(<<"id", "status">>)
      \o Required("action", Obj(Run("webSearchAction")))

webSearchAction ==
    Unique({"type", "query", "queries", "sources", "url", "pattern"})
      \o Switch("type",
                [search |-> Run("webSearch"), open_page |-> Run("openPage"),
                 find_in_page |-> Run("findInPage")],
                Reject, InvalidShape)

webSearch ==
    Optional("query", Str(Add("tool_input")))
      \o Optional("queries", Arr(Each("toolInputString")))
      \o Optional("sources", ArrOrNull(Each("walkResponsesWebSearchSources")))

openPage == OpaqueString("url")
findInPage == RequiredOpaque("url") \o RequiredText("pattern", "tool_input")

walkResponsesWebSearchSources ==
    This(ObjOr(Skip, Reject))
      \o Unique({"type", "url"})
      \o Switch("type", [url |-> Skip], Reject, InvalidShape)
      \o RequiredOpaque("url")

walkResponsesFunctionCall ==
    Unique({"type", "arguments", "call_id", "id", "name", "namespace", "caller", "status"})
      \o OpaqueStrings(<<"call_id", "id", "name", "namespace", "status">>)
      \o walkResponsesCallerField
      \o RequiredText("arguments", "tool_input")

walkResponsesCallOutput ==
    Unique({"type", "output", "call_id", "id", "caller", "status"})
      \o OpaqueStrings(<<"call_id", "id", "status">>)
      \o walkResponsesCallerField
      \o Required("output", [string |-> Add("tool_output"),
                             array |-> EachAs("walkResponsesInputContent", "tool_output")])

walkResponsesToolSearchCall ==
    Unique({"type", "arguments", "id", "call_id", "status", "execution"})
      \o OpaqueStrings(<<"id", "call_id", "status", "execution">>)
      \o Required("arguments", Anything(Add("tool_input")))

walkResponsesReasoningReplay ==
    Unique({"type", "id", "summary", "encrypted_content", "content", "status"})
      \o RequiredOpaque("id")
      \o OpaqueStrings(<<"encrypted_content", "status">>)
      \o Required("summary", Arr(Each("reasoningSummaryPart")))
      \o Optional("content", ArrOrNull(Each("reasoningContentPart")))

walkResponsesReasoningParts(expectedType) ==
    This(Obj(Skip))
      \o Unique({"type", "text"})
      \o Switch("type", expectedType :> Skip, Reject, InvalidShape)
      \o RequiredText("text", "assistant")

reasoningSummaryPart == walkResponsesReasoningParts("summary_text")
reasoningContentPart == walkResponsesReasoningParts("reasoning_text")

walkResponsesCompactionReplay ==
    Unique({"type", "encrypted_content", "id"})
      \o RequiredOpaque("encrypted_content")
      \o OpaqueString("id")

walkResponsesImageGenerationReplay ==
    Unique({"type", "result", "id", "status"})
      \o Required("result", StrOrNull(Mark))
      \o RequiredOpaque("id")
      \o RequiredOpaque("status")

walkResponsesCodeInterpreter ==
    Unique({"type", "code", "outputs", "id", "container_id", "status"})
      \o OpaqueStrings(<<"id", "container_id", "status">>)
      \o Text("code", "tool_input")
      \o Optional("outputs", ArrOrNull(Each("codeInterpreterOutput")))

codeInterpreterOutput ==
    This(ObjOr(Skip, Reject))
      \o Unique({"type", "logs", "url"})
      \o Switch("type", [logs |-> Run("logsOutput"), image |-> Run("imageOutput")],
                Reject, InvalidShape)

logsOutput == RequiredText("logs", "tool_output")
imageOutput == RequiredOpaque("url")

walkResponsesLocalShell ==
    Unique({"type", "id", "action", "call_id", "status"})
      \o OpaqueStrings(<<"id", "call_id", "status">>)
      \o Required("action", Obj(Run("localShellAction")))

walkResponsesStringMap == Obj(Each("toolInputString"))

localShellAction ==
    Unique({"type", "command", "env", "timeout_ms", "user", "working_directory"})
      \o Switch("type", [exec |-> Skip], Reject, InvalidShape)
      \o OpaqueStrings(<<"user", "working_directory">>)
      \o Required("command", Arr(Each("toolInputString")))
      \o Required("env", walkResponsesStringMap)

walkResponsesLocalShellOutput ==
    Unique({"type", "id", "output", "status"})
      \o OpaqueStrings(<<"id", "status">>)
      \o RequiredText("output", "tool_output")

walkResponsesEnvironmentField == Optional("environment", ObjOrNull(Run("environment")))

environment ==
    Unique({"type", "container_id", "skills"})
      \o Switch("type",
                [container_reference |-> Run("containerReference"),
                 local |-> Run("localEnvironment")],
                Reject, InvalidShape)

containerReference == RequiredOpaque("container_id")
localEnvironment == Optional("skills", ArrOrNull(Each("localSkill")))

localSkill ==
    This(ObjOr(Skip, Reject))
      \o Unique({"name", "description", "path"})
      \o OpaqueStrings(<<"name", "path">>)
      \o Text("description", "system")

walkResponsesShellCall ==
    Unique({"type", "action", "call_id", "id", "caller", "environment", "status"})
      \o OpaqueStrings(<<"call_id", "id", "status">>)
      \o walkResponsesCallerField
      \o walkResponsesEnvironmentField
      \o Required("action", Obj(Run("shellAction")))

shellAction ==
    Unique({"commands", "max_output_length", "timeout_ms"})
      \o Required("commands", Arr(Each("toolInputString")))

walkResponsesShellOutput ==
    Unique({"type", "call_id", "output", "id", "max_output_length", "caller", "status"})
      \o OpaqueStrings(<<"call_id", "id", "status">>)
      \o walkResponsesCallerField
      \o Required("output", Arr(Each("shellChunk")))

\* The output of a command whose outcome is unknown, and reported, is selected.
shellChunk ==
    This(ObjOr(Skip, Reject))
      \o Unique({"outcome", "stderr", "stdout"})
      \o Required("outcome", Obj(Run("shellOutcome")))
      \o RequiredText("stdout", "tool_output")
      \o RequiredText("stderr", "tool_output")

shellOutcome ==
    Unique({"type", "exit_code"})
      \o Switch("type", [timeout |-> Stop, exit |-> Stop], Reject, InvalidShape)

walkResponsesApplyPatch ==
    Unique({"type", "call_id", "operation", "status", "id", "caller"})
      \o OpaqueStrings(<<"call_id", "status", "id">>)
      \o walkResponsesCallerField
      \o Required("operation", Obj(Run("patchOperation")))

patchOperation ==
    Unique({"type", "diff", "path"})
      \o RequiredOpaque("path")
      \o Switch("type",
                [create_file |-> Run("patchDiff"), update_file |-> Run("patchDiff"),
                 delete_file |-> Stop],
                Reject, InvalidShape)

patchDiff == RequiredText("diff", "tool_input")

walkResponsesApplyPatchOutput ==
    Unique({"type", "call_id", "status", "id", "output", "caller"})
      \o OpaqueStrings(<<"call_id", "status", "id">>)
      \o walkResponsesCallerField
      \o Text("output", "tool_output")

walkResponsesMCPListTools ==
    Unique({"type", "id", "server_label", "tools", "error"})
      \o OpaqueStrings(<<"id", "server_label">>)
      \o Text("error", "tool_output")
      \o Optional("tools", ArrOrNull(Each("mcpListedTool")))

mcpListedTool ==
    This(ObjOr(Skip, Reject))
      \o Unique({"name", "description", "input_schema", "annotations"})
      \o RequiredOpaque("name")
      \o Text("description", "system")
      \o Required("input_schema", Anything(Add("system")))
      \o Optional("annotations", Anything(Add("system")))

walkResponsesMCPApprovalRequest ==
    Unique({"type", "arguments", "id", "name", "server_label"})
      \o OpaqueStrings(<<"id", "name", "server_label">>)
      \o RequiredText("arguments", "tool_input")

walkResponsesMCPApprovalResponse ==
    Unique({"type", "approval_request_id", "approve", "id", "reason"})
      \o OpaqueStrings(<<"approval_request_id", "id">>)
      \o Text("reason", "user")

walkResponsesMCPCall ==
    Unique({"type", "arguments", "error", "output", "id", "approval_request_id", "name",
            "server_label", "status"})
      \o OpaqueStrings(<<"id", "approval_request_id", "name", "server_label", "status">>)
      \o Optional("arguments", Str(Add("tool_input")))
      \o Text("error", "tool_output")
      \o Text("output", "tool_output")

walkResponsesCustomCall ==
    Unique({"type", "input", "call_id", "id", "name", "namespace", "caller", "status"})
      \o OpaqueStrings(<<"call_id", "id", "name", "namespace", "status">>)
      \o walkResponsesCallerField
      \o RequiredText("input", "tool_input")

walkResponsesReferenceItem == Unique({"type", "id"}) \o RequiredOpaque("id")

walkResponsesProgramOutput ==
    Unique({"type", "result", "id", "call_id", "status"})
      \o OpaqueStrings(<<"id", "call_id", "status">>)
      \o RequiredText("result", "tool_output")

compatibilityInputText == Unique({"type", "text"}) \o RequiredText("text", "user")
compatibilityOutputText == Unique({"type", "text"}) \o RequiredText("text", "assistant")

-----------------------------------------------------------------------------
ResponsesPrograms ==
    [walkResponses |-> walkResponses,
     walkResponsesRootControls |-> walkResponsesRootControls,
     walkResponsesClientMetadata |-> walkResponsesClientMetadata,
     walkResponsesModeration |-> walkResponsesModeration,
     moderationPolicy |-> moderationPolicy,
     moderationDirection |-> moderationDirection,
     walkResponsesPromptCacheOptions |-> walkResponsesPromptCacheOptions,
     walkResponsesStreamOptions |-> walkResponsesStreamOptions,
     walkResponsesReasoningConfig |-> walkResponsesReasoningConfig,
     walkResponsesTextConfig |-> walkResponsesTextConfig,
     textFormat |-> textFormat,
     jsonSchema |-> jsonSchema,
     walkResponsesToolChoice |-> walkResponsesToolChoice,
     choiceAllowedTools |-> choiceAllowedTools,
     allowedTool |-> allowedTool,
     choiceNamed |-> choiceNamed,
     choiceMCP |-> choiceMCP,
     walkResponsesRootReferences |-> walkResponsesRootReferences,
     conversationID |-> conversationID,
     contextManagement |-> contextManagement,
     walkResponsesPrompt |-> walkResponsesPrompt,
     promptVariable |-> promptVariable,
     walkResponsesRootTools |-> walkResponsesRootTools,
     walkResponsesFunctionTool |-> walkResponsesFunctionTool,
     walkResponsesCustomTool |-> walkResponsesCustomTool,
     customFormat |-> customFormat,
     walkResponsesNamespaceTool |-> walkResponsesNamespaceTool,
     walkResponsesToolSearchDefinition |-> walkResponsesToolSearchDefinition,
     walkResponsesWebSearchDefinition |-> walkResponsesWebSearchDefinition,
     webSearchFilters |-> webSearchFilters,
     userLocation |-> userLocation,
     walkResponsesInternalItemMetadata |-> walkResponsesInternalItemMetadata,
     walkResponsesItem |-> walkResponsesItem,
     untypedResponsesItem |-> untypedResponsesItem,
     walkResponsesAdditionalTools |-> walkResponsesAdditionalTools,
     walkResponsesMessage |-> walkResponsesMessage,
     responsesMessageBlock |-> responsesMessageBlock,
     responsesText |-> responsesText,
     walkResponsesInputContent |-> walkResponsesInputContent,
     responsesInputText |-> responsesInputText,
     responsesInputImage |-> responsesInputImage,
     responsesInputFile |-> responsesInputFile,
     assistantOutputText |-> assistantOutputText,
     assistantRefusal |-> assistantRefusal,
     walkResponsesOutputAnnotations |-> walkResponsesOutputAnnotations,
     fileCitation |-> fileCitation,
     filePath |-> filePath,
     toolInputString |-> toolInputString,
     caller |-> caller,
     programCaller |-> programCaller,
     walkResponsesFileSearch |-> walkResponsesFileSearch,
     fileSearchResult |-> fileSearchResult,
     fileSearchAttribute |-> fileSearchAttribute,
     walkResponsesComputerCall |-> walkResponsesComputerCall,
     walkResponsesComputerAction |-> walkResponsesComputerAction,
     actionType |-> actionType,
     actionClick |-> actionClick,
     actionDoubleClick |-> actionDoubleClick,
     actionDrag |-> actionDrag,
     actionKeypress |-> actionKeypress,
     actionMove |-> actionMove,
     actionScroll |-> actionScroll,
     walkResponsesDragPath |-> walkResponsesDragPath,
     walkResponsesSafetyChecks |-> walkResponsesSafetyChecks,
     walkResponsesComputerOutput |-> walkResponsesComputerOutput,
     computerOutput |-> computerOutput,
     walkResponsesWebSearch |-> walkResponsesWebSearch,
     webSearchAction |-> webSearchAction,
     webSearch |-> webSearch,
     openPage |-> openPage,
     findInPage |-> findInPage,
     walkResponsesWebSearchSources |-> walkResponsesWebSearchSources,
     walkResponsesFunctionCall |-> walkResponsesFunctionCall,
     walkResponsesCallOutput |-> walkResponsesCallOutput,
     walkResponsesToolSearchCall |-> walkResponsesToolSearchCall,
     walkResponsesReasoningReplay |-> walkResponsesReasoningReplay,
     reasoningSummaryPart |-> reasoningSummaryPart,
     reasoningContentPart |-> reasoningContentPart,
     walkResponsesCompactionReplay |-> walkResponsesCompactionReplay,
     walkResponsesImageGenerationReplay |-> walkResponsesImageGenerationReplay,
     walkResponsesCodeInterpreter |-> walkResponsesCodeInterpreter,
     codeInterpreterOutput |-> codeInterpreterOutput,
     logsOutput |-> logsOutput,
     imageOutput |-> imageOutput,
     walkResponsesLocalShell |-> walkResponsesLocalShell,
     localShellAction |-> localShellAction,
     walkResponsesLocalShellOutput |-> walkResponsesLocalShellOutput,
     environment |-> environment,
     containerReference |-> containerReference,
     localEnvironment |-> localEnvironment,
     localSkill |-> localSkill,
     walkResponsesShellCall |-> walkResponsesShellCall,
     shellAction |-> shellAction,
     walkResponsesShellOutput |-> walkResponsesShellOutput,
     shellChunk |-> shellChunk,
     shellOutcome |-> shellOutcome,
     walkResponsesApplyPatch |-> walkResponsesApplyPatch,
     patchOperation |-> patchOperation,
     patchDiff |-> patchDiff,
     walkResponsesApplyPatchOutput |-> walkResponsesApplyPatchOutput,
     walkResponsesMCPListTools |-> walkResponsesMCPListTools,
     mcpListedTool |-> mcpListedTool,
     walkResponsesMCPApprovalRequest |-> walkResponsesMCPApprovalRequest,
     walkResponsesMCPApprovalResponse |-> walkResponsesMCPApprovalResponse,
     walkResponsesMCPCall |-> walkResponsesMCPCall,
     walkResponsesCustomCall |-> walkResponsesCustomCall,
     walkResponsesReferenceItem |-> walkResponsesReferenceItem,
     walkResponsesProgramOutput |-> walkResponsesProgramOutput,
     compatibilityInputText |-> compatibilityInputText,
     compatibilityOutputText |-> compatibilityOutputText]
=============================================================================
