---------------------------- MODULE ClaudeWalker ----------------------------
(* The walker of Anthropic messages (walker/claude.go). *)
EXTENDS CommonWalker

claudeRootControlFields ==
    <<"model", "max_tokens", "inference_geo", "temperature", "top_k", "top_p", "container",
      "cache_control", "metadata", "output_config", "service_tier", "stop_sequences", "stream",
      "thinking", "tool_choice", "context_management", "mcp_servers">>

walkClaude ==
    Unique({"system", "messages", "tools"})
      \o MarkFields(claudeRootControlFields)
      \o Optional("system", Anything(RunAs("walkClaudeSystem", "system")))
      \o Required("messages", Arr(Each("walkClaudeMessage")))
      \o Optional("tools", Arr(Each("walkClaudeToolDefinition")))

walkClaudeCacheControl ==
    Optional("cache_control", ObjOrNull(Run("walkAnthropicCacheControl")))

walkClaudeToolDefinition ==
    This(ObjOr(Skip, Reject))
      \o Unique({"type", "name", "description", "input_schema", "cache_control", "strict",
                 "defer_loading"})
      \o Optional("type", Str(Mark))
      \o RequiredOpaque("name")
      \o Text("description", "system")
      \o If(Lacks({"type"}), Required("input_schema", Obj(Add("system"))))
      \o If(Has({"type"}), Optional("input_schema", Obj(Add("system"))))
      \o walkClaudeCacheControl

\* Citations that are replayed refer to the text; only the request flag and an
\* empty list are admitted.
walkClaudeCitations ==
    Optional("citations", ObjOrNull(Run("citationsEnabled")) @@ Arr(RejectNonEmpty))

citationsEnabled == Unique({"enabled"}) \o Required("enabled", Boolean)

walkClaudeSystem == This([string |-> Add("system"), array |-> Each("walkClaudeSystemBlock")])

walkClaudeSystemBlock ==
    This(ObjOr(Skip, Reject))
      \o Unique({"type", "text", "id", "name", "signature", "cache_control", "citations"})
      \o OpaqueStrings(<<"id", "name", "signature">>)
      \o walkClaudeCacheControl
      \o walkClaudeCitations
      \o Switch("type", [text |-> Run("typedText")], Reject, Reject)

walkClaudeMessage ==
    This(Obj(Skip))
      \o Unique({"role", "content", "id", "name", "signature"})
      \o OpaqueStrings(<<"id", "name", "signature">>)
      \o Switch("role", scopeForRole, RejectRole("unknown"), InvalidShape)
      \o If(InScope({"unknown"}), This(Anything(Stop)))
      \o Required("content", [string |-> Add("same"), array |-> Each("walkClaudeContentBlock")])

walkClaudeContentBlock ==
    This(ObjOr(Skip, Reject))
      \o Unique({"type", "text", "input", "content", "source", "context", "title", "thinking",
                 "data", "signature", "id", "name", "tool_use_id", "toolset_name",
                 "cache_control", "citations", "caller", "is_error"})
      \o Switch("type",
                [text |-> Run("claudeText"), tool_use |-> Run("claudeToolUse"),
                 tool_result |-> Run("claudeToolResult"), thinking |-> Run("claudeThinking"),
                 redacted_thinking |-> Run("claudeRedactedThinking"),
                 image |-> Run("claudeImage"), document |-> Run("walkClaudeDocument")],
                Reject, Reject)

claudeText ==
    OpaqueStrings(<<"id", "name", "signature">>)
      \o walkClaudeCacheControl \o walkClaudeCitations
      \o RequiredText("text", "same")

claudeToolUse ==
    OpaqueStrings(<<"id", "name", "toolset_name">>)
      \o walkClaudeCacheControl
      \o Optional("caller", [null |-> Skip] @@ Anything(Reject))
      \o Required("input", Anything(Add("tool_input")))

\* Faulty variant: a result keeps the scope of its message, except for what is not
\* a list of known parts.
SameScopeVariant ==
    OpaqueStrings(<<"tool_use_id", "toolset_name">>)
      \o walkClaudeCacheControl
      \o Required("content", Anything(Run("walkClaudeToolResult")))

claudeToolResult ==
    OpaqueStrings(<<"tool_use_id", "toolset_name">>)
      \o walkClaudeCacheControl
      \o Required("content", Anything(RunAs("walkClaudeToolResult", "tool_output")))

claudeThinking == RequiredOpaque("thinking") \o RequiredOpaque("signature")

\* Faulty variant: the data is checked to be a string, and left at that.
UnmarkedDataVariant == Required("data", Str(Skip))

claudeRedactedThinking == RequiredOpaque("data")
claudeImage == walkClaudeCacheControl \o Call("walkClaudeOpaqueSource")

walkClaudeToolResult ==
    This([array |-> Each("walkClaudeToolResultItem")] @@ Anything(Add("tool_output")))

walkClaudeToolResultItem ==
    This(ObjOr(Skip, Add("tool_output")))
      \o Switch("type",
                [text |-> Run("claudeToolResultText"), image |-> Run("walkClaudeOpaqueSource"),
                 document |-> Run("walkClaudeDocument"), thinking |-> Run("claudeThinking"),
                 redacted_thinking |-> Run("claudeRedactedThinking")],
                Reject, Add("tool_output"))

claudeToolResultText ==
    Unique({"type", "text", "cache_control", "citations"})
      \o walkClaudeCacheControl \o walkClaudeCitations
      \o RequiredText("text", "tool_output")

walkClaudeOpaqueSource == Required("source", Obj(Run("opaqueSource")))

opaqueSource ==
    Unique({"type", "media_type", "data", "url", "file_id"})
      \o Switch("type", [base64 |-> Run("base64Source"), url |-> Run("urlSource"),
                         file |-> Run("fileSource")],
                Reject, InvalidShape)

base64Source == RequiredOpaque("media_type") \o RequiredOpaque("data")
urlSource == RequiredOpaque("url")
fileSource == RequiredOpaque("file_id")

walkClaudeDocument ==
    walkClaudeCacheControl \o walkClaudeCitations
      \o Members(<<"context", "title">>, StrOrNull(Add("same")))
      \o Required("source", Obj(Run("documentSource")))

documentSource ==
    Unique({"type", "media_type", "data", "url", "file_id", "content"})
      \o Switch("type", [text |-> Run("textSource"), content |-> Run("contentSource"),
                         base64 |-> Run("base64Source"), url |-> Run("urlSource"),
                         file |-> Run("fileSource")],
                Reject, InvalidShape)

textSource == RequiredText("data", "same")
contentSource == Required("content", Arr(Each("walkTypedTextBlock")))

ClaudePrograms ==
    [walkClaude |-> walkClaude,
     walkClaudeToolDefinition |-> walkClaudeToolDefinition,
     citationsEnabled |-> citationsEnabled,
     walkClaudeSystem |-> walkClaudeSystem,
     walkClaudeSystemBlock |-> walkClaudeSystemBlock,
     walkClaudeMessage |-> walkClaudeMessage,
     walkClaudeContentBlock |-> walkClaudeContentBlock,
     claudeText |-> claudeText,
     claudeToolUse |-> claudeToolUse,
     claudeToolResult |-> claudeToolResult,
     claudeThinking |-> claudeThinking,
     claudeRedactedThinking |-> claudeRedactedThinking,
     claudeImage |-> claudeImage,
     walkClaudeToolResult |-> walkClaudeToolResult,
     walkClaudeToolResultItem |-> walkClaudeToolResultItem,
     claudeToolResultText |-> claudeToolResultText,
     walkClaudeOpaqueSource |-> walkClaudeOpaqueSource,
     opaqueSource |-> opaqueSource,
     base64Source |-> base64Source,
     urlSource |-> urlSource,
     fileSource |-> fileSource,
     walkClaudeDocument |-> walkClaudeDocument,
     documentSource |-> documentSource,
     textSource |-> textSource,
     contentSource |-> contentSource]
=============================================================================
