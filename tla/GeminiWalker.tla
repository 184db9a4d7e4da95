---------------------------- MODULE GeminiWalker ----------------------------
(* The walker of Gemini contents (walker/gemini.go). *)
EXTENDS CommonWalker

geminiRootControlFields ==
    <<"model", "toolConfig", "safetySettings", "generationConfig", "cachedContent",
      "serviceTier", "store", "labels", "tool_config", "safety_settings", "generation_config",
      "cached_content", "service_tier">>

walkGemini ==
    Unique({"systemInstruction", "system_instruction", "contents", "tools"})
      \o MarkFields(geminiRootControlFields)
      \o OneOf("systemInstruction", "system_instruction", FALSE,
               Obj(RunAs("walkGeminiSystem", "system")))
      \o Required("contents", Arr(Each("walkGeminiContent")))
      \o Optional("tools", Arr(Each("walkGeminiToolDefinition")))

\* A marker is checked to be an object; its strings get no disposition.
walkGeminiMarkerTool == Obj(Skip)

walkGeminiToolDefinition ==
    This(ObjOr(Skip, Reject))
      \o Unique({"functionDeclarations", "function_declarations", "googleSearch",
                 "codeExecution", "urlContext"})
      \o OneOf("functionDeclarations", "function_declarations", FALSE,
               Arr(Each("walkGeminiFunctionDeclarations")))
      \o Optional("googleSearch", Obj(Run("walkGeminiGoogleSearch")))
      \o Members(<<"codeExecution", "urlContext">>, walkGeminiMarkerTool)

walkGeminiFunctionDeclarations == This(ObjOr(Run("walkGeminiFunctionDeclaration"), Reject))

walkGeminiFunctionDeclaration ==
    Unique({"name", "description", "parameters", "parametersJsonSchema", "response",
            "responseJsonSchema", "behavior"})
      \o RequiredOpaque("name")
      \o Text("description", "system")
      \o OpaqueString("behavior")
      \o OneOf("parameters", "parametersJsonSchema", FALSE, ObjOrNull(Add("system")))
      \o OneOf("response", "responseJsonSchema", FALSE, ObjOrNull(Add("system")))

walkGeminiGoogleSearch ==
    Unique({"searchTypes", "blockingConfidence", "excludeDomains", "timeRangeFilter"})
      \o OpaqueString("blockingConfidence")
      \o Optional("searchTypes", ObjOrNull(Run("searchTypes")))
      \o Optional("excludeDomains", ArrOrNull(Each("opaqueString")))
      \o Optional("timeRangeFilter", ObjOrNull(Run("timeRangeFilter")))

searchTypes ==
    Unique({"webSearch", "imageSearch"})
      \o Members(<<"webSearch", "imageSearch">>, walkGeminiMarkerTool)

timeRangeFilter ==
    Unique({"startTime", "endTime"}) \o OpaqueStrings(<<"startTime", "endTime">>)

walkGeminiMediaFields ==
    OneOf("inlineData", "inline_data", FALSE, Obj(Run("walkGeminiInlineData")))
      \o OneOf("fileData", "file_data", FALSE, Obj(Run("walkGeminiFileData")))

mediaKeys == {"inlineData", "inline_data", "fileData", "file_data"}

markGeminiMediaMIME == OneOf("mimeType", "mime_type", FALSE, Str(Mark))

addGeminiDisplayName == Text("displayName", "same")

walkGeminiInlineData ==
    Unique({"data", "displayName", "mimeType", "mime_type"})
      \o RequiredOpaque("data")
      \o markGeminiMediaMIME
      \o addGeminiDisplayName

walkGeminiFileData ==
    Unique({"displayName", "fileUri", "file_uri", "mimeType", "mime_type"})
      \o OneOf("fileUri", "file_uri", TRUE, Str(Mark))
      \o markGeminiMediaMIME
      \o addGeminiDisplayName

walkGeminiSystem ==
    Unique({"parts", "role", "id", "name"})
      \o OpaqueStrings(<<"role", "id", "name">>)
      \o Required("parts", Arr(Each("walkGeminiSystemPart")))

\* Faulty variant: a signature does not protect the text it signs.
ThoughtOnlyVariant(s) ==
    Optional("thought", Boolean)
      \o If(IsTrue("thought"), Optional("text", Str(Mark)))
      \o If(NotTrue("thought"), Optional("text", Str(Add(s))))

\* Faulty variant: signed text is protected, and then selected all the same.
FallThroughVariant(s) ==
    Optional("thought", Boolean)
      \o If(Has({"thoughtSignature"}), Optional("text", Str(Mark)))
      \o If(IsTrue("thought"), Optional("text", Str(Mark)))
      \o If(NotTrue("thought"), Optional("text", Str(Add(s))))

\* The text of a part.  Signed text, and a thought, must be replayed unchanged.
signedText(s) ==
    Optional("thought", Boolean)
      \o If(Has({"thoughtSignature"}), Optional("text", Str(Mark)))
      \o If(Lacks({"thoughtSignature"}),
            If(IsTrue("thought"), Optional("text", Str(Mark)))
              \o If(NotTrue("thought"), Optional("text", Str(Add(s)))))

walkGeminiSystemPart ==
    This(ObjOr(Skip, Reject))
      \o Unique({"text", "thought", "thoughtSignature", "inlineData", "inline_data",
                 "fileData", "file_data", "id", "name"})
      \o OpaqueStrings(<<"thoughtSignature", "id", "name">>)
      \o signedText("system")
      \o walkGeminiMediaFields
      \o If(Lacks({"text"} \cup mediaKeys), This(Anything(Reject)))

\* A content without a role is the user's.
walkGeminiContent ==
    This(Obj(Skip))
      \o Unique({"role", "parts", "id", "name"})
      \o OpaqueStrings(<<"id", "name">>)
      \o Switch("role", [user |-> SetScope("user"), model |-> SetScope("assistant")],
                RejectRole("unknown"), SetScope("user"))
      \o Required("parts", Arr(Each("walkGeminiPart")))

walkGeminiPartMediaControls ==
    Optional("mediaResolution", ObjOrNull(Run("mediaResolution")))
      \o Optional("videoMetadata", ObjOrNull(Run("videoMetadata")))

mediaResolution ==
    Unique({"level", "numTokens"}) \o OpaqueString("level") \o Optional("numTokens", NumberOrNull)

videoMetadata ==
    Unique({"startOffset", "endOffset", "fps"})
      \o OpaqueStrings(<<"startOffset", "endOffset">>)
      \o Optional("fps", NumberOrNull)

\* Under an unknown role, which has been reported, the text is only marked.
walkGeminiPart ==
    This(ObjOr(Skip, Reject))
      \o Unique({"text", "thought", "thoughtSignature", "functionCall", "functionResponse",
                 "executableCode", "codeExecutionResult", "inlineData", "inline_data",
                 "fileData", "file_data", "mediaResolution", "videoMetadata",
                 "mediaProcessing", "partMetadata", "audioTranscription", "name", "id",
                 "call_id", "mimeType"})
      \o OpaqueString("thoughtSignature")
      \o walkGeminiPartMediaControls
      \o Optional("partMetadata", Obj(Mark))
      \o walkGeminiMediaFields
      \o If(InScope({"unknown"}), Optional("thought", Boolean) \o Optional("text", Str(Mark)))
      \o If(InScope({"user", "assistant", "tool_output"}), signedText("same"))
      \o Optional("functionCall", Obj(Run("functionCall")))
      \o Optional("functionResponse", Obj(Run("functionResponse")))
      \o Optional("executableCode", Obj(Run("executableCode")))
      \o Optional("codeExecutionResult", Obj(Run("codeExecutionResult")))
      \o If(Lacks({"thought", "thoughtSignature", "text", "functionCall", "functionResponse",
                   "executableCode", "codeExecutionResult"} \cup mediaKeys),
            This(Anything(Reject)))

functionCall ==
    Unique({"args", "partialArgs", "name", "id", "call_id", "willContinue"})
      \o OpaqueStrings(<<"name", "id", "call_id">>)
      \o Optional("willContinue", Boolean)
      \o Optional("args", Anything(Add("tool_input")))
      \o Optional("partialArgs", Arr(Each("walkGeminiPartialArgs")))

functionResponse ==
    Unique({"response", "parts", "name", "id", "call_id", "willContinue", "scheduling"})
      \o OpaqueStrings(<<"name", "id", "call_id", "scheduling">>)
      \o Optional("willContinue", Boolean)
      \o Optional("response", Anything(Add("tool_output")))
      \o Optional("parts", Arr(EachAs("walkGeminiPart", "tool_output")))

executableCode ==
    Unique({"code", "language", "id", "name"})
      \o OpaqueStrings(<<"language", "id">>)
      \o Optional("code", Str(Add("same")))

codeExecutionResult ==
    Unique({"output", "outcome", "id", "name"})
      \o OpaqueStrings(<<"outcome", "id">>)
      \o Optional("output", Str(Add("tool_output")))

walkGeminiPartialArgs ==
    This(ObjOr(Skip, Reject))
      \o Unique({"boolValue", "jsonPath", "nullValue", "numberValue", "stringValue",
                 "willContinue"})
      \o OpaqueStrings(<<"jsonPath", "nullValue">>)
      \o Optional("stringValue", Str(Add("tool_input")))

GeminiPrograms ==
    [walkGemini |-> walkGemini,
     walkGeminiToolDefinition |-> walkGeminiToolDefinition,
     walkGeminiFunctionDeclarations |-> walkGeminiFunctionDeclarations,
     walkGeminiFunctionDeclaration |-> walkGeminiFunctionDeclaration,
     walkGeminiGoogleSearch |-> walkGeminiGoogleSearch,
     searchTypes |-> searchTypes,
     timeRangeFilter |-> timeRangeFilter,
     walkGeminiInlineData |-> walkGeminiInlineData,
     walkGeminiFileData |-> walkGeminiFileData,
     walkGeminiSystem |-> walkGeminiSystem,
     walkGeminiSystemPart |-> walkGeminiSystemPart,
     walkGeminiContent |-> walkGeminiContent,
     mediaResolution |-> mediaResolution,
     videoMetadata |-> videoMetadata,
     walkGeminiPart |-> walkGeminiPart,
     functionCall |-> functionCall,
     functionResponse |-> functionResponse,
     executableCode |-> executableCode,
     codeExecutionResult |-> codeExecutionResult,
     walkGeminiPartialArgs |-> walkGeminiPartialArgs]
=============================================================================
