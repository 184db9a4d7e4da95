---------------------------- MODULE CommonWalker ----------------------------
(* The blocks the protocol walkers share (walker/common.go). *)
EXTENDS WalkerSteps

opaqueString == This(Str(Mark))

validateRootControls == Unique({"model"}) \o OpaqueString("model")

\* The scope of a message by its role.
scopeForRole ==
       "system" :> SetScope("system") @@ "developer" :> SetScope("system")
    @@ "user" :> SetScope("user")
    @@ "assistant" :> SetScope("assistant") @@ "model" :> SetScope("assistant")
    @@ "tool" :> SetScope("tool_output") @@ "function" :> SetScope("tool_output")

walkTypedTextContent ==
    This([string |-> Add("same"), null |-> Skip, array |-> Each("walkTypedTextBlock")])

textBlockTypes == {"text", "input_text", "output_text", "summary_text"}

commonOpaqueContentFields ==
    LET stored == <<"file", "file_id", "file_data", "filename", "url">>
        sound == <<"audio", "data", "format", "id">>
    IN [image        |-> <<"image_url", "url", "file_id", "detail", "data", "mime_type", "mimeType">>,
        input_image  |-> <<"image_url", "url", "file_id", "detail">>,
        output_image |-> <<"image_url", "url", "file_id", "data", "mime_type", "mimeType">>,
        image_url    |-> <<"image_url", "url", "detail">>,
        input_audio  |-> <<"input_audio", "audio", "data", "format">>,
        output_audio |-> sound, audio |-> sound,
        video        |-> <<"video", "data", "url", "file_id", "mime_type", "mimeType">>,
        file |-> stored, input_file |-> stored, output_file |-> stored]

commonOpaqueNestedContentFields ==
    [image_url   |-> <<"url", "file_id", "detail">>,
     input_audio |-> <<"data", "format">>,
     audio       |-> <<"data", "format", "id", "url", "file_id">>,
     video       |-> <<"data", "url", "file_id", "mime_type", "mimeType">>,
     file        |-> <<"file_id", "file_data", "filename", "url">>]

NestedPrograms ==
    LET program(key) == "nested " \o key
        keys == DOMAIN commonOpaqueNestedContentFields
        steps(key) == LET fields == commonOpaqueNestedContentFields[key]
                      IN Unique({fields[i] : i \in DOMAIN fields}) \o OpaqueStrings(fields)
    IN [p \in {program(key) : key \in keys} |->
            steps(CHOOSE key \in keys : program(key) = p)]

walkCommonOpaqueContentFields(fields) ==
    Concat([i \in DOMAIN fields |->
        Optional(fields[i],
                 IF fields[i] \in DOMAIN commonOpaqueNestedContentFields
                 THEN StrOrNull(Mark) @@ Obj(Run("nested " \o fields[i]))
                 ELSE StrOrNull(Mark))])

walkTypedTextBlock ==
    This(ObjOr(Skip, Reject))
      \o Unique({"type", "text", "refusal", "id", "name", "call_id", "signature",
                 "prompt_cache_breakpoint", "cache_control"})
      \o OpaqueStrings(<<"id", "name", "call_id", "signature">>)
      \o Optional("prompt_cache_breakpoint", ObjOrNull(Run("walkCommonCacheBreakpoint")))
      \o Optional("cache_control", ObjOrNull(Run("walkAnthropicCacheControl")))
      \o Switch("type",
                [t \in textBlockTypes |-> Run("typedText")]
                  @@ [refusal |-> Run("typedRefusal")]
                  @@ [t \in DOMAIN commonOpaqueContentFields |-> Run("typed " \o t)],
                Reject, Reject)

\* Faulty variant: the text of a block is protected instead of selected.
OpaqueTextVariant == RequiredOpaque("text")

typedText == RequiredText("text", "same")
typedRefusal == RequiredText("refusal", "same")

TypedPrograms ==
    LET types == DOMAIN commonOpaqueContentFields
    IN [p \in {"typed " \o t : t \in types} |->
            walkCommonOpaqueContentFields(
                commonOpaqueContentFields[CHOOSE t \in types : "typed " \o t = p])]

walkCommonCacheBreakpoint == Unique({"mode"}) \o RequiredOpaque("mode")

walkAnthropicCacheControl ==
    Unique({"type", "ttl"}) \o RequiredOpaque("type") \o OpaqueString("ttl")

CommonPrograms ==
    [opaqueString |-> opaqueString,
     validateRootControls |-> validateRootControls,
     walkTypedTextContent |-> walkTypedTextContent,
     walkTypedTextBlock |-> walkTypedTextBlock,
     typedText |-> typedText,
     typedRefusal |-> typedRefusal,
     walkCommonCacheBreakpoint |-> walkCommonCacheBreakpoint,
     walkAnthropicCacheControl |-> walkAnthropicCacheControl]
      @@ NestedPrograms @@ TypedPrograms
=============================================================================
