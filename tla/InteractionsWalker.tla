------------------------- MODULE InteractionsWalker -------------------------
(* The walker of Gemini interactions (walker/interactions.go). *)
EXTENDS CommonWalker

interactionsRootControlFields ==
    <<"model", "agent", "agent_config", "background", "environment", "labels",
      "previous_interaction_id", "previous_response_id", "response_format",
      "response_mime_type", "response_modalities", "safety_settings", "service_tier", "store",
      "stream", "generation_config", "generationConfig", "webhook_config", "tool_choice",
      "ToolChoice", "parallel_tool_calls", "seed", "user", "metadata", "include",
      "truncation", "reasoning", "environment_id">>

walkInteractions ==
    Unique({"system_instruction", "systemInstruction", "input", "steps", "tools"})
      \o MarkFields(interactionsRootControlFields)
      \o OneOf("system_instruction", "systemInstruction", FALSE,
               Anything(RunAs("walkInteractionsSystem", "system")))
      \o Optional("input", Anything(RunAs("walkInteractionsInput", "user")))
      \o Optional("steps", Arr(EachAs("walkInteractionItem", "user")))
      \o Optional("tools", Arr(Each("walkInteractionsToolDefinition")))

walkInteractionsToolDefinition ==
    This(ObjOr(Skip, Reject))
      \o Unique({"type", "name", "description", "parameters", "strict", "defer_loading"})
      \o Switch("type", [function |-> Skip], Reject, InvalidShape)
      \o RequiredOpaque("name")
      \o Text("description", "system")
      \o Required("parameters", Obj(Add("system")))

walkInteractionsSystem == This([string |-> Add("system"), object |-> Run("systemObject")])

systemObject ==
    Unique({"text", "parts", "content", "role", "type", "id", "name", "signature"})
      \o OpaqueStrings(<<"role", "type", "id", "name", "signature">>)
      \o Optional("text", Str(Add("system")))
      \o Lookup("parts", FALSE, Anything(Run("walkInteractionsParts")), {"text"})
      \o If(Lacks({"text", "parts"}),
            Optional("content", Anything(Run("walkInteractionsNaturalContent"))))
      \o If(Lacks({"text", "parts", "content"}), This(Anything(Reject)))

walkInteractionsInput ==
    This([string |-> Add("same"), array |-> Each("walkInteractionItem"),
          object |-> Run("walkInteractionItem")])

\* Nested steps take the scope of the item that holds them.
walkInteractionSteps(s) == Optional("steps", Arr(EachAs("walkInteractionItem", s)))

interactionRoleScope ==
    Switch("role", scopeForRole, RejectRole("unknown"), Skip)

walkInteractionToolOutput == Anything(Add("tool_output"))

reasoningItem ==
    Call("walkInteractionsOpaqueReasoningFields")
      \o This(Anything(RunAs("walkInteractionNaturalFields", "assistant")))

knownRole == {"system", "user", "assistant", "tool_output"}

walkInteractionItem ==
    This([string |-> Add("same")] @@ ObjOr(Skip, Reject))
      \o Unique({"type", "role", "steps", "content", "parts", "text", "summary", "arguments",
                 "result", "output", "thought", "thinking", "redacted_thinking", "signature",
                 "thoughtSignature", "thought_signature", "id", "name", "call_id",
                 "tool_use_id", "model"})
      \o OpaqueStrings(<<"signature", "thoughtSignature", "thought_signature", "id", "name",
                         "call_id", "tool_use_id", "model">>)
      \o interactionRoleScope
      \o Optional("steps", Arr(Skip))
      \o Switch("type",
                [user_input |-> Run("userInput"), model_output |-> Run("modelOutput"),
                 thought |-> Run("reasoningItem"), reasoning |-> Run("reasoningItem"),
                 function_call |-> Run("functionCallItem"),
                 function_result |-> Run("functionResultItem"),
                 function_call_output |-> Run("functionOutputItem"),
                 custom_tool_call_output |-> Run("functionOutputItem"),
                 text |-> Run("textItem"), input_text |-> Run("textItem"),
                 output_text |-> Run("outputTextItem")]
                  @@ [t \in {"image", "audio", "video", "document", "file", "computer_call",
                             "web_search_call", "file_search_call", "image_generation_call"}
                        |-> Reject],
                Reject, Run("untypedItem"))

untypedItem ==
    If(InScope(knownRole), walkInteractionSteps("same"))
      \o Call("walkInteractionNaturalFields")
      \o If(Lacks({"content", "parts", "text", "summary", "steps"}), This(Anything(Reject)))

userInput ==
    If(InScope(knownRole),
       walkInteractionSteps("user")
         \o This(Anything(RunAs("walkInteractionNaturalFields", "user"))))

modelOutput ==
    Call("walkInteractionsOpaqueReasoningFields")
      \o If(InScope(knownRole),
            walkInteractionSteps("assistant")
              \o This(Anything(RunAs("walkInteractionNaturalFields", "assistant"))))

functionCallItem == Optional("arguments", [null |-> Skip] @@ Anything(Add("tool_input")))
functionResultItem == Optional("result", [null |-> Skip] @@ walkInteractionToolOutput)
functionOutputItem == Optional("output", [null |-> Skip] @@ walkInteractionToolOutput)

textItem == If(InScope(knownRole), RequiredText("text", "same"))
outputTextItem == If(InScope(knownRole), RequiredText("text", "assistant"))

walkInteractionsOpaqueReasoningFields ==
    Members(<<"thought", "thinking", "redacted_thinking">>,
            StrOrNull(Mark) @@ Boolean @@ Anything(Reject))

\* Under an unknown role, which has been reported, only the shape of text counts.
walkInteractionNaturalFields ==
    LET text == [unknown |-> Skip, known |-> Add("same")]
        content == [unknown |-> Skip, known |-> Run("walkInteractionsNaturalContent")]
        parts == [unknown |-> Skip, known |-> Run("walkInteractionsParts")]
        fields(r) == Optional("content", Anything(content[r]))
                       \o Optional("parts", Anything(parts[r]))
                       \o Optional("text", Str(text[r]))
                       \o Optional("summary", Anything(content[r]))
    IN If(InScope({"unknown"}), fields("unknown")) \o If(InScope(knownRole), fields("known"))

walkInteractionsNaturalContent ==
    This([string |-> Add("same"), object |-> Run("walkInteractionsPart"),
          array |-> Each("walkInteractionsPart"), null |-> Skip])

walkInteractionsParts == This(Arr(Each("walkInteractionsPart")))

walkInteractionsPart ==
    This([string |-> Add("same")] @@ ObjOr(Skip, Reject))
      \o Unique({"type", "text", "content", "summary", "thought", "thinking", "signature",
                 "thoughtSignature", "thought_signature", "id", "name", "call_id", "data",
                 "url", "file_uri", "fileUri", "file_id", "file_data", "filename",
                 "image_url", "mime_type", "mimeType", "annotations"})
      \o OpaqueStrings(<<"signature", "thoughtSignature", "thought_signature", "id", "call_id">>)
      \o Switch("type",
                [t \in {"text", "input_text", "output_text"} |-> Run("textPart")]
                  @@ [t \in {"thought", "reasoning"} |-> Run("reasoningPart")]
                  @@ [t \in {"image", "audio", "video", "document", "file", "input_image",
                             "output_image", "input_audio"} |-> Run("mediaPart")],
                Reject, Run("untypedPart"))

untypedPart ==
    Optional("text", Str(Add("same"))) \o If(Lacks({"text"}), This(Anything(Reject)))

textPart ==
    OpaqueString("name")
      \o Optional("annotations", ArrOrNull(RejectNonEmpty))
      \o RequiredText("text", "same")

reasoningPart ==
    Call("walkInteractionsOpaqueReasoningFields")
      \o Members(<<"text", "content", "summary">>,
                 Anything(RunAs("walkInteractionsNaturalContent", "assistant")))

mediaPart ==
    walkCommonOpaqueContentFields(
        <<"data", "url", "file_uri", "fileUri", "file_id", "file_data", "filename", "image_url",
          "mime_type", "mimeType">>)

InteractionsPrograms ==
    [walkInteractions |-> walkInteractions,
     walkInteractionsToolDefinition |-> walkInteractionsToolDefinition,
     walkInteractionsSystem |-> walkInteractionsSystem,
     systemObject |-> systemObject,
     walkInteractionsInput |-> walkInteractionsInput,
     reasoningItem |-> reasoningItem,
     walkInteractionItem |-> walkInteractionItem,
     untypedItem |-> untypedItem,
     userInput |-> userInput,
     modelOutput |-> modelOutput,
     functionCallItem |-> functionCallItem,
     functionResultItem |-> functionResultItem,
     functionOutputItem |-> functionOutputItem,
     textItem |-> textItem,
     outputTextItem |-> outputTextItem,
     walkInteractionsOpaqueReasoningFields |-> walkInteractionsOpaqueReasoningFields,
     walkInteractionNaturalFields |-> walkInteractionNaturalFields,
     walkInteractionsNaturalContent |-> walkInteractionsNaturalContent,
     walkInteractionsParts |-> walkInteractionsParts,
     walkInteractionsPart |-> walkInteractionsPart,
     untypedPart |-> untypedPart,
     textPart |-> textPart,
     reasoningPart |-> reasoningPart,
     mediaPart |-> mediaPart]
=============================================================================
