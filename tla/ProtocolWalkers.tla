-------------------------- MODULE ProtocolWalkers --------------------------
(* The protocols of the registry (walker/registry.go) and their walk functions. *)
EXTENDS OpenAIWalker, ClaudeWalker, GeminiWalker, InteractionsWalker, ResponsesWalker

\* The functions of each protocol, those it shares with the others included.
protocolPrograms ==
    [openai |-> OpenAIPrograms @@ CommonPrograms, claude |-> ClaudePrograms @@ CommonPrograms,
     gemini |-> GeminiPrograms @@ CommonPrograms,
     interactions |-> InteractionsPrograms @@ CommonPrograms,
     responses |-> ResponsesPrograms @@ CommonPrograms]

\* NewRegistry
DefaultRegistry ==
    [openai |-> "walkOpenAI", claude |-> "walkClaude", gemini |-> "walkGemini",
     interactions |-> "walkInteractions", responses |-> "walkResponses"]
=============================================================================
