CONSTANTS
    Protocols = {"openai", "claude", "gemini", "interactions", "responses"}
    ProgramsOf <- protocolPrograms
    entries <- DefaultRegistry
    Bounds <- MCBounds
    MaxNodes = 14
    MaxBefore = 4
    Strings <- MCStrings
SPECIFICATION Spec
INVARIANTS
    CollectorTypeOK
    EveryStringDisposed
    NoInternalError
    UnknownRefused
    TextInspected
    IntegrityPreserved
    ToolDataScoped
PROPERTY
    NothingForgotten
CHECK_DEADLOCK FALSE
