SPECIFICATION Spec
CONSTANTS
    Texts <- MCTexts
    Shapes <- MCShapes
    TargetContexts <- MCTargetContexts
    KeyContexts <- MCKeyContexts
    FieldKeys = {"x", "y", "z", "password", "ak"}
    NoKey = "none"
    CredentialKeys = {"password", "ak"}
    AncestorKeys = {"password"}
    MaxContextAncestors = 2
    maxEncodedJSONNesting = 1
    MaxTargets = 2
    Walked <- MCWalked
    Policies <- MCPolicies
    MaxJSONNodes = 8
    MaxStructuralBytes = 6
    MaxTextNodes = 3
    MaxTextBytes = 4
    MaxFindings = 3
INVARIANTS NothingExposed AuditObserves NamesSurviveNesting WorkIsBounded
