SPECIFICATION Spec
CONSTANTS
    Keys <- MCKeys
    KeyBytes <- MCKeyBytes
    Normalized <- MCNormalized
    NoKey = "no key"
    Texts <- MCTexts
    Controls <- MCControls
    NewValues <- MCNewValues
    MaxRequests = 2
    InitialCapacity = 1
    retainedPathNodeBytes = 2
    retainedStringTokenBytes = 1
    MaxContextAncestors = 1
    MaxBodyBytes = 15
    MaxDepth = 4
    MaxNodes = 4
    MaxStructuralBytes = 13
    MaxStringBytes = 2
    MaxReplacements = 2
    MaxReplacementBytes = 7
CHECK_DEADLOCK FALSE
INVARIANTS IndexIsFaithful RetainedIsCharged ReplaceIsExact
