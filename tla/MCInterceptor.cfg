SPECIFICATION Spec
CONSTANTS
    Threads = {t1, t2}
    RequestIDs = {r1}
    NoRequestID = NoRequestID
    Values <- MCValues
    Kinds <- MCKinds
    KindOf <- MCKindOf
    Labels <- MCLabels
    Credential <- MCCredential
    Inputs <- TwoTexts
    Policies <- Strict
    MaxStates = 2
SYMMETRY Symmetry
CHECK_DEADLOCK FALSE
INVARIANTS NothingSensitiveForwarded ConsistentPlaceholders ProducedIsTrusted OnlyProducedIsTrusted
PROPERTIES PlaceholdersStable
