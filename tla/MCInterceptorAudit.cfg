SPECIFICATION Spec
CONSTANTS
    Threads = {t1}
    RequestIDs = {r1}
    NoRequestID = NoRequestID
    Values <- MCValues
    Kinds <- MCKinds
    KindOf <- MCKindOf
    Labels <- MCLabels
    Credential <- MCCredential
    Inputs <- OneText
    Policies <- Audited
    MaxStates = 1
CHECK_DEADLOCK FALSE
INVARIANTS LoggedMeansSubstituted
