SPECIFICATION Spec
CONSTANTS
    Threads = {t1, t2}
    RequestIDs = {r1}
    NoRequestID = NoRequestID
    Configs <- OnlyBlocking
    HostSchema = 2
    Slots = 1
    MaxPlugins = 2
    MaxRuntimes = 2
SYMMETRY Symmetry
INVARIANTS TypeOK CountersExact QuiescedMeansDrained
    RetainedIsReleasable ShutdownReleasesState OpenLogsAreOwned ForwardOnlyInspected
