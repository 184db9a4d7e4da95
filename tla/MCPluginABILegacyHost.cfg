SPECIFICATION Spec
CONSTANTS
    Threads = {t1}
    RequestIDs = {r1}
    NoRequestID = NoRequestID
    Configs <- BothConfigs
    HostSchema = 1
    Slots = 1
    MaxPlugins = 2
    MaxRuntimes = 1
INVARIANTS OpenLogsAreOwned
