SPECIFICATION FairSpec
CONSTANTS
    Threads = {t1, t2}
    RequestIDs = {r1}
    NoRequestID = NoRequestID
    Configs <- OnlyPassthrough
    HostSchema = 1
    Slots = 1
    MaxPlugins = 1
    MaxRuntimes = 1
PROPERTIES CallsReturn LifecycleReturns
