SPECIFICATION Spec
CONSTANTS
    Threads = {t1, t2}
    RequestIDs = {r1, r2, r3}
    NoRequestID = NoRequestID
    Contexts = {c1, c2}
    NoContext = NoContext
    TTL = 2
    MaxEntries = 2
    MaxClock = 3
    MaxStates = 3
SYMMETRY Symmetry
INVARIANTS ListMatchesMap StateBelongsToOneRequest
PROPERTIES NoExpiredReuse ImplementsStore
