SPECIFICATION FairDiscoverySpec
CONSTANTS
    Halves = {"lease", "cache"}
    k1 = k1
    k2 = k2
    Keys <- TwoKeys
    Changing <- OneKey
    MaxLeases = 3
    MayExpire = TRUE
    MayFail = TRUE
    Own = {2}
    Ids = {1, 2}
    Configs = {1}
    MaxOps = 3
    MaxBreaks = 1
    ChCap = 1
    Pollers = {1, 2}
INVARIANTS
    OneKeeper
    CacheFollows
PROPERTIES
    RegistryFollows
    FindersStable
    CloseEndsAll
CHECK_DEADLOCK FALSE
