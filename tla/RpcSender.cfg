SPECIFICATION FairSpec
CONSTANTS
    c1 = c1
    c2 = c2
    r1 = r1
    Callers <- TwoCallers
    Repliers <- OneReplier
    NumSlots = 1
    Shards = 2
    Delay = 0
    TTL = 1
    StartClock = 2
    MaxClock = 3
    MaxVersion = 2
INVARIANTS
    TypeOK
    NoCrossTalk
    ExclusiveUnlessForced
PROPERTIES
    ImplementsCalls
    AbandonedRecycled
CHECK_DEADLOCK FALSE
