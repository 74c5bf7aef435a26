SPECIFICATION FairDeliverySpec
CONSTANTS
    m1 = m1
    a1 = a1
    a2 = a2
    t1 = t1
    tType = tType
    r1 = r1
    r2 = r2
    r3 = r3
    Legs = {"route", "bus", "mailbox"}
    None = None
    Msgs <- OneMsg
    MaxBatch = 2
    MaxRuns = 2
    MaxUpdates = 1
    MayPanic = TRUE
    BusActors <- TwoActors
    TopicsOf <- TopicLists
    NoSub = NoSub
    Published <- SharedTopic
    Asked <- OneOrTwo
    MaxRetries = 2
    MaxSent = 2
    Remotes <- ThreeRemotes
    Keys <- TwoKeys
    MaxPicks = 4
INVARIANTS
    RefsExact
    TicksCoalesce
    BusDelivers
PROPERTIES
    ShutdownDrains
    PicksRight
    EventuallyReleased
    CallbackRuns
    ConnectEnds
CHECK_DEADLOCK FALSE
