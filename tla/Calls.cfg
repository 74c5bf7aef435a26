SPECIFICATION FairCallsSpec
CONSTANTS
    Sides = {"breaker", "fanout", "reply"}
    c1 = c1
    c2 = c2
    Callers <- TwoCallers
    Threshold = 2
    Cooldown = 1
    Known = FALSE
    Fanouts <- TwoCallers
    OnPool <- OnlySecond
    Specs = {1, 2}
    Remote = {2}
    MaxSends = 1
    Workers = 2
    MayPanic = TRUE
    MayClose = TRUE
    a = a
    b = b
    Servers <- TwoServers
    MaxCalls = 2
    MayLose = TRUE
INVARIANTS
    OpenEarned
    ResultsComplete
    AnsweredByTarget
PROPERTIES
    HalfOpenResolved
    CallsReturn
CHECK_DEADLOCK FALSE
