SPECIFICATION CallsSpec
CONSTANTS
    Sides = {"reply"}
    c1 = c1
    c2 = c2
    Callers <- TwoCallers
    Threshold = 2
    Cooldown = 1
    Known = FALSE
    Fanouts <- TwoCallers
    OnPool <- OnlySecond
    Specs = {1, 2}
    Workers = 2
    Remote = {}
    MaxSends = 0
    MayPanic = TRUE
    MayClose = TRUE
    a = a
    b = b
    Servers <- TwoServers
    MaxCalls = 2
    MayLose = FALSE
INVARIANT
    FailureTold
CHECK_DEADLOCK FALSE
