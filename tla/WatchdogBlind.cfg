SPECIFICATION FairGroupSpec
CONSTANTS
    p = p
    s = s
    Parts = {"watchdog"}
    Actors = {1, 2, 3}
    ActorOrder <- MCOrder
    Servers = {1, 3}
    EngineOrder <- MCEngines
    Registrars = {1, 2, 3}
    Requests <- MCRequests
    MsgIds = {"m", "n"}
    Finders = {1, 2}
    Pool = {1, 2, 3}
    MaxFinds = 3
    Watched = {p, s}
    PlainActors = {p}
    Threshold = 2
    Interval = 2
    Cooldown = 5
    Late = 1
    MaxRestarts = 0
    Window = 6
    BackoffCap = 3
    MaxOversleep = 1
INVARIANTS
    EveryBlockedSeen
CHECK_DEADLOCK FALSE
