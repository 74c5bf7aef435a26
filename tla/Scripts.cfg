SPECIFICATION FairSpec
CONSTANTS
    c1 = c1
    v1 = v1
    f = f
    r1 = r1
    r2 = r2
    r3 = r3
    None = None
    Callers = {c1}
    VMs = {v1}
    Reloaders = {1, 2}
    Kinds <- AllKinds
    MaxUses = 1
    MaxVersion = 2
    TimedVersion = 1
    MaxLoads = 2
    Callbacks = {1}
    Actors = {1, 2}
    Loaders = {1, 2}
    Paths = {1, 2}
    Functions = {f}
    Contexts = {1, 2}
    Defines <- MCDefines
    Timeouts <- MCTimeouts
    Durations = {1, 2}
    Nobody = Nobody
    Scalars <- MCScalars
    Items <- MCItems
    Keys = {"k", "l"}
    MaxInt64 = 9
    MaxOps = 2
    Recorders = {r1, r2, r3}
INVARIANTS
    ReloadsTakeEffect
    CallRecordsExact
    ValuesExact
PROPERTIES
    LoadsKept
    EveryCallEnds
CHECK_DEADLOCK FALSE
