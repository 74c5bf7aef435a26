SPECIFICATION Spec
CONSTANTS
    c1 = c1
    v1 = v1
    f = f
    r1 = r1
    r2 = r2
    r3 = r3
    None = None
    Callers = {c1}
    VMs = {v1}
    Reloaders = {1}
    Kinds = {"js"}
    MaxUses = 2
    MaxVersion = 2
    TimedVersion = 1
    MaxLoads = 1
    Callbacks = {1, 2}
    Actors = {1, 2}
    Loaders = {1, 2}
    Paths = {1, 2}
    Functions = {f}
    Contexts = {1, 2}
    Defines <- MCDefines
    Timeouts <- MCTimeouts
    Durations = {1, 2}
    Nobody = Nobody
    Scalars <- MCScalars
    Items <- MCItems
    Keys = {"k", "l"}
    MaxInt64 = 9
    MaxOps = 2
    Recorders = {r1, r2, r3}
INVARIANT
    OwnTimeoutOnly
CHECK_DEADLOCK FALSE
