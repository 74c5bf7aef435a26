SPECIFICATION CacheFairSpec
CONSTANTS
    a1 = a1
    a2 = a2
    cfg1 = cfg1
    r1 = r1
    r2 = r2
    Actors <- TwoActors
    Local <- OneLocal
    Configs <- OneConfig
    Absent = Absent
    Readers <- TwoReaders
    Cap = 1
    MaxEvents = 2
INVARIANTS
    LookupFresh
    RoutesConverge
PROPERTIES
    LookupsEnd
