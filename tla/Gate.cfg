SPECIFICATION Spec
CONSTANTS
    s1 = s1
    s2 = s2
    a1 = a1
    a2 = a2
    a3 = a3
    None = None
    Reqs <- TwoReqs
    Views <- ThreeViews
    Batch = 2
    RingSize = 2
INVARIANTS
    MeasuresExact
PROPERTIES
    FallbackComplete
CHECK_DEADLOCK FALSE
