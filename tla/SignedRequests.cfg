CONSTANTS
    r1 = r1
    r2 = r2
    t1 = t1
    t2 = t2
    Requests <- MCRequests
    Threads <- MCThreads
    Window = 4
    TTL = 8
    Second = 2
    MaxAhead = 5
    MaxStall = 1
    None = None
    MaxTime = 10
SPECIFICATION Spec
SYMMETRY MCSymmetry
INVARIANTS
    AtMostOnce
    ReplayIsReal
CHECK_DEADLOCK FALSE
