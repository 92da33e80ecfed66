CONSTANTS
    p1 = p1
    p2 = p2
    s1 = s1
    s2 = s2
    NoPayload = NoPayload
    Free = Free
    Sweeper = Sweeper
    Payloads <- MCPayloads
    Senders <- MCSenders
    BatchLimit = 2
    MaxRetries = 2
    MaxRows = 2
    MaxAccepted = 2
    MaxCrashes = 1
SYMMETRY Symmetry
SPECIFICATION Spec
INVARIANTS
    RetriesBounded
PROPERTIES
    SettledStays
    FlightKeepsItsTime
    DeliverySpec
CHECK_DEADLOCK FALSE
