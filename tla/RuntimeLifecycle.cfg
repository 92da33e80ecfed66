CONSTANTS
    platform = platform
    storage = storage
    main = main
    signal = signal
    host = host
    Comps <- MCComps
    Critical <- MCCritical
    Blocking <- MCBlocking
    Starters <- MCStarters
    Stoppers <- MCStoppers
    MaxCalls <- MCMaxCalls
SPECIFICATION FairSpec
INVARIANTS
    ReportedDown
    TeardownReleases
PROPERTIES
    NeverRevived
    ShutdownReturns
    WaiterWoken
CHECK_DEADLOCK FALSE
