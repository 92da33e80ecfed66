CONSTANTS
    MaxCrashes = 3
    Window = 2
    StableReset = 1
    RestartDelay = 12000
    MaxWorkers = 3
    MaxTime = 3
SPECIFICATION Spec
INVARIANTS
    RestartsBounded
    TrippedIsDown
PROPERTIES
    DownIsFinal
    StreakEarned
CHECK_DEADLOCK FALSE
