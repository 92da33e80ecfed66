CONSTANTS
    pidA = pidA
    pidB = pidB
    Migrations = 2
    None = None
    Torn = Torn
    Procs <- MCProcs
    MaxStarts <- MCMaxStartsBoth
    MaxCrashes <- MCMaxCrashes
    MaxFaults = 0
SPECIFICATION Spec
INVARIANT UncleanDetected
CHECK_DEADLOCK FALSE
