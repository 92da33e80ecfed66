CONSTANTS
    pidA = pidA
    pidB = pidB
    Migrations = 2
    None = None
    Torn = Torn
    Procs <- MCProcs
    MaxStarts <- MCMaxStarts
    MaxCrashes <- MCMaxCrashes
    MaxFaults = 2
SPECIFICATION Spec
INVARIANTS
    AtMostOneHolder
    DamageDetected
    NoWriteAfterRelease
    SchemaComplete
PROPERTIES
    LeaseSpec
CHECK_DEADLOCK FALSE
