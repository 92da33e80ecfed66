CONSTANTS
    Keys = {k1, k2, k3, k4}
    NoKey = NoKey
SPECIFICATION Spec
INVARIANTS
    SupersededIsInactive
    OneActiveKey
    ReportedKeys
PROPERTIES
    CustodySpec
    RevokedForGood
CHECK_DEADLOCK FALSE
