CONSTANTS
    r1 = r1
    r2 = r2
    r3 = r3
    Requests <- MCRequests
    Offers <- MCOffers
SPECIFICATION FairApiSpec
INVARIANTS
    SingleFlight
    PassIsEarned
    NoReadAfterClose
    StoppedIsQuiet
PROPERTIES
    FlagComesBack
CHECK_DEADLOCK FALSE
