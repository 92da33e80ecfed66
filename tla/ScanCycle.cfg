CONSTANTS
    Sources <- MCSources
    NetworkSources <- MCNetworkSources
    Topology = "topology"
    Rules <- MCRules
    Domain <- MCDomain
    Needed <- MCNeeded
    Guarded <- MCGuarded
    Guardless <- MCGuardless
    Findings <- MCFindings
    RuleOf <- MCRuleOf
    Facts <- MCFacts
    Needs <- MCNeeds
    Excuses <- MCExcuses
    Reads <- MCReads
    SourceOf <- MCSourceOf
    ReadOf <- MCReadOf
    Fatal <- MCFatal
    Reports <- MCReports
    Yielding = {"sockets"}
    Critical = {"telnet"}
    All = "all"
    Kinds <- MCKinds
    Ledgers <- MCLedgers
    MaxScans = 2
    MaxChanges = 1
SPECIFICATION FairSpec
INVARIANTS
    TruthAtExit
PROPERTIES
    VerdictsFollowPayloads
    LedgerLifecycle
    FullScanEnds
CHECK_DEADLOCK FALSE
