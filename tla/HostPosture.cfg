SPECIFICATION PostureSpec
CONSTANTS
    Sockets <- MCSockets
    Wildcard = {"0.0.0.0", "::"}
    Plaintext = {80}
    Databases = {5432}
    Services = {"print", "update"}
    Unquoted = {"print"}
    Hosts <- MCHosts
    Scopes <- MCScopes
    Ledgers = {"NONE", "OPEN", "SUPPRESSED"}
    Unsized = Unsized
    MaxScans = 2
    MaxChanges = 2
INVARIANTS
    LedgerTellsTheHost
PROPERTIES
    NoFalseAlarm
CHECK_DEADLOCK FALSE
