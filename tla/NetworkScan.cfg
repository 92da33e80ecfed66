SPECIFICATION Spec
CONSTANTS
    None = None
    Width = 3
    Addresses <- MCAddresses
    Class <- MCClass
    Names <- MCNames
    LooksVirtual = {"lo"}
    Adapters = {"a", "b", "lo"}
    Loopback = "lo"
    IfIndex <- MCIfIndex
    Nameless = {"b"}
    Hosts <- MCHosts
    Nets <- MCNets
    Gateway <- MCGateway
    MaxChanges = 1
INVARIANTS
    OffSubnetIsReal
    GraphAgreesWithFindings
    MultiHomedAgrees
    OrderDoesNotMatter
CHECK_DEADLOCK FALSE
