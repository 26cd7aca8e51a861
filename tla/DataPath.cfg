CONSTANTS
    Base = 4
    PeerIP <- MCPeerIP
    PortMax = 65535
    MaxAddresses = 2
    MaxNodes = 3
    Groups <- MCGroups
    ServerHost = "server"
    ValidHosts = {"server", "other"}
    Letter = {"a", "b"}
    Docs <- MCDocs
    TrafficDocs <- MCTrafficDocs
    Hosts <- MCHosts
    Publics <- MCPublics
    Remotes <- MCRemotes
    Ports = {1, 2}
    Rests = {3}
    Bodies = {1, 3}
SPECIFICATION Spec
INVARIANTS ChecksumsCarryOver ErrorsComeHome MatchIsBestRule NodesInOrder
