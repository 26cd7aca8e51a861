CONSTANTS
    Stoppers = {s1}
    Closer = closer
    CfgWG = TRUE
    CfgSOCKS = TRUE
    CmdCap = 1
    EventCap = 1
    MaxCalls = 1
    MaxStops = 1
    MaxFaults = 1
    MaxExpiries = 0
SPECIFICATION FairSpec
PROPERTIES ActorGoesOn EndedSessionIsDropped
