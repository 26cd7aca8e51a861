CONSTANTS
    Stoppers = {s1}
    Closer = closer
    CfgWG = TRUE
    CfgSOCKS = TRUE
    CmdCap = 1
    EventCap = 1
    MaxCalls = 1
    MaxStops = 1
    MaxFaults = 0
    MaxExpiries = 1
SPECIFICATION Spec
INVARIANT StopPendingHasStop

