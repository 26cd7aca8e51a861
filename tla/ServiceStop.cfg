CONSTANTS
    Stoppers = {s1}
    Closer = closer
    CfgWG = TRUE
    CfgSOCKS = FALSE
    CmdCap = 1
    EventCap = 1
    MaxCalls = 2
    MaxStops = 2
    MaxFaults = 0
    MaxExpiries = 1
SPECIFICATION Spec
INVARIANTS TypeOK CancelReachesLogin StopLogsOut
