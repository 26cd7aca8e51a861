CONSTANTS
    Stoppers = {s1}
    Closer = closer
    CfgWG = TRUE
    CfgSOCKS = TRUE
    CmdCap = 1
    EventCap = 2
    MaxCalls = 2
    MaxStops = 0
    MaxFaults = 2
    MaxExpiries = 0
SPECIFICATION Spec
INVARIANT NothingIsLeftBehind
PROPERTIES LogoutAfterTasks OneLoginAtATime NoIllegalTransition ReportsMatchTheirTask
