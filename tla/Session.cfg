CONSTANTS
    Dialers = {d1, d2}
    MaxFailures = 2
    MaxAttempts = 2
    MaxHops = 2
    MaxConns = 2
SPECIFICATION FairSpec
CHECK_DEADLOCK FALSE
INVARIANTS TypeOK ClosedIsClean L3CanRestart
PROPERTIES EndedFallsSilent CloseEnds
