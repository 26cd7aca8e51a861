CONSTANTS
    Clients = {c1, c2}
    MaxConnections = 2
    MaxDials = 1
SPECIFICATION FairSpec
INVARIANT DoneIsClean
PROPERTIES ServerEnds HalfCloseIsKept
