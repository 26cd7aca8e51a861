CONSTANTS
    MaxDaemons = 1
    MaxFaults = 1
    k1 = k1
    k2 = k2
    Clients = {k1, k2}
    Plans <- MCPlans
    MaxConnections = 1
    MaxConns = 2
SPECIFICATION FairSpec
INVARIANT TypeOK
PROPERTY QuitEnds
