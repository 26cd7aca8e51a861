CONSTANTS
    MaxDaemons = 2
    MaxFaults = 1
    k1 = k1
    k2 = k2
    Clients = {k1, k2}
    Plans <- MCPlans
    MaxConnections = 2
    MaxConns = 2
SPECIFICATION Spec
INVARIANTS EndpointTellsTheTruth ExecutedIsAnswered
PROPERTIES OneLoginPerAccount IdentityIsStable
