CONSTANTS
    Nodes = 3
    MaxProbes = 2
    MissLimit = 3
SPECIFICATION FairSpec
INVARIANTS NothingLeaks HandoverIsClean
PROPERTIES DeathIsTimely EveryCallReturns
