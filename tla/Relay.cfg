CONSTANTS
    Endpoints = {e1, e2}
    QueueSize = 1
    MaxInstalls = 2
    MaxPackets = 2
SPECIFICATION FairSpec
INVARIANTS TypeOK BindingIsSafe OpenLatchMeansHandshake
PROPERTY LatchOpens
