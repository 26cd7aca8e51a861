CONSTANTS
    Keys = {k1, k2}
    Fragments = {f1}
    Sizes = {1, 2}
    MaxPerFlow = 2
    MaxPackets = 2
    MaxBytes = 3
    MaxFlows = 2
    MaxFragments = 1
    AuthTimeout = 2
    RetryDelay = 1
    IdleTTL = 1
    FragmentTTL = 1
    AuthBatch = 1
    MaxIDs = 2
    MaxOffset = 2
SYMMETRY KeySymmetry
SPECIFICATION Spec
INVARIANTS BooksBalance IndexesAgree WaitIsBounded
PROPERTY AnswerIsFinal
