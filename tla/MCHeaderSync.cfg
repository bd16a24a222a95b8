SPECIFICATION Spec
CONSTANTS
    g = g
    a1 = a1
    a2 = a2
    a3 = a3
    b2 = b2
    c1 = c1
    c2 = c2
    n1 = n1
    n2 = n2
    None = None
    Block <- MCBlock
    NoBlock = None
    Parent <- MCParent
    Height <- MCHeight
    Branch <- MCBranch
    FirstTracked = 1
    Node = {n1, n2}
    Backend <- SafetyBackend
    FirstChain <- SafetyChain
    FirstKnown <- SafetyKnown
    BatchStep = 2
    ProgressBatch = 2
    MinerLookupLimit = 2
    MaxEvents = 1
    MaxFaults = 1
INVARIANTS
    TypeOK
    EdgesComplete
    UnsavedAccounted
    QueuedInTree
    CleanFetchComplete
    Handover
PROPERTIES
    StoreRefined
