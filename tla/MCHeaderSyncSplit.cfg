SPECIFICATION FairSpec
CONSTANTS
    g = g
    a1 = a1
    a2 = a2
    a3 = a3
    b2 = b2
    c1 = c1
    c2 = c2
    n1 = n1
    n2 = n2
    None = None
    Block <- SmallBlock
    NoBlock = None
    Parent <- SmallParent
    Height <- SmallHeight
    Branch <- SmallBranch
    FirstTracked = 1
    Node = {n1, n2}
    Backend <- SplitBackend
    FirstChain <- SplitChain
    FirstKnown <- SplitKnown
    BatchStep = 2
    ProgressBatch = 1
    MinerLookupLimit = 2
    MaxEvents = 0
    MaxFaults = 1
PROPERTIES
    GapsClosed
