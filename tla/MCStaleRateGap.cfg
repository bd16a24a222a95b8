SPECIFICATION Spec
CONSTANTS
    g = g
    a1 = a1
    a2 = a2
    b2 = b2
    c1 = c1
    c2 = c2
    n1 = n1
    n2 = n2
    None = None
    Block <- MCBlock
    NoBlock = None
    Parent <- MCParent
    Height <- MCHeight
    Branch <- MCBranch
    FirstTracked = 0
    Node = {n1, n2}
    StaleTipNode = {n1}
    Configured <- MCConfigured
    IncludeAllTime = TRUE
    MaxForks = 1
    VisibleHeights = 1
    ExtraHotspots = 2
INVARIANTS
    NotUnderstated
