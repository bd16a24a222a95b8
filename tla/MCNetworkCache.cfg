SPECIFICATION Spec
CONSTANTS
    a = a
    b = b
    n1 = n1
    n2 = n2
    None = None
    Node = {n1, n2}
    Block = {a, b}
    NoBlock = None
    Height <- MCHeight
    Holds <- MCHolds
    Names <- MCNames
    Interesting = {a}
    RecentLimit = 1
    MaxPolls = 2
    MaxFaults = 1
CHECK_DEADLOCK FALSE
INVARIANTS
    TypeOK
    CachedFromTree
    HeadersServed
    MinersReplayed
    MinersSaved
    MetricsServed
    AnnouncedWhenQuiet
