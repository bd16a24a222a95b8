SPECIFICATION Spec
CONSTANTS
    n1 = n1
    n2 = n2
    p1 = p1
    p2 = p2
    home = home
    away = away
    Node = {n1, n2}
    FirstHeight = 2
    Page = {p1, p2}
    Depths = {1}
    MaxActions = 2
    MaxFailures = 1
    Network = {home, away}
    Miner <- MCMinerApart
    Home = home
    MaxTicks = 2
CHECK_DEADLOCK FALSE
INVARIANTS
    WorkflowTypeOK
    ReorgHappens
    MinedInPrivate
    MarksOwned
    OneLoop
PROPERTIES
    NodeComesBack
