SPECIFICATION Spec
CONSTANTS
    n1 = n1
    n2 = n2
    p1 = p1
    p2 = p2
    home = home
    away = away
    Node = {n1, n2}
    FirstHeight = 2
    Page = {p1}
    Depths = {1}
    MaxActions = 2
    MaxFailures = 0
    Network = {home, away}
    Miner <- MCMiner
    Home = home
    MaxTicks = 1
CHECK_DEADLOCK FALSE
INVARIANT MinesSelectedNodes
