SPECIFICATION Spec
CONSTANTS
    m1 = m1
    m2 = m2
    Network = {m1, m2}
    Capacity = 1
    StreamLimit = 1
    MaxVersion = 3
    MaxFailures = 1
    MaxSwitches = 1
CHECK_DEADLOCK FALSE
INVARIANTS
    NoLostUpdate
PROPERTIES
    UpdateShown
    ViewRefined
