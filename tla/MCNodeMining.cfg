SPECIFICATION Spec
CONSTANTS
    Request = {r1, r2}
    Form <- Forms
    Start <- Starts
    Maturity = 1
    MaxRefill = 3
INVARIANTS
    PaidOnce
    GivesUpForCause
    OneMiner
    ReportedAreMined
PROPERTIES
    WalletLostToAnother
    EveryRequestEnds
CHECK_DEADLOCK FALSE
