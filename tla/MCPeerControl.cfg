SPECIFICATION Spec
CONSTANTS
    a = a  b = b  x = x  s1 = s1  s2 = s2
    Node <- MCNode
    Outside = {x}
    Slot <- MCSlot
    Host <- MCHost
    Port <- MCPort
    Configured = {a}
    Setups <- MCSetups
    MaxSockets = 2
    None = None
INVARIANTS MatchesTrue EntriesCleared OnlyThatLink
PROPERTY DisconnectReported
SYMMETRY Symmetry
