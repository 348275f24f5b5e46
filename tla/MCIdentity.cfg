SPECIFICATION Spec
CONSTANTS
    Process = {p1, p2, p3}
    Key = {k1, k2, k3}
    NoFile = NoFile
    Empty = Empty
INVARIANTS
    SettledForGood
    UnreadableExplained
PROPERTIES
    ImplementsWriteOnce
    SomeoneReturns
CHECK_DEADLOCK FALSE
