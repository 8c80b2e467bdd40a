SPECIFICATION Spec
CONSTANTS
    Threads = {x1, x2}
    States = {s1, s2, s3}
    Entries = TRUE
    Overlap = {}
    MaxTurns = 2
    MaxOutages = 2
    NoState = NoState
SYMMETRY Symmetry
CHECK_DEADLOCK FALSE
INVARIANTS
    TypeOK
    OneGeneration
    CancelReachable
    CancelHonoured
    MonotoneMessages
    EventIsDurable
PROPERTIES
    HistorySpec
