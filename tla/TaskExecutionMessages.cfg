SPECIFICATION Spec
CONSTANTS
    Threads = {x1, x2}
    States = {s1, s2, s3}
    Entries = FALSE
    Overlap = {"send"}
    MaxTurns = 3
    MaxOutages = 0
    NoState = NoState
SYMMETRY Symmetry
CHECK_DEADLOCK FALSE
INVARIANTS
    MonotoneMessages
