SPECIFICATION FairSpec
CONSTANTS
    Threads = {x1, x2}
    States = {s1, s2}
    Entries = FALSE
    Overlap = {"send"}
    MaxTurns = 2
    MaxOutages = 0
    NoState = NoState
CHECK_DEADLOCK FALSE
PROPERTIES
    OutcomeIsFinal
    EventuallySettled
