SPECIFICATION FairSpec
CONSTANTS
    MaxTurns = 1
    MaxRuns = 1
    MaxUnits = 2
    MaxBlocks = 2
    Kinds = {"text", "tool"}
    MaxDrops = 1
    MaxFaults = 1
    MaxOutages = 1
    MaxInFlight = 1
    StoreSurvives = FALSE
CHECK_DEADLOCK FALSE
INVARIANTS
    TypeOK
    ShownIsProduced
    OutcomeIsStored
PROPERTIES
    HistoryPrevails
