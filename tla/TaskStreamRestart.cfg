SPECIFICATION FairSpec
CONSTANTS
    MaxTurns = 1
    MaxRuns = 1
    MaxUnits = 1
    MaxBlocks = 1
    Kinds = {"text"}
    MaxDrops = 0
    MaxFaults = 0
    MaxOutages = 1
    MaxInFlight = 2
    StoreSurvives = TRUE
CHECK_DEADLOCK FALSE
PROPERTIES
    HistoryPrevails
