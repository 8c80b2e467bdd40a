SPECIFICATION Spec
CONSTANTS
    CallIds = {k1, k2}
    Budget = 15
    ResultReserve = 4
    Slack = 1
    PromptSize = 2
    CallSize = 1
    NoticeSize = 1
    Pieces <- MCPieces
    Arguments <- MCArguments
    Results <- MCResults
    OwnLength = 2
    ReasoningLength = 1
    MaxString = 5
    MaxDepth = 4
    MaxJson = 20
    MaxSources = 1
    HomeSizes = {0, 3}
    Histories <- MCHistories
    MaxRounds = 2
    MaxCalls = 2
    MaxDeltas = 1
    Documents = {1, 2, 3, 4}
    Changing = {1}
    CollectionOf <- MCCollectionOf
    OwnerOf <- MCOwnerOf
    Caller = 7
    ChunkIndexes = {1, 2}
    TextSize <- MCTextSize
    ChunkSize <- MCChunkSize
    EmptySize = 1
    Questions <- MCQuestions
    Scorings <- MCScorings
    MaxResults = 2
    MaxIndexGen = 2
    MaxRenames = 1
    Files = {root, note}
    Root = root
    Texts = {t0, t1}
    InitialText = t0
    Browsers = {b1}
    AgentTools = {a1}
    LockShards = {s1}
    LockShardOf <- MCLockShardOf
    MaxRequests = 2
    Missing = Missing
    Nobody = Nobody
    AgentRows = {11, 12}
    WorkspaceRows = {21}
    CollectionRows = {31, 32}
    DocumentRows = {41, 42, 43}
    TaskRows = {61}
    DraftRows = {51}
    NameRows = {90}
    Existing = {11, 21, 31, 32, 41, 42}
    OwnerIdOf <- MCOwnerIdOf
    HeldIn <- MCHeldIn
    FirstConfigs <- MCFirstConfigs
    Transactions = {1, 2, 3}
    ResourceRequests <- MCResourceRequests
    Calls = {c1, c2}
    MaxLifespans = 2
    MaxFaults = 2
    Processes = {p1, p2}
    Seeds = {w1, a2}
    NoProcess = NoProcess
    MaxStarts = 2
CHECK_DEADLOCK FALSE
INVARIANTS
    RetrieverErrorIsFault
