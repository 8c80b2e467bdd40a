SPECIFICATION FairSpec
CONSTANTS
    Docs = {d1}
    Workers = {w1}
    Deleters = {r1}
    Ids = {i1, i2}
    t1 = t1
    t2 = t2
    c1 = c1
    c2 = c2
    Texts = {t1}
    Configs = {c1}
    Shards = {s1}
    ShardOf <- MCShardOf
    Size <- MCSize
    MaxGen = 2
    MaxOutages = 1
    StoreFaults = TRUE
    NoId = NoId
    NoText = NoText
    Free = Free
PROPERTIES
    EventuallySettled
    DeleteAnswered
