SPECIFICATION Spec
CONSTANTS
    Docs = {d1, d2}
    Workers = {w1}
    Deleters = {r1}
    Ids = {i1, i2, i3}
    t1 = t1
    t2 = t2
    c1 = c1
    c2 = c2
    Texts = {t1}
    Configs = {c1, c2}
    Shards = {s1}
    ShardOf <- MCShardOf
    Size <- MCSize
    MaxGen = 2
    MaxOutages = 0
    StoreFaults = FALSE
    NoId = NoId
    NoText = NoText
    Free = Free
SYMMETRY IdSymmetry
INVARIANTS
    ClosedCollectionIsEmpty
    NoLeftovers
