SPECIFICATION FairSpec
CONSTANTS
    k1 = k1
    k2 = k2
    k3 = k3
    g1 = g1
    g2 = g2
    Goroutine = {g1}
    Key = {k1, k2, k3}
    Value = {v1, v2}
    None = None
    HashOf <- Hashes
    Calls <- Alone
    ShardCounts = {1, 2}
    FirstCount = 2
    FirstNames = {"incremental", "batch"}
    SwapNames = {}
    batchSize = 1
    MaxTables = 3
    MaxSwaps = 0
PROPERTIES
    ImplementsKVMap
    MigrationEnds
