SPECIFICATION Spec
CONSTANTS
    k1 = k1
    k2 = k2
    k3 = k3
    g1 = g1
    g2 = g2
    Goroutine = {g1, g2}
    Key = {k1, k2}
    Value = {v1, v2}
    None = None
    HashOf <- Hashes
    Calls <- WriterAndResizer
    ShardCounts = {1, 2}
    FirstCount = 2
    FirstNames = {"incremental"}
    SwapNames = {}
    batchSize = 1
    MaxTables = 2
    MaxSwaps = 0
INVARIANTS
    AckedWritesVisible
