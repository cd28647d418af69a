SPECIFICATION QuietResizeSpec
CONSTANTS
    k1 = k1
    k2 = k2
    k3 = k3
    g1 = g1
    g2 = g2
    Goroutine = {g1, g2}
    Key = {k1, k2, k3}
    Value = {v1}
    None = None
    HashOf <- Hashes
    Calls <- Readers
    ShardCounts = {1, 2}
    FirstCount = 2
    FirstNames = {"incremental"}
    SwapNames = {"incremental", "noop"}
    batchSize = 1
    MaxTables = 2
    MaxSwaps = 1
INVARIANTS
    CompletedOnce
    PanicsOnlyAfterClose
PROPERTIES
    MigrationKeepsEntries
CHECK_DEADLOCK FALSE
