SPECIFICATION FairSpec
CONSTANTS
    Sample <- Samples
    Capacity = 3
    ChanSize = 2
    Snapshot <- Snapshots
    KeyCount = {2, 9}
    Work = {0, 2}
    MinLoad = 1
    TargetLoadPerShard = 2
    MinShards = 2
    MaxShards = 3
    FirstShards = 1
    MaxResizes = 2
INVARIANTS
    RecentIsHistory
    ProgressHonest
PROPERTIES
    MigrateConfirmed
    ExecuteReturns
CHECK_DEADLOCK FALSE
