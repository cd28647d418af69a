SPECIFICATION Spec
CONSTANTS
    a = a
    b = b
    c = c
    d = d
    Key = {a, b, c, d}
    NoKey = NoKey
    Goroutine = {g1}
    subShardsPerShard = 2
    MaxSize = 2
    HashOf <- OneBucket
    ExtractLimit = 1
    MaxTime = 1
    MaxFreq = 3
    Task = {"cleanup", "swap", "extract"}
SYMMETRY Symmetry
INVARIANTS
    PolicyTracksEntries
PROPERTIES
    CapacityRestored
    EvictsLeastFrequent
CHECK_DEADLOCK FALSE
