SPECIFICATION Spec
CONSTANTS
    a = a
    b = b
    c = c
    d = d
    Key = {a, b}
    NoKey = NoKey
    Goroutine = {g1, g2}
    subShardsPerShard = 2
    MaxSize = 0
    HashOf <- TwoBuckets
    ExtractLimit = 2
    MaxTime = 1
    MaxFreq = 2
    Task = {"cleanup", "swap", "extract"}
PROPERTIES
    OnlyDeadEntriesCollected
