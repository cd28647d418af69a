SPECIFICATION Spec
CONSTANTS
    a = a
    b = b
    c = c
    d = d
    Key = {a, b}
    NoKey = NoKey
    Goroutine = {g1}
    subShardsPerShard = 8
    MaxSize = 4
    HashOf <- TwoBuckets
    ExtractLimit = 2
    MaxTime = 1
    MaxFreq = 2
    Task = {"extract"}
INVARIANTS
    NoNilSubShard
