SPECIFICATION FairSpec
CONSTANTS
    n1 = n1
    n2 = n2
    n3 = n3
    None = None
    Config <- Three
    Flaky = {n2}
    Weight <- Weights
    Hash = {0, 1, 2, 3}
    Modes = {"shard"}
    FailoverTimeout = 2
    CounterSize = 4
INVARIANT
    KeysStayPut
CHECK_DEADLOCK FALSE
