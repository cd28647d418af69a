SPECIFICATION FairSpec
CONSTANTS
    c1 = c1
    c2 = c2
    n1 = n1
    Caller = {c1, c2}
    Conn = {n1}
    Chan = {1, 2, 3}
    Buf = {1, 2, 3}
    MaxStream = 2
    MaxBatch = 2
    Kinds <- OneOfEach
    Faults = {"drop", "close", "timeout"}
INVARIANTS
    ChannelsOwned
    StrayOnlyAfterGivingUp
PROPERTIES
    CallReturns
CHECK_DEADLOCK FALSE
