SPECIFICATION Spec
CONSTANTS
    Server = {n1, n2, n3}
    Nil = Nil
    Command = {c1}
    MaxBatch = 2
    ProposeCap = 1
    MaxElections = 2
    MaxLog = 2
    MaxAppendRPC = 4
    MaxHeartbeatRPC = 0
SYMMETRY Symmetry
INVARIANTS TypeOK LogMatching AppliedOnceInOrder
CHECK_DEADLOCK FALSE
