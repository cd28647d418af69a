SPECIFICATION Spec
CONSTANTS
    Server = {n1, n2, n3}
    Nil = Nil
    Command = {c1}
    MaxBatch = 2
    ProposeCap = 1
    MaxElections = 3
    MaxLog = 0
    MaxAppendRPC = 2
    MaxHeartbeatRPC = 2
SYMMETRY Symmetry
INVARIANTS ElectionSafety ElectionInv TimersArmed
CHECK_DEADLOCK FALSE
