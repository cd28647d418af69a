SPECIFICATION Spec
CONSTANTS
    Server = {n1, n2, n3}
    Nil = Nil
    Command = {c1, c2}
    MaxBatch = 2
    ProposeCap = 1
    MaxElections = 2
    MaxLog = 2
    MaxAppendRPC = 6
    MaxHeartbeatRPC = 0
SYMMETRY Symmetry
INVARIANTS StateMachineSafety
CHECK_DEADLOCK FALSE
