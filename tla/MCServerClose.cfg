SPECIFICATION MCSpec
CONSTANTS
    c1 = c1
    c2 = c2
    Conn = {c1, c2}
    Limits = {0}
    MaxReqs = 2
    MaxForeign = 1
    None = None
    p1 = p1
    Peer = {p1}
PROPERTY
    CloseReturns
CHECK_DEADLOCK FALSE
