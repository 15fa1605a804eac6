SPECIFICATION Spec
CONSTANTS
    Workers = {w1, w2}
    Contexts = {x1, x2, x3}
    IOs = {i1, i2, i3, i4}
    AcceptCount = 1
    SocketPool = 0
    SocketHold = 1
    IOPool = 1
    IOHold = 2
    MaxConns = 2
    Budgets <- MCBudgets
INVARIANTS
    OneIOOwner
    AcceptsKept
    NoMixUp
    LeftCameLate
PROPERTIES
    PeerCloseNoticed
    StopEnds
CHECK_DEADLOCK FALSE
