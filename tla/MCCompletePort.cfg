SPECIFICATION Spec
CONSTANTS
    MaxThreads = 3
    MaxWait = 2
    o1 = o1
    o2 = o2
    o3 = o3
    EXIT = EXIT
    None = None
    Objects <- MCObjects
    ExitObjects <- MCExitObjects
INVARIANTS
    HangNeedsLaterBatch
PROPERTIES
    ImplementsPort DestroyReturns
CHECK_DEADLOCK FALSE
