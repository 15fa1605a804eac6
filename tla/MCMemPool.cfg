CONSTANTS
    Threads = {t1, t2}
    None = None
    nTenKB = 2
    nInitMaxCount = 1
    MaxMems = 3
    Sizes <- MCSizes
SPECIFICATION Spec
INVARIANTS PoolBoundedByPeak
PROPERTIES ImplementsMemory CallsReturn
CHECK_DEADLOCK FALSE
