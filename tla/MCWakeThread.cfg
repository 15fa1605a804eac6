SPECIFICATION Spec
CONSTANTS
    Posters = {p1, p2}
    o1 = o1
    o2 = o2
    o3 = o3
    o4 = o4
    None = None
    Operates <- MCOperates
    Child <- MCChild
INVARIANTS
    NoLostWakeup
PROPERTIES
    ExitReturns
    ImplementsQueue
