SPECIFICATION Spec
CONSTANTS
    Handles = {h1, h2, h3}
    None = None
    MaxCounts = 3
INVARIANTS
    SharedIsAlive
    DeletedOnce
CHECK_DEADLOCK FALSE
