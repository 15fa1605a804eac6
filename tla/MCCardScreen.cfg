SPECIFICATION Spec
CONSTANTS
    Cards = {c1, c2}
    None = None
    Times = 1
    MaxPosts = 2
    MaxSessions = 2
    MaxDialogs = 2
    MaxDeeds = 3
INVARIANTS
    WorksOnOpenDatabase
    CalmLeaveIsSafe
PROPERTIES
    PostIsAnswered
    RecyclesTheShownCard
    BackEndsScreen
CHECK_DEADLOCK FALSE
