SPECIFICATION SqlSpec
CONSTANTS
    MaxStatements = 3
    MaxOpens = 2
INVARIANTS
    InOrderUnlessCrowded
    UndefinedNeedsRace
PROPERTY
    QueueIsEmptied
CHECK_DEADLOCK FALSE
