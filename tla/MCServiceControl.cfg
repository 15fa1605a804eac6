SPECIFICATION Spec
CONSTANTS
    MaxControls = 2
    MaxFailures = 1
INVARIANTS
    StopFindsThread
    StoppedIsTold
    ReinstallKeeps
PROPERTIES
    RemoveEnds
CHECK_DEADLOCK FALSE
