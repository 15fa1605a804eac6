SPECIFICATION Spec
CONSTANTS
    Overhead = 4
    HeadLen = 2
    MAX_BUFFER = 12
    Sendable <- MCSendable
    JunkLens <- MCJunkLens
    MaxFrames = 3
    MaxConns = 2
PROPERTIES
    ImplementsFrames
CHECK_DEADLOCK FALSE
