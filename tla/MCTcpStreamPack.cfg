SPECIFICATION PackSpec
CONSTANTS
    HeaderLen = 3
    Check = 2
    Streams <- MCStreams
    Sums <- MCSums
    RevLen = 10
    NoFullLen = 20
    MisreadLens <- MCMisreadLens
    MaxList = 4
    MaxPacks = 3
INVARIANTS
    TwoPartsSuffice
    AloneIsReceived
PROPERTIES
    ImplementsStream
    ParseReturns
CHECK_DEADLOCK FALSE
