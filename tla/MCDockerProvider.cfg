CONSTANTS
    Letters = {"a"}
    Marker <- MCMarker
    Timeout = 3
    Settle = 1
    Chunks <- MCChunks
    MaxWrites = 2
    MaxFaults = 1

SPECIFICATION LiveSpec

INVARIANTS
    VerdictIsTrue
    CapacityCovers

PROPERTIES
    WaitReadyReturns

CHECK_DEADLOCK FALSE
