SPECIFICATION Spec
CONSTANTS
    USEC = 4
    RECORD_SIZE = 3
    Offsets <- MCOffsets
    RoundTrips = {1, 10}
    MaxSamples = 6
INVARIANT MeanWhileFilling
PROPERTY MovesWithTheRecord
CHECK_DEADLOCK FALSE
