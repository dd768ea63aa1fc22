SPECIFICATION RtSpec
CONSTANTS
    a = a
    b = b
    Clients = {a, b}
    WINDOW_SIZE = 2
    NACK_SIZE = 2
    Latency = 1
    Estimates = {1}
    StartTime = 1
    DefaultHalf = 1
    Report_Interval = 2
    Stale = {0}
    CliCap = 2
    SrvCap = 1
    MaxSeq = 3
    AppTime = 2
    MaxTime = 3
    MayDuplicate = TRUE
INVARIANT ServesOneClient
PROPERTY ImplementsGapStream
CHECK_DEADLOCK FALSE
