SPECIFICATION RtFairSpec
CONSTANTS
    a = a
    b = b
    Clients = {a}
    WINDOW_SIZE = 2
    NACK_SIZE = 2
    Latency = 1
    Estimates = {0, 1}
    StartTime = 1
    DefaultHalf = 1
    Report_Interval = 1
    Stale = {0}
    CliCap = 1
    SrvCap = 1
    MaxSeq = 3
    AppTime = 2
    MaxTime = 5
    MayDuplicate = FALSE
PROPERTY BufferedIsDelivered
CHECK_DEADLOCK FALSE
