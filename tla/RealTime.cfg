SPECIFICATION RtSpec
CONSTANTS
    a = a
    b = b
    Clients = {a}
    WINDOW_SIZE = 2
    NACK_SIZE = 2
    Latency = 1
    Estimates = {0, 1}
    StartTime = 1
    DefaultHalf = 1
    Report_Interval = 2
    Stale = {0}
    CliCap = 2
    SrvCap = 1
    MaxSeq = 4
    AppTime = 2
    MaxTime = 4
    MayDuplicate = FALSE
INVARIANT RtTypeOK
INVARIANT RtBufferAgrees
INVARIANT ReportTimerSet
 
INVARIANT LossIsWhatWasSkipped
PROPERTY ImplementsGapStream
CHECK_DEADLOCK FALSE
