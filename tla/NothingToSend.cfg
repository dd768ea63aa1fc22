SPECIFICATION LinkSpec
CONSTANTS
    Kinds = {"intrusion"}
    MAX_WINDOW = 2
    Minimum_Window = 1
    TCP_Fairness = TRUE
    Fast_Retransmit = TRUE
    MAX_BUFF_LINK = 1
    RESUME_BUFF_LINK = 1
    Messages <- ThreeAndOne
    NetCap <- TwoOne
    MayDuplicate = TRUE
    MAX_HISTORY = 3
    MAX_BUCKET = 3
    RT_RETRANSM_TOK = 2
    MaxNacks = 3
    RtPackets = 5
    RtNetCap = 2
    RtDuplicate = FALSE
    MAX_SEND_ON_LINK = 2
    Msg_Per_SAA = 2
    Configurations <- Shipped
    FragmentsOf <- TwoLast
    MaxRestarts = 0
    ItNetCap <- TwoOne
    ItDuplicate = FALSE
INVARIANT TimerOffMeansNothingToSend
CHECK_DEADLOCK FALSE
