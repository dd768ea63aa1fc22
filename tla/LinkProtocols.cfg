SPECIFICATION LinkSpec
CONSTANTS
    Kinds = {"reliable", "realtime", "intrusion"}
    MAX_WINDOW = 2
    Minimum_Window = 1
    TCP_Fairness = FALSE
    Fast_Retransmit = TRUE
    MAX_BUFF_LINK = 1
    RESUME_BUFF_LINK = 1
    Messages <- ThreeAndOne
    NetCap <- TwoOne
    MayDuplicate = TRUE
    MAX_HISTORY = 3
    MAX_BUCKET = 3
    RT_RETRANSM_TOK = 2
    MaxNacks = 3
    RtPackets = 5
    RtNetCap = 2
    RtDuplicate = FALSE
    MAX_SEND_ON_LINK = 2
    Msg_Per_SAA = 2
    Configurations <- BothConfs
    FragmentsOf <- TwoThenOne
    MaxRestarts = 1
    ItNetCap <- TwoOne
    ItDuplicate = FALSE
INVARIANT SendWindowHolds
INVARIANT ReceiveWindowHolds
INVARIANT BlockedMeansFull
INVARIANT HistoryHolds
INVARIANT MarksTell
INVARIANT ItWindowHolds
INVARIANT AcksProve
INVARIANT ItDeliversInOrder
INVARIANT KeyExchangeGoesOn
PROPERTY ImplementsChannel
CHECK_DEADLOCK FALSE
