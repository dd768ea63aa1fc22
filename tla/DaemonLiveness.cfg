SPECIFICATION FairLinkSpec
CONSTANTS
    Kinds = {"reliable", "intrusion"}
    MAX_WINDOW = 2
    Minimum_Window = 1
    TCP_Fairness = TRUE
    Fast_Retransmit = TRUE
    MAX_BUFF_LINK = 1
    RESUME_BUFF_LINK = 1
    Messages <- ThreeOneWay
    NetCap <- TwoOne
    MayDuplicate = FALSE
    MAX_HISTORY = 3
    MAX_BUCKET = 3
    RT_RETRANSM_TOK = 2
    MaxNacks = 3
    RtPackets = 5
    RtNetCap = 2
    RtDuplicate = FALSE
    MAX_SEND_ON_LINK = 2
    Msg_Per_SAA = 2
    Configurations <- OpenWindow
    FragmentsOf <- TwoOnes
    MaxRestarts = 0
    ItNetCap <- OneEach
    ItDuplicate = FALSE
PROPERTY MessagesArrive
PROPERTY SentIsAcked
CHECK_DEADLOCK FALSE
