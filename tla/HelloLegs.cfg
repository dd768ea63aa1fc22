SPECIFICATION LegSpec
CONSTANTS
    Places = {0}
    DEAD_LINK_CNT = 2
    CONNECT_LINK_CNT = 3
    hello_cnt_start = 1
    WireCap <- OneTwo
    MaxFaults = 1
INVARIANT EventsFindTheirLink
INVARIANT ConnectedMeansLive
PROPERTY SeveredForCause
CHECK_DEADLOCK FALSE
