SPECIFICATION FairSpec
CONSTANTS
    a = a
    b = b
    Senders = {a}
    WINDOW_SIZE = 2
    NACK_SIZE = 2
    DATA_LEN = 1
    POINTER_SIZE = 1
    RcvCap = 2
    NcpCap = 2
    MayDuplicate = FALSE
    MayFail = {}
    Stack = 0
    NUL <- MCNUL
    Byte <- MCByte
    File <- ByteFile
    DestName <- MCName
    EchoData <- MCEcho
PROPERTY SendersExit
CHECK_DEADLOCK FALSE
