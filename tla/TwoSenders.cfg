SPECIFICATION HistorySpec
CONSTANTS
    a = a
    b = b
    Senders = {a, b}
    WINDOW_SIZE = 2
    NACK_SIZE = 2
    DATA_LEN = 1
    POINTER_SIZE = 1
    RcvCap = 2
    NcpCap = 1
    MayDuplicate = FALSE
    MayFail <- NameOfB
    Stack = 7
    NUL <- MCNUL
    Byte <- MCByte
    File <- TinyFile
    DestName <- TwoNames
    EchoData <- EchoResidue
INVARIANT FullPacketsNeverMix
PROPERTY OpensTheNamedFile
CHECK_DEADLOCK FALSE
