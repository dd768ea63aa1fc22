SPECIFICATION Spec
CONSTANTS
    a = a
    b = b
    Senders = {a}
    WINDOW_SIZE = 3
    NACK_SIZE = 3
    DATA_LEN = 2
    POINTER_SIZE = 1
    RcvCap = 2
    NcpCap = 2
    MayDuplicate = TRUE
    MayFail = {}
    Stack = 0
    NUL <- MCNUL
    Byte <- MCByte
    File <- LongFile
    DestName <- MCName
    EchoData <- MCEcho
INVARIANT TypeOK
INVARIANT WindowsAgree
INVARIANT NeverTooFarAhead
INVARIANT ResendsWhatIsAsked
INVARIANT BufferAgrees
INVARIANT FullPacketsIntact
PROPERTY FinishSparesAllButLast
PROPERTY ImplementsWindow
CHECK_DEADLOCK FALSE
