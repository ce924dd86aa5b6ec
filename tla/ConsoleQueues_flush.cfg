CONSTANTS
    RxSize = 0
    TxSize = 1
    IdxMod = 2
    EventIdx = FALSE
    PtyCap = 0
    BufCap = 0
    SocketCap = 1
SPECIFICATION FairSpec
CHECK_DEADLOCK FALSE
PROPERTY
    Flushed
