CONSTANTS
    RxSize = 1
    TxSize = 0
    IdxMod = 2
    EventIdx = FALSE
    PtyCap = 2
    BufCap = 2
    SocketCap = 0
SPECIFICATION FairSpec
CHECK_DEADLOCK FALSE
PROPERTY
    InputDelivered
