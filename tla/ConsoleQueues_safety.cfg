CONSTANTS
    RxSize = 1
    TxSize = 1
    IdxMod = 2
    EventIdx = FALSE
    PtyCap = 2
    BufCap = 2
    SocketCap = 1
SPECIFICATION Spec
CHECK_DEADLOCK FALSE
INVARIANTS
    NoStalledPty
    NoStalledInput
    NoLostKick
    NoLostInterrupt
    RingOrder
PROPERTY
    ConsoleServiceSpec
