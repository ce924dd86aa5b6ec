CONSTANTS
    RxSize = 1
    TxSize = 2
    IdxMod = 3
    EventIdx = FALSE
SPECIFICATION FairSpec
CHECK_DEADLOCK FALSE
INVARIANTS
    NoLostInterrupt
    NoLostKick
    OnlyEarlyBuffersLost
PROPERTY
    Served
