CONSTANTS
    RxSize = 1
    TxSize = 0
    IdxMod = 4
    TapCap = 1
    MaxBurst = 2
    EventIdx = TRUE
SPECIFICATION FairSpec
CHECK_DEADLOCK FALSE
INVARIANT
    NoLostInterrupt
PROPERTY
    FrameDelivered
