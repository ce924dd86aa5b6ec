CONSTANTS
    RxSize = 1
    TxSize = 1
    IdxMod = 2
    TapCap = 1
    MaxBurst = 2
    EventIdx = FALSE
SPECIFICATION Spec
CHECK_DEADLOCK FALSE
INVARIANTS
    NoStalledFrame
    NoLostKick
    NoLostInterrupt
    RingOrder
PROPERTY
    FrameServiceSpec
