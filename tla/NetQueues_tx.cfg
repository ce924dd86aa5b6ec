CONSTANTS
    RxSize = 0
    TxSize = 2
    IdxMod = 4
    TapCap = 0
    MaxBurst = 0
    EventIdx = TRUE
SPECIFICATION FairSpec
CHECK_DEADLOCK FALSE
PROPERTY
    Transmitted
