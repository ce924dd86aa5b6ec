CONSTANTS
    Cpus = {c1, c2}
    Heads = {h1, h2}
    MaxRequests = 3
SPECIFICATION FairSpec
CHECK_DEADLOCK FALSE
INVARIANTS
    NoLostKick
    NoLostInterrupt
    InOrder
    ChainOwnership
PROPERTIES
    ServiceSpec
    Served
