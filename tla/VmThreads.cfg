CONSTANTS
    Cpus = {c1, c2}
    MaxResets = 2
SPECIFICATION FairSpec
CHECK_DEADLOCK FALSE
INVARIANTS
    OneBackend
    ActivatedMeansReady
    TapReleased
    AllOrNothing
    IoNeverStuck
PROPERTIES
    KicksReachHandler
    IoAdvances
    FollowsLifecycle
    Answered
    KickHandled
