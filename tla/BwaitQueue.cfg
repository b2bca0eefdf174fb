SPECIFICATION BwaitFairSpec
CONSTANTS
    Pids = {4, 7}
    SBDepth = 1
    Producer = 4
    Consumer = 7
    Mutexes = {"peterson", "lockvar"}
    Jobs = {j1, j2}
    BufSize = 3
    NULL = NULL
    InitJob = InitJob
    Torn = Torn
INVARIANTS
    BwaitTypeOK
    CopiesIntact
    CheckedCallSucceeds
    RingHoldsQueue
    GuardedArrivalWaits
PROPERTIES
    EntersUnlessKilled
    LockReleased
