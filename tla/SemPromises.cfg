SPECIFICATION FairSpec
CONSTANTS
    Producers = {p1, p2}
    Consumers = {c1, c2}
    Observers = {o1}
    ProducerCalls = 2
    ConsumerCalls = 2
    ObserverCalls = 1
    Calls <- MCCalls
    BufSize = 3
    Faults = {}
    NULL = NULL
    InitJob = InitJob
PROPERTIES
    ImplementsSharedFifo
    EveryJobServed
INVARIANTS
    TypeOK
    MutexIsLock
    EnqueueFindsRoom
    DequeueFindsJob
    BlocksOnlyAtBoundary
    NoCircularWait
    ExactlyOnce
