SPECIFICATION Spec
CONSTANTS
    Producers = {p1}
    Consumers = {c1, c2}
    Observers = {o1}
    ProducerCalls = 3
    ConsumerCalls = 2
    ObserverCalls = 1
    Calls <- MCCalls
    BufSize = 3
    Faults = {"sem_wait", "null_job", "alloc"}
    NULL = NULL
    InitJob = InitJob
SYMMETRY Symmetry
INVARIANTS
    MutexIsLock
    TokenBound
    EmptyBudget
    HeadStaysQueued
PROPERTIES
    ImplementsSharedFifo
CHECK_DEADLOCK FALSE
