SPECIFICATION Spec
CONSTANTS
    Producers = {p1}
    Consumers = {c1}
    Observers = {o1}
    ProducerCalls = 2
    ConsumerCalls = 1
    ObserverCalls = 1
    Calls <- MCCalls
    BufSize = 2
    Faults = {"sem_wait"}
    NULL = NULL
    InitJob = InitJob
INVARIANTS
    NoCircularWait
CHECK_DEADLOCK FALSE
