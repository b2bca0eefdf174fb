SPECIFICATION Spec
CONSTANTS
    Producers = {p1}
    Consumers = {c1}
    Observers = {}
    ProducerCalls = 2
    ConsumerCalls = 2
    ObserverCalls = 1
    Calls <- MCCalls
    BufSize = 2
    Faults = {"null_job"}
    NULL = NULL
    InitJob = InitJob
INVARIANTS
    DequeueFindsJob
CHECK_DEADLOCK FALSE
