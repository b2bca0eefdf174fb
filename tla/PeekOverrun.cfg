SPECIFICATION BwaitSpec
CONSTANTS
    Pids = {4, 7}
    SBDepth = 0
    Producer = 4
    Consumer = 7
    Mutexes = {"peterson"}
    Jobs = {j1}
    BufSize = 3
    NULL = NULL
    InitJob = InitJob
    Torn = Torn
INVARIANTS
    PeekStaysInBuffer
