SPECIFICATION Spec
CONSTANTS
    Jobs = {j1, j2, j3}
    BufSize = 4
    NULL = NULL
    InitJob = InitJob
INVARIANTS
    TypeOK
    FreeSlotsInitialised
PROPERTIES
    ImplementsFifo
