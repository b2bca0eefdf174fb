SPECIFICATION Spec
CONSTANTS
    InitProc = init
    Others = {p1}
    Capacity = 1
    MaxCalls = 1
    MaxRuns = 1
    MayHappen = {"sem_wait"}
INVARIANT
    MutexIsBinary
