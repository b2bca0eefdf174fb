SPECIFICATION Spec
CONSTANTS
    InitProc = init
    Others = {p1, p2}
    Capacity = 1
    MaxCalls = 1
    MaxRuns = 2
    MayHappen = {"slow_init", "early_delete", "leftovers", "crash", "sem_wait", "call_wait", "null_job", "sem_open", "shm"}
SYMMETRY Symmetry
CONSTRAINT FewDisturbances
INVARIANTS
    TypeOK
    HandlesAgree
    OneInside
    MutexKept
    TokensAgree
    NewIsComplete
