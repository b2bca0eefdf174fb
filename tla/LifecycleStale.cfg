SPECIFICATION Spec
CONSTANTS
    InitProc = init
    Others = {p1}
    Capacity = 2
    MaxCalls = 1
    MaxRuns = 2
    MayHappen = {"leftovers"}
INVARIANT
    TokensMatch
CHECK_DEADLOCK FALSE
