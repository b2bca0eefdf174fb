SPECIFICATION Spec
CONSTANTS
    Pids = {4, 7}
    SBDepth = 0
INVARIANTS
    MutualExclusion
