SPECIFICATION Spec
CONSTANTS
    NameSize = 3
    PAD = PAD
    NULL = NULL
    Procs = {init, p1}
    InitProc = init
    Ids = {1, 100000}
    LongIds = {100000}
    Labels <- MCLabels
    MaxEntries <- MCMaxEntries
    MayHappen = {"memory", "name", "open", "seek", "fprintf", "fgets", "disk_full", "mkdir", "remove"}
    NEWLINE = NEWLINE
    a = a
    b = b
    c = c
    DIGIT = DIGIT
    TORN = TORN
INVARIANTS
    TypeOK
    EntriesReadBack
    CopyIsEqual
