SPECIFICATION Spec
CONSTANTS
    v1 = v1
    v2 = v2
    NULL = NULL
    header = header
    Key <- MCKey
    Value <- MCValue
    MAX_LEVEL = 3
    MallocMayFail = TRUE
    MaxElements = 4
\* The server really stops when it crashes.
CHECK_DEADLOCK FALSE
INVARIANTS
    LevelsSkipToNext
PROPERTY
    Refines
