SPECIFICATION Spec
CONSTANTS
    k1 = k1
    k2 = k2
    k3 = k3
    k4 = k4
    v1 = v1
    v2 = v2
    NULL = NULL
    Key <- MCKey
    Value <- MCValue
    LongKey <- NoKey
    MAX_TABLE_SIZE = 2
    Hash <- MCHash
    MallocMayFail = TRUE
\* The server really stops when it blocks on its own mutex or crashes.
CHECK_DEADLOCK FALSE
INVARIANT
    EveryCommandReturns
