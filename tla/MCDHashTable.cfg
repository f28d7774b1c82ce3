SPECIFICATION Spec
CONSTANTS
    k1 = k1
    k2 = k2
    k3 = k3
    v1 = v1
    v2 = v2
    NULL = NULL
    Key <- MCKey
    Value <- MCValue
    TABLE_SIZE = 2
    hash_function <- MCHash
    MallocMayFail = TRUE
    MaxNodes = 3
    MaxLeaked = 1
\* The server really stops when it crashes.
CHECK_DEADLOCK FALSE
INVARIANT
    TypeOK
PROPERTIES
    OnlyFailedSetLeaks
    Refines
