SPECIFICATION Spec
CONSTANTS
    k1 = k1
    k2 = k2
    k3 = k3
    k4 = k4
    v1 = v1
    v2 = v2
    NULL = NULL
    Key <- MCKey
    Value <- MCValue
    KVS_ARRAY_ITEM_SIZE = 3
    MallocMayFail = TRUE
INVARIANTS
    TypeOK
    ItemsWellFormed
    CountExact
    SetInBounds
    NoLeak
PROPERTY
    Refines
