SPECIFICATION Spec
CONSTANTS
    v1 = v1
    v2 = v2
    NULL = NULL
    nil = nil
    EmptyValue = EmptyValue
    Key <- FewKeys
    Value <- TwoValues
    MallocMayFail = TRUE
INVARIANT
    CountExact
PROPERTY
    Refines
