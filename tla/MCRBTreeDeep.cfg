SPECIFICATION ChangingSpec
CONSTANTS
    v1 = v1
    v2 = v2
    NULL = NULL
    nil = nil
    EmptyValue = EmptyValue
    Key <- ManyKeys
    Value <- OneValue
    MallocMayFail = TRUE
VIEW WithoutReply
INVARIANTS
    SearchTree
    RedBlack
    FixupInvariant
PROPERTY
    FixupClimbs
