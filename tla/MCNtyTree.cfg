SPECIFICATION Spec
CONSTANTS
    NULL = NULL
    Keys = 10
    Elem <- MCElem
    KeyOf <- MCKeyOf
VIEW WithoutRet
INVARIANTS
    RedBlackTree
    QueriesRight
PROPERTY
    Refines
