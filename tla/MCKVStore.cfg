SPECIFICATION Spec
CONSTANTS
    NULL = NULL
    MAX_TOKENS = 3
    CLINET_MSG_LENGTH = 10
    Rude <- MCRude
    MaxJoined = 5
    N10w = 2
\* The test program ends, and the process may.
CHECK_DEADLOCK FALSE
INVARIANT
    AllPass
PROPERTIES
    TestIsHarmless
    TestEnds
