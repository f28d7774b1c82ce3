SPECIFICATION Spec
CONSTANTS
    a = a
    b = b
    NULL = NULL
    Co <- MCCo
    Fd <- MCFd
    Used <- MCUsed
    Msecs <- MCMsecs
    Msec = 1
    Renice = 2
    MaxNow = 1
\* The scheduler ends when no coroutine is left, and the process may fail.
CHECK_DEADLOCK FALSE
INVARIANTS
    NoLostCoroutine
    EventsHaveWaiter
    ReadyCanRun
    NotAlreadyWaiting
    SafeWithoutSleep
PROPERTIES
    TimersAreOwn
    ReadyIsResumed
    DueIsResumed
