SPECIFICATION Spec
CONSTANTS
    Client <- MCClients3
    ClientFd <- MCFds
    ListenFd = 5
    StackJunk <- MCJunk
    MaxOutstanding <- MCOneAhead
    SendBuffer = 1
\* An aborted or killed process takes no step.
CHECK_DEADLOCK FALSE
INVARIANTS
    EventsHaveWaiter
    NoLostCoroutine
    OwnOpenDescriptor
    PoliteClientsDoNotKill
PROPERTY
    RequestsReceived
