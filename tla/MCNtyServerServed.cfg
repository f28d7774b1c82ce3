SPECIFICATION Spec
CONSTANTS
    Client <- MCClients2
    ClientFd <- MCFds
    ListenFd = 5
    StackJunk <- MCJunk
    MaxOutstanding <- MCPolite
    SendBuffer = 1
\* An aborted or killed process takes no step.
CHECK_DEADLOCK FALSE
PROPERTY
    EveryClientServed
