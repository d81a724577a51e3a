\* One sub reactor, threads scheduled fairly; epoll_wait's timeout is only
\* counted on where a property says so.
SPECIFICATION FairSpec
CONSTANTS
    NSub = 1
    Clients = {c1, c2}
    Fds = {f1}
    None = None
    NoFd = NoFd
    MaxConnections = 2
    MaxSignals = 2
INVARIANTS
    HandlersAreJoined
PROPERTIES
    HandedOffIsAttached
    WaitingIsAccepted
    PromptStop
    StopTerminates
