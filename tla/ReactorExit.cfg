\* A second signal while main() is on its way out.
SPECIFICATION Spec
CONSTANTS
    NSub = 1
    Clients = {c1}
    Fds = {f1}
    None = None
    NoFd = NoFd
    MaxConnections = 1
    MaxSignals = 2
INVARIANTS
    HandlerOnLiveServer
