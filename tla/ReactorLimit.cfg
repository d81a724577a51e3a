\* Option -m with sub reactors.
SPECIFICATION Spec
CONSTANTS
    NSub = 1
    Clients = {c1, c2}
    Fds = {f1, f2}
    None = None
    NoFd = NoFd
    MaxConnections = 1
    MaxSignals = 0
INVARIANTS
    ConnectionLimit
