\* io_threads = 0: one thread accepts and serves.
SPECIFICATION Spec
CONSTANTS
    NSub = 0
    Clients = {c1, c2, c3}
    Fds = {f1, f2, f3}
    None = None
    NoFd = NoFd
    MaxConnections = 2
    MaxSignals = 1
SYMMETRY Symmetry
INVARIANTS
    ConnectionLimit
    NoStaleEvent
