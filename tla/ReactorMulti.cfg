\* Two sub reactors, three connections over reusable fds, no shutdown.
SPECIFICATION Spec
CONSTANTS
    NSub = 2
    Clients = {c1, c2, c3}
    Fds = {f1, f2, f3}
    None = None
    NoFd = NoFd
    MaxConnections = 2
    MaxSignals = 0
SYMMETRY Symmetry
INVARIANTS
    NoLostWakeup
    TableConsistent
    FdOwnership
    CountersAgree
PROPERTIES
    ThreadConfined
