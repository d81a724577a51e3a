\* stop() from a signal handler on a loop's own thread.
SPECIFICATION Spec
CONSTANTS
    NSub = 1
    Clients = {c1}
    Fds = {f1}
    None = None
    NoFd = NoFd
    MaxConnections = 1
    MaxSignals = 1
INVARIANTS
    StopWakesLoop
