\* Two connections, half-millisecond ticks, time for three timeouts.
SPECIFICATION Spec
CONSTANTS
    Conns = {c1, c2}
    TicksPerMs = 2
    IdleTimeout = 4
    Fallback = 6
    MaxTime = 13
SYMMETRY Symmetry
INVARIANTS
    OpenHasLiveEntry
    CancelledInHeap
    NeverOversleeps
    IdleBound
    ReportLags
