\* The same instance with a system whose calls never fail: do rolls keep what
\* was written?
SPECIFICATION Spec
CONSTANTS
    Lines = {l1, l2, l3}
    BufferSize = 2
    RollBytes = 1
    MaxSecond = 1
    Faults = FALSE
INVARIANTS
    WrittenIsKept
