\* The same instance: where do the lines go when the file cannot be opened?
SPECIFICATION Spec
CONSTANTS
    Lines = {l1, l2, l3}
    BufferSize = 2
    RollBytes = 1
    MaxSecond = 1
    Faults = TRUE
INVARIANTS
    LogStaysOutOfSockets
