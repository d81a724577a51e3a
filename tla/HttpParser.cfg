\* Limits of a few bytes; lines below, at and over the line limit; a buffer
\* that has to move, grow and spill into the spare area.
SPECIFICATION Spec
CONSTANTS
    kInitialSize = 3
    kPrependSize = 1
    ExtraSize = 2
    InputSize = 4
    kMaxRequestLine = 3
    kMaxHeaderCount = 2
    kMaxBody = 2
    Lens = {0, 2, 3, 4}
    Keys <- MCKeys
    Streams <- MCStreams
INVARIANTS
    ReadableIsStream
    InputBounded
    VerdictsAreRight
