\* The instance of HttpParser.cfg, for the strict property.
SPECIFICATION Spec
CONSTANTS
    kInitialSize = 3
    kPrependSize = 1
    ExtraSize = 2
    InputSize = 4
    kMaxRequestLine = 3
    kMaxHeaderCount = 2
    kMaxBody = 2
    Lens = {0, 2, 3, 4}
    Keys <- MCKeys
    Streams <- MCStreams
INVARIANT
    SplitIndependent
