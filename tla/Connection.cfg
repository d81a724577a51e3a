\* Three requests of every kind; the send queue holds one response and a half.
SPECIFICATION FairSpec
CONSTANTS
    NRequests = 3
    SndBuf = 3
INVARIANTS
    NoStrandedInput
    NoStrandedRequest
    NoStuckOutput
    CloseAfterDrain
    RegistrationMatches
PROPERTIES
    ClosedIsFinal
    AnsweredOrClosed
    CloseHappens
