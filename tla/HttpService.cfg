\* Two requests on a connection, one file of up to two reads changed twice.
SPECIFICATION Spec
CONSTANTS
    Requests <- MCRequests
    Malformed = Malformed
    Files = {"/index.html"}
    Lengths = {0, 1, 2}
    PageLength = 3
    StatsLengths = {4, 5}
    MaxRequests = 2
    MaxChanges = 2
INVARIANTS
    FramingAgrees
    AnswersAreOfTheMoment
    ClosesAsAnnounced
