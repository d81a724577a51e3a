\* Three lines, a buffer of two, a file that rolls after one line.
SPECIFICATION FairSpec
CONSTANTS
    Lines = {l1, l2, l3}
    BufferSize = 2
    RollBytes = 1
    MaxSecond = 1
    Faults = TRUE
INVARIANTS
    EarlierLinesWritten
    FilesInOrder
PROPERTIES
    IsLogQueue
    RollsKeepLines
    StopReturns
    LineIsSettled
