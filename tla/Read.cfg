CONSTANTS
    MaxChunk = 2
    MaxInput = 5
    MaxRead = 3
SPECIFICATION FairSpec
INVARIANTS FullRead TimerClean
PROPERTIES ReaderReturns
CHECK_DEADLOCK FALSE
