SPECIFICATION CacheSpec
CONSTANTS
    LastGroup = 2
    NbObjects <- MCNbObjects
    ObjectLength <- MCObjectLength
    StartPoint <- MCStart
    Pieces <- MCPieces
    StartInTime = TRUE
INVARIANT OnlyReceivedIsOld
CHECK_DEADLOCK FALSE
