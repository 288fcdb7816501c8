SPECIFICATION CacheSpec
CONSTANTS
    LastGroup = 2
    NbObjects <- MCNbObjects
    ObjectLength <- MCObjectLength
    StartPoint <- MCStart
    Pieces <- MCPieces
    StartInTime = FALSE
INVARIANT NextIsMaximal
CHECK_DEADLOCK FALSE
