SPECIFICATION FairCacheSpec
CONSTANTS
    LastGroup = 2
    NbObjects <- MCNbObjects
    ObjectLength <- MCObjectLength
    StartPoint <- MCStart
    Pieces <- MCPieces
    StartInTime = TRUE
INVARIANTS CacheTypeOK NextIsPrefix NextIsMaximal CountedOnce ServedToTheEnd
PROPERTY EventuallyReceived
CHECK_DEADLOCK FALSE
