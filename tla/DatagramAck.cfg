SPECIFICATION AckSpec
CONSTANTS
    LastGroup = 1
    NbObjects <- MCNbObjects
    ObjectLength <- MCObjectLength
    StartPoint <- MCStart
    Pieces <- MCPieces
    Delayed <- MCDelayed
    Placeholders <- MCPlaceholders
    MaxRepeat = 2
    MaxRepeats <- MCMaxRepeats
    extra_repeat_on_nack = TRUE
    extra_repeat_after_received_delayed = TRUE
INVARIANTS AckTypeOK RepairPending AckedMeansReceived RecordsTile NeverCollides
CHECK_DEADLOCK FALSE
