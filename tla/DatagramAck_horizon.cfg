SPECIFICATION AckSpec
CONSTANTS
    LastGroup = 1
    NbObjects <- MCNbObjects
    ObjectLength <- MCFullLength
    StartPoint <- MCStart
    Pieces <- MCPieces
    Delayed <- MCDelayed
    Placeholders <- MCPlaceholders
    MaxRepeat = 2
    MaxRepeats <- MCMaxRepeats
    extra_repeat_on_nack = FALSE
    extra_repeat_after_received_delayed = TRUE
INVARIANT HorizonCollapsed
CHECK_DEADLOCK FALSE
