SPECIFICATION TransportSpec
CONSTANTS
    LastGroup = 2
    NbObjects <- MCNbObjects
    ObjectLength <- MCObjectLength
    StartPoint <- MCStartPoint
    Pieces <- MCPieces
    Modes = {"single_stream"}
    Intents <- MCIntents
    RealTime = {}
    Purged = {}
    Congestions = {"delay"}
    MaxInFlight = 1
PROPERTY StreamInOrder
CHECK_DEADLOCK FALSE
