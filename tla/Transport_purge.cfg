SPECIFICATION TransportSpec
CONSTANTS
    LastGroup = 2
    NbObjects <- MCNbObjects
    ObjectLength <- MCObjectLength
    StartPoint <- MCStartPoint
    Pieces <- MCPieces
    Modes = {"single_stream"}
    Intents <- MCFromZero
    RealTime = {"single_stream"}
    Purged = {"single_stream"}
    Congestions = {"none"}
    MaxInFlight = 1
INVARIANT PurgeSparesStreams
CHECK_DEADLOCK FALSE
