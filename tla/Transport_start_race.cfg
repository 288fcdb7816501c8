SPECIFICATION TransportFairSpec
CONSTANTS
    LastGroup = 2
    NbObjects <- MCNbObjects
    ObjectLength <- MCObjectLength
    StartPoint <- MCStartPoint
    Pieces <- MCPieces
    Modes = {"single_stream"}
    Intents <- MCFromMiddle
    RealTime = {}
    Purged = {}
    Congestions = {"none"}
    MaxInFlight = 1
PROPERTY StreamServed
CHECK_DEADLOCK FALSE
