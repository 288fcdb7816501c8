SPECIFICATION TransportSpec
CONSTANTS
    LastGroup = 2
    NbObjects <- MCNbObjects
    ObjectLength <- MCObjectLength
    StartPoint <- MCStartPoint
    Pieces <- MCPieces
    Modes = {"single_stream"}
    Intents <- MCPastGroup
    RealTime = {}
    Purged = {}
    Congestions = {"none"}
    MaxInFlight = 1
INVARIANT TrueFragments
CHECK_DEADLOCK FALSE
