SPECIFICATION TransportFairSpec
CONSTANTS
    LastGroup = 2
    NbObjects <- MCNbObjects
    ObjectLength <- MCObjectLength
    StartPoint <- MCStartPoint
    Pieces <- MCPieces
    Modes = {"single_stream", "datagram", "warp", "rush"}
    Intents <- MCIntents
    RealTime = {"datagram", "single_stream"}
    Purged = {"datagram"}
    Congestions = {"group"}
    MaxInFlight = 1
INVARIANTS TransportTypeOK TrueFragments SentOnce ClosedMeansSent NoUniStreamError PurgeSparesDatagrams
PROPERTIES StreamInOrder EventuallyServed
CHECK_DEADLOCK FALSE
