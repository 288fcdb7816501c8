SPECIFICATION ControlFairSpec
CONSTANTS
    Origins = {0, 1}
    Intents = {0, 1}
    Policies = {FALSE, TRUE}
    MaxStart = 1
    MaxObjects = 2
INVARIANTS NoProtocolError NoOrphanData FinishedIsWhole NeverStuck
PROPERTIES StartPointReaches FinalPointReachesFromZero BothEndsClose
CHECK_DEADLOCK FALSE
