SPECIFICATION ControlFairSpec
CONSTANTS
    Origins = {1}
    Intents = {0}
    Policies = {FALSE}
    MaxStart = 1
    MaxObjects = 1
PROPERTIES FinalPointReaches
CHECK_DEADLOCK FALSE
