SPECIFICATION ConsumerSpec
CONSTANTS
    LastGroup = 2
    NbObjects <- MCNbObjects
    ObjectLength <- FullObjectLength
    OtherLengths <- NoOtherLengths
    StartPoint <- FirstObject
INVARIANT SkippedAreAnnounced
CHECK_DEADLOCK FALSE
