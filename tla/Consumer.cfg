SPECIFICATION ConsumerFairSpec
CONSTANTS
    LastGroup = 2
    NbObjects <- MCNbObjects
    ObjectLength <- MCObjectLength
    OtherLengths <- MCOtherLengths
    StartPoint <- LateStart
INVARIANTS TypeOK AtMostOnce InOrderPrefix RepairWasPeeked NoStall FinishedMeansAll AllMeansFinished
INVARIANTS DeliveredOnce DeliveredInOrder DeliveredAll
PROPERTIES ImplementsDelivery EventuallyFinished
CHECK_DEADLOCK FALSE
