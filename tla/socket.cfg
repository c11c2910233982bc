SPECIFICATION FairPumpSpec
CONSTANTS
    InCapacity = 2
    OutCapacity = 2
    Windows = {1, 2, 3, 4}
    MaxResponses = 3
    MaxMessages = 4
    MaxEvents = 2
INVARIANT StuckByFlood
PROPERTY AllDelivered
PROPERTY EndsWhenClosed
CHECK_DEADLOCK FALSE
