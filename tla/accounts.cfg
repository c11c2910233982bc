CONSTANTS
    Requests = {"s1", "s2", "g", "p1", "p2"}
    Kind <- KindOf
    Fields = {"bio", "visibility"}
    Sets <- SetsOf
    MaxRequests = 3
    MaxTime = 1
    MaxFaults = 1
SPECIFICATION FairSpec
INVARIANTS ProfilelessByFaults LostOnlyByOverlap RefusedByOverlap
PROPERTIES RepairedByOwner
CHECK_DEADLOCK FALSE
