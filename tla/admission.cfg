SPECIFICATION Spec
CONSTANTS
    Requests = {r1, r2}
    Events = {"patch", "ann"}
    Urls = {u1}
    Kind <- KindOf
    Lists <- ListsHost
    TTL = 2
    MaxEntries = 1
    Timeout = 1
    MaxTime = 5
    MaxWrites = 1
INVARIANT DecisionIsRecent
INVARIANT ErrorIsRecent
CHECK_DEADLOCK FALSE
SYMMETRY RequestSymmetry
