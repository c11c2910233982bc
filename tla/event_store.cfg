SPECIFICATION Spec
CONSTANTS
    p = p
    d = d
    v1 = v1
    v2 = v2
    v3 = v3
    alice = alice
    NoKey = NoKey
    NoEvent = NoEvent
    Author <- MCAuthor
    CreatedAt <- MCCreatedAt
    Key <- MCKey
    DeletesId <- MCDeletesId
    DeletesKey <- MCDeletesKey
    k = k
    k2 = k2
    Keys = {k, k2}
    Writers = {w1, w2}
    Events = {v1, v2, v3, p, d}
    MaxFailures = 1
INVARIANT TwoCurrentByOverlap
 
 
SYMMETRY WriterSymmetry
