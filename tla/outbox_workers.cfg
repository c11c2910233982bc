SPECIFICATION Spec
CONSTANTS
    repo = repo
    u1 = u1
    u2 = u2
    e1 = e1
    r1 = r1
    NoEvent = NoEvent
    Repo <- MCRepo
    Posts <- MCPosts
    RetryBase = 1
    RetryMax = 2
    Events = {e1, e2}
    Requests = {r1, r2}
    RelayUrls <- MCTwoRelays
    Workers = {w1, w2}
    Handlers = {}
    MaxTime = 1
    MaxFaults = 1
INVARIANT ClaimedByOne
INVARIANT PublishedWasDelivered
INVARIANT StrandedByFaults
INVARIANT MappedIsSetUp
INVARIANT HooklessByFaults
SYMMETRY WorkerSymmetry
