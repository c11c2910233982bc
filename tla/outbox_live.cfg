SPECIFICATION FairSpec
CONSTANTS
    repo = repo
    u1 = u1
    u2 = u2
    e1 = e1
    r1 = r1
    NoEvent = NoEvent
    Repo <- MCRepo
    Posts <- MCPosts
    RetryBase = 1
    RetryMax = 2
    Events = {e1, e2}
    Requests = {r1, r2}
    RelayUrls <- MCOneRelay
    Workers = {w1}
    Handlers = {h1}
    MaxTime = 1
    MaxFaults = 0
PROPERTY AnsweredIsProvisioned
