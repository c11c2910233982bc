CONSTANTS
    Keys = {o, m1, m2}
    Owner = o
    Walks = {"p1", "p2", "q"}
    MaxAnnounced = 1
    Pushes = {"p1", "p2"}
    Refs = {"main", "tag", "n", "bad"}
    Class <- ClassOf
    Commits = {"c1", "c2", "c3"}
    States <- StateEvents
    Wants <- Updates
    Syncs = {"y1", "y2"}
    SyncRepos = {"repo", "other"}
    Repo = "repo"
    max_concurrent = 1
    MaxStates = 2
    MaxFailures = 1
SPECIFICATION MCSpec
SYMMETRY KeySymmetry
INVARIANTS ResolvedWasListed ResolvedIsComplete RefsFollowStates SyncedMatches
 
CHECK_DEADLOCK FALSE
