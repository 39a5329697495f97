SPECIFICATION FairSpec
CONSTANTS
    Agent = {"user", "pilot"}
    Pid = {1, 2}
    PidOf <- MCPidOf
    LockId = {"gbrain-sync", "gbrain-cycle"}
    Path = {1, 2, 3}
    KindOf <- MCKindOf
    Content = {"a", "b", "bad"}
    Bad = {"bad"}
    Cyclers = {"pilot"}
    Requests <- MCRequests
    Scope = "source"
    FirstTrees <- MCFirstTrees
    Fresh = FALSE
    Workers = 2
    CheckpointEvery = 9
    MaxCommit = 2
    MaxChunker = 2
    MaxFaults = 1
    MaxAsked = 1
    LongRuns = FALSE
INVARIANTS Honest
PROPERTIES BookmarkForward LockSpec LinksFollow
CHECK_DEADLOCK FALSE
