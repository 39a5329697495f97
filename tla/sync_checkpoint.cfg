SPECIFICATION Spec
CONSTANTS
    Agent = {"pilot"}
    Pid = {1, 2}
    PidOf <- MCPidOf
    LockId = {"gbrain-sync", "gbrain-cycle"}
    Path = {1, 2, 3}
    KindOf <- MCKindOf
    Content = {"a", "bad"}
    Bad = {"bad"}
    Cyclers = {"pilot"}
    Requests <- MCRequests
    Scope = "source"
    FirstTrees <- MCFirstTrees
    Fresh = TRUE
    Workers = 1
    CheckpointEvery = 1
    MaxCommit = 3
    MaxChunker = 1
    MaxFaults = 1
    MaxAsked = 0
    LongRuns = FALSE
INVARIANT Honest
CHECK_DEADLOCK FALSE
