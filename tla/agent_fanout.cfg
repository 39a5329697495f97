SPECIFICATION FanoutSpec
CONSTANTS
    Job = {1, 2, 3}
    Options <- MCOptions
    Registered = {"subagent", "subagent_aggregator"}
    Env = {"cancel", "crash", "lock_expires"}
    MaxSpawnDepth = 1
    MaxCascade = 1
    MaxStarted = 2
    Entries = 2
    AggregatorOptions <- MCAggregatorOptions
    ChildOptions <- MCChildOptions
INVARIANTS
    ReportTrue
CHECK_DEADLOCK FALSE
