SPECIFICATION Spec
CONSTANTS
    Job = {1, 2}
    Options <- PairOptions
    Registered = {"job"}
    Env = {"retry", "pause", "resume", "remove", "detach", "cancel_error", "lock_expires"}
    MaxSpawnDepth = 1
    MaxCascade = 1
    MaxStarted = 2
INVARIANTS
    Fenced
    AttemptsAccounted
    SnapshotCurrent
PROPERTIES
    EndedIsFinal
CHECK_DEADLOCK FALSE
