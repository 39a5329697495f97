SPECIFICATION FairSpec
CONSTANTS
    Job = {1, 2}
    Options <- RecoveryOptions
    Registered = {"job"}
    Env = {"crash", "lock_expires", "age_passes"}
    MaxSpawnDepth = 1
    MaxCascade = 1
    MaxStarted = 3
INVARIANTS
    AttemptBudget
PROPERTIES
    EveryJobEnds
CHECK_DEADLOCK FALSE
