SPECIFICATION Spec
CONSTANTS
    Job = {1, 2, 3}
    Options <- FamilyOptions
    Registered = {"job"}
    Env = {"cancel"}
    MaxSpawnDepth = 2
    MaxCascade = 2
    MaxStarted = 2
INVARIANTS
    ParentNotStranded
    ChildDonePosted
    ChildrenCapped
PROPERTIES
    StartedAfterChildren
    CancelCascades
CHECK_DEADLOCK FALSE
