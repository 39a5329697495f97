SPECIFICATION ServicesSpec
CONSTANTS
    a1 = a1
    a2 = a2
    b1 = b1
    p = p
    q = q
    Caller = {a1, a2, b1}
    Process = {p, q}
    ProcessOf <- MCProcessOf
    Host = {h1, h2, h3}
    MaxCrashes = 2
    Task = {t1, t2}
    MaxProcs = 3
    WorkerJob = {j1, j2}
    concurrency = 1
    MaxClaims = 4
    Transcript = {1, 2}
    Slots = 1
    MaxMishaps = 2
INVARIANTS
    LocksExclude
    OneSupervisor
    
    SlotsHonoured

    
    
CHECK_DEADLOCK FALSE
