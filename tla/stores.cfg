SPECIFICATION StoresSpec
CONSTANTS
    u1 = u1
    u2 = u2
    short = short
    long = long
    old = old
    new = new
    newer = newer
    home = home
    away = away
    Session = {u1, u2}
    Body = {short, long}
    ChunkCount <- MCChunkCount
    MaxBirths = 2
    Runner = {old, new, newer}
    Latest <- MCLatest
    Top = 4
    Columns = {3}
    Detached = {4}
    Page = {home, away}
    Content = {c1, c2}
    None = None
    Linked <- MCLinked
    File = {f1}
    Text = {t1, t2}
    Depth = 2
    brief = brief
    digest = digest
    Installer = {u1, u2}
    Skill = {brief, digest}
    Others = {hers}
    SkillFile = {"brief1", "digest1"}
    FilesOf <- MCFilesOf
    Bundle <- MCBundle
    Asked <- MCAsked
    MaxCommands = 2
    MaxMeddled = 1
    Spender = {u1, u2}
    MaxReservations = 2
    Estimates = {2}
    Costs = {1, 2, 3}
    Caps = {NoCap, 3}
    NoCap = NoCap
    MaxDay = 2
SYMMETRY Symmetry
INVARIANTS
    
    
    
    TextRestorable
    WorkKept
    NeverOverspent

    
