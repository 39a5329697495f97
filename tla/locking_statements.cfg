SPECIFICATION Spec
CONSTANTS
    w1 = w1
    w2 = w2
    w3 = w3
    c1 = c1
    c2 = c2
    c3 = c3
    Session = {w1, w2, w3}
    Child = {c1, c2, c3}
    May <- OneSharing
INVARIANTS
    RunsAfterChildren
    NoLockCycle
    NotStranded
SYMMETRY Siblings
