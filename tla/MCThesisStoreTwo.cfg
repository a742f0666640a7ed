SPECIFICATION Spec
CONSTANTS
    Procs = {p1, p2}
    Ids = {i1, i2}
    Fingerprints = {f1, f2}
    Reports = {r1}
    LastStatus = 1
    HashCollides = FALSE
    None = None
INVARIANTS
    IndexPointsToThesis
CHECK_DEADLOCK FALSE
