SPECIFICATION Spec
CONSTANTS
    Procs = {p1}
    Ids = {i1, i2, i3}
    Fingerprints = {f1, f2}
    Reports = {r1, r2}
    LastStatus = 2
    HashCollides = FALSE
    None = None
INVARIANTS
    OneThesisPerFingerprint
    StaleOnlyIfCutOff
PROPERTIES
    RegistrySpec
CHECK_DEADLOCK FALSE
