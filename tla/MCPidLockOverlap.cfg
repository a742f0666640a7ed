SPECIFICATION LockSpec
CONSTANTS
    Procs = {p1, p2}
    Overlap = TRUE
    PidReuse = FALSE
    None = None
INVARIANTS
    MutualExclusion
CHECK_DEADLOCK FALSE
