SPECIFICATION FairSpec
CONSTANTS
    Procs = {p1, p2}
    Overlap = FALSE
    PidReuse = FALSE
    None = None
    RequiredInputs = {"market_breadth"}
    OptionalInputs = {}
    RequiredScreeners = {"vcp"}
    OptionalScreeners = {}
INVARIANTS
    LockNamesRunner
    OneRunSpends
PROPERTIES
    SkippedByRun
    ObeysLock
    AcquireReturns
CHECK_DEADLOCK FALSE
