SPECIFICATION FairSpec
CONSTANTS
    Procs = {p1}
    Overlap = FALSE
    PidReuse = FALSE
    None = None
    RequiredInputs = {"market_breadth", "market_top"}
    OptionalInputs = {"macro_regime"}
    RequiredScreeners = {"vcp"}
    OptionalScreeners = {"canslim", "momentum_burst"}
INVARIANTS
    TypeOK
    GatesHold
    QueueOnlyIfCleared
    MarkdownRepeatsJson
PROPERTIES
    RunEnds
CHECK_DEADLOCK FALSE
