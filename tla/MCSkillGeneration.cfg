SPECIFICATION GenSpec
CONSTANTS
    i1 = i1
    i2 = i2
    Ideas = {i1, i2}
    Composite <- MCComposite
    Worthwhile = {i1, i2}
    Daily = {d1}
    Weekly = {w1}
    MaxRetries = 1
    Staggered = TRUE
    MaxCuts = 1
    Main = Main
    Free = Free
    Stale = Stale
    None = None
    Unread = Unread
INVARIANTS
    GenTypeOK
    TreeReady
    DesignsBounded
    OnePullRequest
PROPERTIES
    KeepsBacklog
