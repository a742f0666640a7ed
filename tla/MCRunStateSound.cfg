SPECIFICATION RunSpec
CONSTANTS
    x = x
    y = y
    NoRun = NoRun
    Symbols <- MCSymbols
    Screens <- MCScreens
PROPERTIES
    SoundAuditAccepted
CHECK_DEADLOCK FALSE
