SPECIFICATION FollowSpec
CONSTANTS
    Pasts <- MCPasts
    Moves <- MCMoves
    MaxDays = 25
    Window = 60
    MaxLows = 6
PROPERTIES
    NoFallback
CHECK_DEADLOCK FALSE
