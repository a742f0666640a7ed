SPECIFICATION Spec
CONSTANTS
    Prices <- MCPrices
    Sizes <- MCSizes
    Multipliers <- MCMultipliers
    Times <- MCTimes
    NoVal = NoVal
    NaN = NaN
INVARIANT
    FuturesCloseable
CHECK_DEADLOCK FALSE
