SPECIFICATION Spec
CONSTANTS
    Prices <- MCPrices
    Sizes <- MCSizes
    Multipliers <- MCMultipliers
    Times <- MCTimes
    NoVal = NoVal
    NaN = NaN
INVARIANT
    PnlIsSumOfLedger
CHECK_DEADLOCK FALSE
