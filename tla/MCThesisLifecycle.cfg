SPECIFICATION Spec
CONSTANTS
    Prices <- MCPrices
    Sizes <- MCSizes
    Multipliers <- MCMultipliers
    Times <- MCTimes
    NoVal = NoVal
    NaN = NaN
INVARIANTS
    TypeOK
    QuantityConserved
    SettledPnlIsRealized
    FuturesPnlIsLedger
    EquityCloseable
PROPERTIES
    TermsFixed
    AccountSpec
CHECK_DEADLOCK FALSE
