SPECIFICATION FairSpec
CONSTANTS
    Tickers = {t1}
    MaxContracts = 2
    FlattenRetries = 2
    MaxOrders = 3
    MaxStarts = 2
CHECK_DEADLOCK FALSE
INVARIANTS
    TradesOnExactBooks
    VerifiedMeansFlat
    OneUnsettledOrder
PROPERTIES
    OutcomeIsFinal
    ShutdownEnds
