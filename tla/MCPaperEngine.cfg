SPECIFICATION Spec
CONSTANTS
    t1 = t1
    t2 = t2
    Tickers = {t1, t2}
    Settings <- Configurations
    MinPrice = 1
    MaxPrice = 9
    MaxSpread = 2
    StopLoss = 2
    TakeProfit = 1
    Trail = 1
    MaxHold = 2
    Latency = 1
    FillTimeout = 1
    Slippage = 1
    Fee = 0
    DayLength = 2
CHECK_DEADLOCK FALSE
SYMMETRY Symmetric
INVARIANTS
    ExitsCoverPositions
    RealizedMatchesLedger
    ExposureLimits
    ExposedIsObserved
PROPERTIES
    ExitNeverDelayed
    EntriesRespectLossLimit
