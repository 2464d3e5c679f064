SPECIFICATION SyncSpec
CONSTANTS
    market = market
    Tickers <- MCTickers
    Prices <- MCPrices
    Scripts <- MCScripts
    One = 4
    MaxQty = 1
    SetGames = 6
    TiebreakPoints = 7
    SetsRequired = 2
    MaxScoreAge = 1
    MaxBookAge = 1
    MaxLifecycleAge = 2
    MaxSkew = 1
    MoveThreshold = 2
    ExplanationWindow = 1
    CloseHorizon = 1
    Close = 3
    MaxTime = 2
INVARIANTS
    TrackedIsTrue
    NeverRaises
PROPERTIES
    EmissionsAdvance
    PointExplainsOnce
CHECK_DEADLOCK FALSE
