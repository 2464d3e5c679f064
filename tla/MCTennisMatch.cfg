SPECIFICATION MatchSpec
CONSTANTS
    SetGames = 6
    TiebreakPoints = 7
    SetsRequired = 2
    MaxTiebreak = 8
INVARIANTS
    EveryScoreValidates
    ServeOrder
CHECK_DEADLOCK FALSE
