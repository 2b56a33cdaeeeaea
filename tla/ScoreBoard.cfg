CONSTANTS
    None = None
    MaxCalls = 3
    Windows = {7, 30}
    FirstWindow = 30
    MaxTime = 1
    FaultSets = {{"overlap", "lost"}, {"lost", "kill"}}
SPECIFICATION FairSpec
INVARIANTS
    ShownIsLatestRow
    RefreshIsFresh
    OnlyStoredScoresBreak
    TrendIsOfChoice
PROPERTY LoadingEnds
CHECK_DEADLOCK FALSE
