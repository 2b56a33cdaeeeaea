CONSTANTS
    t1 = t1
    t2 = t2
    NaN = NaN
    TaskIds = {t1, t2}
    EventTypes = {"task_completed", "task_paused", "interruption"}
    Times = {0, 1, 2, 3, 4}
    Gap = 1
    DeepWork = 1
    Anchor = 2
    Day = 2
    Window = 3
    Stats <- MCStats
    Bounds <- MCBounds
SPECIFICATION ASpec
INVARIANTS
    ATypeOK
    SessionsAreRuns
    WindowCutsFirstOnly
    BetterWorkScoresNoLess
    BucketsCountDays
    TrendTellsDirection
PROPERTY EventIsLocal
CHECK_DEADLOCK FALSE
