CONSTANTS
    t1 = t1
    t2 = t2
    daily = daily
    None = None
    Tab = {t1}
    Id = {1, 2}
    FirstId = 1
    FirstScore = 100
    Score = {100, 500}
    Default = 500
    Plan = {daily}
    MaxCalls = 2
    MaxRuns = 1
    MaxFaults = 1
SPECIFICATION FairSpec
INVARIANTS
    TypeOK
    UntouchedSheetIsLatest
PROPERTIES
    SaveIsShown
    DeletedStaysDeleted
    PageCatchesUp
CHECK_DEADLOCK FALSE
