CONSTANTS
    t1 = t1
    t2 = t2
    Tab = {t1, t2}
    QueryCount = 2
    ImageCount = 2
    FirstPool <- Paired
    Taste <- Differ
    MaxRevision = 1
    MaxUpsets = 1
SPECIFICATION FairSpec
INVARIANT TypeOK
PROPERTIES
    FirstGradeKept
    PoolFinished
CHECK_DEADLOCK FALSE
