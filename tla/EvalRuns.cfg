CONSTANTS
    t1 = t1
    t2 = t2
    a = a
    b = b
    Tab = {t1}
    Query = {1, 2, 3}
    Image = {a, b}
    Fitting = {a}
    Retrieved <- More
    FirstQueries = {1, 2}
    FirstPool = {a}
    MaxRuns = 2
    MaxChanges = 1
    MaxFaults = 1
SPECIFICATION FairSpec
INVARIANTS
    TypeOK
    CompleteIsScored
    ScoredOnItsQueries
    NoRunIsStranded
PROPERTY PageSeesTheEnd
CHECK_DEADLOCK FALSE
