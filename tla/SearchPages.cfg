CONSTANTS
    q1 = q1
    q2 = q2
    i1 = i1
    i2 = i2
    i3 = i3
    i4 = i4
    Query = {q1, q2}
    Image = {i1, i2, i3, i4}
    Ranking <- TwoGenerations
    SEARCH_RESULT_LIMIT = 1
    MIN_BATCH = 1
    MAX_BATCH = 3
    AUTO_LOAD_WINDOW = 2
    MAX_OFFSET = 9
    MaxTyped = 3
    MaxChanges = 2
    MaxFaults = 1
SPECIFICATION FairSpec
INVARIANTS
    TypeOK
    NothingSkipped
PROPERTIES
    EndIsReached
CHECK_DEADLOCK FALSE
