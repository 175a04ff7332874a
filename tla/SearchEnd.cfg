CONSTANTS
    q1 = q1
    q2 = q2
    i1 = i1
    i2 = i2
    i3 = i3
    i4 = i4
    Query = {q1}
    Image = {i1, i2, i3, i4}
    Ranking <- OneGeneration
    SEARCH_RESULT_LIMIT = 1
    MIN_BATCH = 3
    MAX_BATCH = 4
    AUTO_LOAD_WINDOW = 4
    MAX_OFFSET = 9
    MaxTyped = 1
    MaxChanges = 1
    MaxFaults = 0
SPECIFICATION Spec
INVARIANT EndMeansAll
CHECK_DEADLOCK FALSE
