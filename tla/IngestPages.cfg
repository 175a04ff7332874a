CONSTANTS
    t1 = t1
    Tab = {t1}
    Attempts = 3
    First <- OneUnderWay
    Opened <- SomePages
    RunAttempts = {2, 3}
    ITEMS_PAGE_SIZE = 2
    INGESTION_PAGE_SIZE = 1
    MaxRetries = 1
    MaxMoves = 2
    MaxFaults = 1
SPECIFICATION FairSpec
INVARIANT
    TypeOK
PROPERTIES
    ViewsSettle
CHECK_DEADLOCK FALSE
