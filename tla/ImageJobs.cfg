CONSTANTS
    Url = {u1}
    File = {f1, f2}
    MaxJobs = 2
    MaxEdits = 4
    MaxFaults = 1
SPECIFICATION FairSpec
INVARIANTS
    TypeOK
    KeptUntilQueued
PROPERTY ChipSettles
CHECK_DEADLOCK FALSE
