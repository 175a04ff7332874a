SPECIFICATION FairSpec
CONSTANTS
    m1 = m1
    s1 = s1
    s2 = s2
    s3 = s3
    s4 = s4
    None = None
    Job = {s1, s2, s3, s4}
    Manual = {}
    Forced = {}
    MaxGeneration = 2
    MaxFaults = 1
PROPERTY ClaimFreed
PROPERTY EventuallyCurrent
CHECK_DEADLOCK FALSE
