SPECIFICATION FairSpec
CONSTANTS
    m1 = m1
    s1 = s1
    s2 = s2
    s3 = s3
    s4 = s4
    None = None
    Job = {m1, s1, s2}
    Manual = {m1}
    Forced = {m1}
    MaxGeneration = 2
    MaxFaults = 1
INVARIANT TypeOK
INVARIANT ActiveBuildSound
INVARIANT FreshMeansCurrent
PROPERTY ActiveNeverRegresses
PROPERTY LiveClaimKept
PROPERTY FenceSpec
PROPERTY ManualRunEnds
CHECK_DEADLOCK FALSE
