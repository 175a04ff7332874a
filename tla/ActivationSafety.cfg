SPECIFICATION FairSpec
CONSTANTS
    MaxVersion = 2
    MaxAttempts = 1
    MaxFaults = 1
    Reconciling = TRUE
    Probe = Probe
    Nobody = Nobody
INVARIANT TypeOK
INVARIANT CommittedWasServed
PROPERTY RollbackSparesOthers
PROPERTY AvailabilityRestored
CHECK_DEADLOCK FALSE
