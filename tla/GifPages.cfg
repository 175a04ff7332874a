CONSTANTS
    t1 = t1
    t2 = t2
    Tab = {t1, t2}
    GifCount = 2
    Path <- Apart
    Verdict <- Verdicts
    MaxEdits = 1
    MaxSaves <- Once
    MaxUpsets = 1
SPECIFICATION FairSpec
INVARIANTS
    TypeOK
    SavedMeansStored
    TypedTextIsKept
    ExportIsStored
PROPERTIES
    RegisterSpec
    SpinnerStops
CHECK_DEADLOCK FALSE
