CONSTANTS
    t1 = t1
    t2 = t2
    daily = daily
    None = None
    Tab = {t1}
    Id = {1}
    FirstId = 1
    FirstScore = 100
    Score = {100, 500}
    Default = 500
    Plan = {daily}
    MaxCalls = 1
    MaxRuns = 0
    MaxFaults = 0
SPECIFICATION Spec
PROPERTY DisablingKeepsScore
CHECK_DEADLOCK FALSE
