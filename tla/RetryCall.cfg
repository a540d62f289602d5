SPECIFICATION FairSpec
CONSTANTS
    MaxAttempts = 12
    BaseDelay = 1
    MaxBackoff = 240
    PatienceBudget = 1200
    RequestTimeout = 200
    Delays <- RealDelays
    Durations <- RealDurations
    FastDurations <- RealFast
INVARIANTS
    WithinPatience
    FastFailGetsEveryAttempt
PROPERTIES
    CallEnds
CHECK_DEADLOCK FALSE
