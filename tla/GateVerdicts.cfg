SPECIFICATION Spec
CONSTANTS
    Margin = 2
    Alpha = 30
    ErrorBudget = 10
    Threshold = 10
    BaselinesOf <- Committed
    RunsOf <- AllRuns
    Certificates = {"none", "adequate", "inadequate"}
INVARIANTS
    ExitOneMeansRegression
    MeasurementErrorWins
    JudgeErrorsPassTheTest
    BetterScoresPassToo
    RejectionNeedsChanges
CHECK_DEADLOCK FALSE
