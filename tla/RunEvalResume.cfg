SPECIFICATION Spec
CONSTANTS
    w1 = w1
    w2 = w2
    Workers <- MCWorkers
    NumTasks = 3
    NumVersions = 2
    NumRubrics = 1
    TraceModes = {TRUE}
    ScoreOutcomes = {"judged"}
    KillTears = {"nothing", "fragment"}
    WriteTears = {}
    ManifestTears = TRUE
    MaxStops = 3
    MaxScoreFailures = 1
    MaxWriteFailures = 0
SYMMETRY Symmetry
INVARIANTS
    NoResample
    RowsStayLoadable
    ServedNamesARow
PROPERTIES
    NoCallAfterFailure
    ImplementsLedger
