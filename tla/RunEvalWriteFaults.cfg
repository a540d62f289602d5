SPECIFICATION Spec
CONSTANTS
    w1 = w1
    w2 = w2
    Workers <- MCWorkers
    NumTasks = 3
    NumVersions = 1
    NumRubrics = 2
    TraceModes = {TRUE, FALSE}
    ScoreOutcomes = {"judged", "candidate_failed"}
    KillTears = {}
    WriteTears = {"nothing", "fragment"}
    ManifestTears = FALSE
    MaxStops = 0
    MaxScoreFailures = 1
    MaxWriteFailures = 2
SYMMETRY Symmetry
INVARIANTS
    CompletedRunHasEveryRow
    UntracedIsSticky
PROPERTIES
    PersistedRowsStay
