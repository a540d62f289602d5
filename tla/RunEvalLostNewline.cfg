SPECIFICATION Spec
CONSTANTS
    w1 = w1
    w2 = w2
    Workers <- MCWorkers
    NumTasks = 2
    NumVersions = 1
    NumRubrics = 1
    TraceModes = {TRUE}
    ScoreOutcomes = {"judged"}
    KillTears = {"nothing", "fragment", "no_newline"}
    WriteTears = {}
    ManifestTears = FALSE
    MaxStops = 1
    MaxScoreFailures = 0
    MaxWriteFailures = 0
SYMMETRY Symmetry
INVARIANT CompletedRunIsWhole
