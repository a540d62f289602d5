SPECIFICATION RetriedSpec
CONSTANTS
    w1 = w1
    w2 = w2
    Workers <- MCWorkers
    NumTasks = 3
    NumVersions = 1
    NumRubrics = 1
    TraceModes = {TRUE}
    ScoreOutcomes = {"judged"}
    KillTears = {"nothing", "fragment", "no_newline"}
    WriteTears = {"nothing", "fragment", "no_newline"}
    ManifestTears = TRUE
    MaxStops = 2
    MaxScoreFailures = 1
    MaxWriteFailures = 1
PROPERTIES
    InvocationEnds
    CompletedUnlessUnreadable
