SPECIFICATION FairSpec
CONSTANTS
    t1 = t1
    t2 = t2
    order = order
    name = name
    summary = summary
    action = action
    garbled = garbled
    NoRow = NoRow
    Missing = Missing
    Garbled = garbled
    DeterministicFields = {order, name}
    JudgedFields <- MCJudgedFields
    Threads <- MCThreads
    Tasks = {1, 2}
    CandidateReplies <- MCCandidateReplies
    JudgeReplies <- MCJudgeReplies
    Keyless = {TRUE, FALSE}
    MaxTraceFaults = 2
    MaxRaises = 1
CHECK_DEADLOCK FALSE
INVARIANTS
    TypeOK
    TracedIsComplete
    ZerosAreEarned
PROPERTIES
    ImplementsScoring
    MeasurementEnds
