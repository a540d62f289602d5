SPECIFICATION Spec
CONSTANTS
    a = a
    b = b
    owner = owner
    second = second
    stray = stray
    v1 = v1
    v2 = v2
    planted = planted
    null = null
    None = null
    Owner = owner
    Annotators = {owner, second, stray}
    Candidates = {a, b}
    Texts = {v1, v2, planted}
    MainItems = {1, 2}
    ProbeItems = {3}
    Keys <- MCKeys
    KeyOrder <- MCKeyOrder
    SelfConsistencyN = 1
    LowInterval <- MCLowInterval
    Outputs <- MCOutputs
    Labellings <- MCLabellings
    Judgements <- MCJudgements
    RepeatAnswers <- MCRepeats
    StrayRows <- MCStrayRows
    Overlays <- MCOverlays
    NumRubrics = 2
    MaxEdits = 1
    MaxRegenerations = 1
    MaxFaults = 1
INVARIANTS
    TypeOK
    AcceptedIffWellFormed
    NoWorkOnBadFiles
    VerdictsAreAboutOneText
    OnePopulation
    OfflineReproducesLive
    OnlyFaultsSplitThePair
