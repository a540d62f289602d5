SPECIFICATION Spec
CONSTANTS
    a = a
    b = b
    p1 = p1
    p2 = p2
    x = x
    y = y
    m1 = m1
    m2 = m2
    golden = golden
    emails = emails
    None = None
    Golden = golden
    Emails = emails
    Procs <- MCProcs
    Labels <- MCLabels
    Contents <- MCContents
    ContentVersion <- MCContentVersion
    Configs <- MCConfigs
    Builds <- MCBuilds
    KeySets <- MCKeySets
    AtFirst <- MCAtFirst
    Invocable <- MCInvocable
    MaxInvocations = 1
    MaxEdits = 0
    MaxFaults = 0
SYMMETRY Symmetry
CHECK_DEADLOCK FALSE
INVARIANT SetupErrorsCostNothing
