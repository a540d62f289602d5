SPECIFICATION Spec
CONSTANTS
    u1 = u1
    u2 = u2
    Updaters <- OneUpdater
    Plans <- Either
    Tracing = {TRUE, FALSE}
    MaxInvocations = 3
    MaxFaults = 2
INVARIANTS
    CommittedPassedTheFloor
    FailedStagingChangesNothing
    ReturnedUpdateIsWhole
CHECK_DEADLOCK FALSE
