SPECIFICATION FairSpec
CONSTANTS
    c1 = c1
    c2 = c2
    Caller = {c1, c2}
    MaxRuns = 2
    MaxPushes = 1
    MaxRestarts = 1
    MaxFaults = 1
    MaxThreadFaults = 1
    NoCommit = NoCommit
INVARIANTS
    TypeOK
    OneDeployAtATime
    ActiveRunsAttended
    SuccessIsInstalled
PROPERTIES
    EndedIsFinal
    RunsSettle
    LockIsReleased
    ImplementsDeployLifecycle
CHECK_DEADLOCK FALSE
