SPECIFICATION FairSpec
CONSTANTS
    c1 = c1
    c2 = c2
    Client = {c1, c2}
    Item <- MCItem
    Request <- OneRequest
    Leftover <- OldTasks
    Registry <- MCRegistry
    Malformed <- MCMalformed
    Jobs <- NoJobs
    NoPayload = "none"
    MaxAttempts = 3
    Backoff = 2
    Deadline = 3
    MaxTasks = 4
    MaxTime = 1
    MaxCrashes = 1
    MaxSignals = 1
    DayLength = 3
    Transition = 0
    OffsetBefore = 1
    OffsetAfter = 1
INVARIANTS
    RunningIsClaimed
    AtMostOneLateAttempt
    BackoffsFitDeadline
    RequestServed
PROPERTIES
    ImplementsLifecycle
    EveryTaskSettles
    ShutdownEnds
