SPECIFICATION Spec
CONSTANTS
    c1 = c1
    c2 = c2
    Client = {c1}
    Item <- MCItem
    Request <- OneRequest
    Leftover <- NothingLeft
    Registry <- MCRegistry
    Malformed <- MCMalformed
    Jobs <- TwoJobs
    NoPayload = "none"
    MaxAttempts = 1
    Backoff = 0
    Deadline = 1
    MaxTasks = 3
    MaxTime = 4
    MaxCrashes = 1
    MaxSignals = 0
    DayLength = 3
    Transition = 3
    OffsetBefore = 2
    OffsetAfter = 1
INVARIANTS
    TypeOK
    AttemptsBounded
    OncePerDay
    ScheduledWorkPresent
