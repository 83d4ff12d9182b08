SPECIFICATION Spec
CONSTANTS
    c1 = c1
    c2 = c2
    Client = {c1}
    Item <- MCItem
    Request <- OneRequest
    Leftover <- NothingLeft
    Registry <- MCRegistry
    Malformed <- MCMalformed
    Jobs <- NoJobs
    NoPayload = "none"
    MaxAttempts = 3
    Backoff = 1
    Deadline = 3
    MaxTasks = 2
    MaxTime = 2
    MaxCrashes = 0
    MaxSignals = 1
    DayLength = 3
    Transition = 0
    OffsetBefore = 0
    OffsetAfter = 0
INVARIANT DeadLetterOnlyWhenSpent
