SPECIFICATION Spec
CONSTANTS
    c1 = c1
    c2 = c2
    Client = {}
    Item <- MCItem
    Request <- OneRequest
    Leftover <- NothingLeft
    Registry <- MCRegistry
    Malformed <- MCMalformed
    Jobs <- GapJob
    NoPayload = "none"
    MaxAttempts = 1
    Backoff = 0
    Deadline = 0
    MaxTasks = 3
    MaxTime = 4
    MaxCrashes = 0
    MaxSignals = 0
    DayLength = 6
    Transition = 1
    OffsetBefore = 1
    OffsetAfter = 3
INVARIANT OncePerDay
