SPECIFICATION Spec
CONSTANTS
    c1 = c1
    c2 = c2
    Caller = {c1, c2}
    MaxRuns = 1
    MaxPushes = 0
    MaxRestarts = 0
    MaxFaults = 0
    MaxThreadFaults = 1
    NoCommit = NoCommit
INVARIANT RefusedOnlyDuringDeploy
CHECK_DEADLOCK FALSE
