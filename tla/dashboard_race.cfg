SPECIFICATION Spec
CONSTANTS
    Results = {"success"}
    MaxRuns = 2
    MaxPolls = 2
    MaxFailures = 0
INVARIANT RestsOnEnded
CHECK_DEADLOCK FALSE
