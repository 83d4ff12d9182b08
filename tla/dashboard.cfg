SPECIFICATION FairSpec
CONSTANTS
    Results = {"success"}
    MaxRuns = 2
    MaxPolls = 2
    MaxFailures = 1
INVARIANTS
    TypeOK
    RestsOnTheEnd
PROPERTY EndIsShown
CHECK_DEADLOCK FALSE
