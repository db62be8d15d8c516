CONSTANTS
    Runs = {first}
    Free = Free
    Touches = FALSE
    MaxTime = 3
    MaxCommits = 2
    MaxFaults = 0
SPECIFICATION FairSpec
PROPERTIES
    InSync
CHECK_DEADLOCK FALSE
