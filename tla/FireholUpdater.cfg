CONSTANTS
    Runs = {first, tick}
    Free = Free
    Touches = TRUE
    MaxTime = 3
    MaxCommits = 2
    MaxFaults = 2
SPECIFICATION FairSpec
INVARIANTS
    UpdaterTypeOK
    NeverPartial
    OneCommitPerDatabase
    NoTempLeft
PROPERTIES
    OnlyForward
    KeepsOneDatabase
    NewerTipIsBuilt
CHECK_DEADLOCK FALSE
