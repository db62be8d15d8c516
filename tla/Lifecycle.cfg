CONSTANTS
    MaxChanges = 4
    MaxFailures = 2
SPECIFICATION FairSpec
INVARIANTS
    LifecycleTypeOK
    ListensWithDatabase
    BehindIsExplained
PROPERTIES
    ObservableBuild
    ServesAgain
    StopEnds
    RefreshedUnlessStuck
CHECK_DEADLOCK FALSE
