CONSTANTS
    MaxChanges = 1
    MaxFailures = 0
SPECIFICATION FairSpec
PROPERTIES
    SignalExitsWith0
CHECK_DEADLOCK FALSE
