CONSTANTS
    MaxChanges = 3
    MaxFailures = 0
SPECIFICATION Spec
INVARIANTS
    ListenerNeedsDatabase
CHECK_DEADLOCK FALSE
