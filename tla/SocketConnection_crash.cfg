CONSTANTS
    MaxTimers = 7
SPECIFICATION Spec
INVARIANTS TimersOnlyReconnect
CHECK_DEADLOCK FALSE
