SPECIFICATION Spec
CONSTANTS
    MaxRoam = 2
    RoamSize = 4
    RetryLimit = 1
    ChNum = 1
    MaxEvents = 1
CHECK_DEADLOCK FALSE
INVARIANT NoDeadlock
