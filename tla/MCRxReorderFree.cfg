SPECIFICATION Spec
CONSTANTS
    Half = 3
    WSize = 2
    MinSeq = 0
    MaxSeq = 5
    MaxEvents = 3
INVARIANTS FreedIsQuiet
CHECK_DEADLOCK FALSE
