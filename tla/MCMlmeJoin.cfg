SPECIFICATION FairSpec
CONSTANTS
    MaxRoam = 1
    RoamSize = 3
    RetryLimit = 1
    ChNum = 1
    MaxEvents = 3
CHECK_DEADLOCK FALSE
INVARIANTS TypeOK LinkingGuarded ScanNotForgotten RoamBounded ConnectionDriven
PROPERTIES ScanEnds ConnectionSettles
