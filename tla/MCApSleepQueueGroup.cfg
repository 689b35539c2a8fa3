SPECIFICATION FairSpec
CONSTANTS
    Stas = {s1}
    Bmc = bmc
    None = none
    SMP = FALSE
    LenMod = 8
    MaxFrames = 2
    MaxEvents = 2
    MaxFaults = 0
CHECK_DEADLOCK FALSE
PROPERTY GroupFramesLeave
