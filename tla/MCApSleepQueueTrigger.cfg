SPECIFICATION Spec
CONSTANTS
    Stas = {s1}
    Bmc = bmc
    None = none
    SMP = FALSE
    LenMod = 8
    MaxFrames = 1
    MaxEvents = 2
    MaxFaults = 0
CHECK_DEADLOCK FALSE
INVARIANT ServicePeriodEnds
