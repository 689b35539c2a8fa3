SPECIFICATION Spec
CONSTANTS
    Stas = {s1, s2}
    Bmc = bmc
    None = none
    SMP = FALSE
    LenMod = 8
    MaxFrames = 2
    MaxEvents = 3
    MaxFaults = 1
SYMMETRY Symmetry
CHECK_DEADLOCK FALSE
INVARIANTS TypeOK LenCounts TimShown NoneToDozing DzMatches
PROPERTY LineSpec
