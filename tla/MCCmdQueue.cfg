SPECIFICATION FairSpec
CONSTANTS
    c1 = c1
    c2 = c2
    Cmds = {c1, c2}
    NoCmd = NoCmd
    Ways <- MCWays
    MaxStarts = 2
    MaxFaults = 1
INVARIANTS TypeOK StackSafe DetachSafe NoLostWakeup StopQuiesces
PROPERTIES CommandSpec CommandLeaves StopReturns
CHECK_DEADLOCK FALSE
