SPECIFICATION FairSpec
CONSTANTS
    Half = 5
    WSize = 3
    MinSeq = 7
    MaxSeq = 11
    MaxEvents = 2
INVARIANTS TypeOK InOrder QueueInWindow PendingHasTimer
PROPERTIES WindowAdvances DeliverySpec FrameLeaves RxReturns
CHECK_DEADLOCK FALSE
