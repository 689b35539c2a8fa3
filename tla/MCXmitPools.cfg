SPECIFICATION FairSpec
CONSTANTS
  Sta = {s1, s2}
  NoSta = NoSta
  Inx <- MCInx
  Classes <- MCClasses
  NrXmitFrame = 3
  NrXmitBuff = 2
  StopLevel = 1
  WmmThreshold = 1
  MaxPkts = 3
  MaxScans = 1
INVARIANTS TypeOK PoolsBalanced StationListed PendingDriven StoppedHasPacket
PROPERTIES QueueWakes PendingDrains
CHECK_DEADLOCK FALSE
