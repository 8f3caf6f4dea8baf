CONSTANTS
  Node = {"a", "b", "c", "d"}
  None = "none"
  All = "all"
  Message = {"m1", "m2"}
  Update = "update"
  MaxCost = 3
  Links <- Kite
  source <- Talk_source
  target <- Talk_target
  MaxFaults = 2
  MaxTicks = 1
  MaxSeqNo = 9
SPECIFICATION FairSpec
INVARIANTS TypeOK PathsDescend NoLoop DeliveredOnce
PROPERTY EventuallyDelivered
CHECK_DEADLOCK FALSE
