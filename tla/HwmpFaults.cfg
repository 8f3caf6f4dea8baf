CONSTANTS
  Node = {"a", "b", "c"}
  None = "none"
  MaxTtl = 4
  MaxRetries = 1
  MaxQueueSize = 1
  DoFlag = FALSE
  RfFlag = TRUE
  Links <- Line3
  Message = {"m1"}
  source <- AtoC_source
  target <- AtoC_target
  RootNodes = {"b"}
  Patient = TRUE
  MaxFaults = 1
SPECIFICATION FairSpec
INVARIANTS TypeOK PacketsWait PathsUseLinks OneCopy
PROPERTIES PacketsLeave ImplementsDelivery
CHECK_DEADLOCK FALSE
