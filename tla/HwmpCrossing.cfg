CONSTANTS
  Node = {"a", "b", "c", "d"}
  None = "none"
  MaxTtl = 4
  MaxRetries = 2
  MaxQueueSize = 1
  DoFlag = FALSE
  RfFlag = TRUE
  Links <- Kite
  Message = {"m1", "m2", "m3"}
  source <- Crossing_source
  target <- Crossing_target
  RootNodes = {}
  Patient = TRUE
  MaxFaults = 0
SPECIFICATION FairSpec
PROPERTIES EventuallyDelivered
CHECK_DEADLOCK FALSE
