CONSTANTS
  Node = {"a", "b", "c", "d"}
  None = "none"
  MaxTtl = 4
  MaxRetries = 2
  MaxQueueSize = 1
  DoFlag = FALSE
  RfFlag = TRUE
  Links <- Line4
  Message = {"m1", "m2"}
  source <- Overlap_source
  target <- Overlap_target
  RootNodes = {}
  Patient = TRUE
  MaxFaults = 0
SPECIFICATION Spec
INVARIANTS SeqNoOwned
CHECK_DEADLOCK FALSE
