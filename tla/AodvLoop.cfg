CONSTANTS
  Node = {"a", "b", "c", "d"}
  None = "none"
  RreqRetries = 1
  TtlStart = 3
  TtlIncrement = 2
  TtlThreshold = 2
  NetDiameter = 3
  RreqRateLimit = 10
  MaxQueueLen = 2
  GratuitousReply = TRUE
  DestinationOnly = FALSE
  DefaultTtl = 4
  Links <- Kite
  Message = {"m1", "m2"}
  source <- BothToD_source
  target <- BothToD_target
  Hellos = {}
  Patient = TRUE
  MaxFaults = 2
SPECIFICATION Spec
INVARIANTS NoLoop
CHECK_DEADLOCK FALSE
