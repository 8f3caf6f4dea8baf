CONSTANTS
  Node = {"a", "b", "c", "d", "e"}
  None = "none"
  RreqRetries = 2
  TtlStart = 3
  TtlIncrement = 2
  TtlThreshold = 2
  NetDiameter = 3
  RreqRateLimit = 1
  MaxQueueLen = 2
  GratuitousReply = TRUE
  DestinationOnly = FALSE
  DefaultTtl = 4
  Links <- Line4
  Message = {"m1", "m2", "m3"}
  source <- CrossingAndE_source
  target <- CrossingAndE_target
  Hellos = {}
  Patient = TRUE
  MaxFaults = 0
SPECIFICATION FairSpec
PROPERTIES EventuallyDelivered PacketsLeave
CHECK_DEADLOCK FALSE
