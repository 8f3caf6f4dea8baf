CONSTANTS
  Node = {"a", "b", "c", "d"}
  None = "none"
  RreqRetries = 1
  TtlStart = 1
  TtlIncrement = 2
  TtlThreshold = 2
  NetDiameter = 3
  RreqRateLimit = 10
  MaxQueueLen = 1
  GratuitousReply = TRUE
  DestinationOnly = FALSE
  DefaultTtl = 4
  Links <- Kite
  Message = {"m1", "m2"}
  source <- BothToD_source
  target <- BothToD_target
  Hellos = {"d"}
  Patient = TRUE
  MaxFaults = 1
SPECIFICATION Spec
INVARIANTS TypeOK SeqNoOwned PacketsWait SearchesWait OneCopy
PROPERTIES ImplementsDelivery
CHECK_DEADLOCK FALSE
