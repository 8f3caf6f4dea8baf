CONSTANTS
  Station = {"a", "b", "c", "d", "e", "f"}
  NoHop = "none"
  Gain <- Gains
  Noise = 1
  NTxPower = 2
  PowerAt <- PowerOf
  Threshold <- SnrOf
  TopMcs = 1
  ObssPdLevel = 10
  Flows <- Talk
  hops <- Hops
  DefaultLevel = 1
  ObssPdLevelMin = 4
  ObssPdLevelMax = 40
  ReducedPower = 1
  learnt <- Losses
  Preamble = 2
  Unit = 2
  TimeModulus = 512
  MaxFrames <- Frames
  MaxFaults = 1
  MaxTime = 9
SPECIFICATION Spec
INVARIANTS TypeOK OngoingRecorded OngoingSpared RestrictionEnds
PROPERTIES RestrictionUsed EndedForgotten
CHECK_DEADLOCK FALSE
