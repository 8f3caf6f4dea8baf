SPECIFICATION FairSpec
CONSTANTS
  a = a
  b = b
  a2 = a2
  b2 = b2
  Iface <- PairIface
  MeshPoint <- PairIface
  mp <- PairMp
  Hears <- PairHears
  Beaconing <- OnlyB
  Compatible <- PairHears
  MaxNumberOfPeerLinks = 1
  LinkIdModulus = 65536
  MaxLinkId <- TwoOne
  QueueLimit = 1
  MaxData = 1
  MaxRetries = 1
  MaxPacketFailure = 2
CHECK_DEADLOCK FALSE
PROPERTIES HandshakeEnds ImplementsLinkService
