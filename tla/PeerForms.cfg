SPECIFICATION TimelySpec
CONSTANTS
  a = a
  b = b
  c = c
  Iface <- PairIface
  MeshPoint <- PairIface
  mp <- PairMp
  Hears <- PairHears
  Beaconing <- PairIface
  Compatible <- PairHears
  MaxNumberOfPeerLinks = 2
  LinkIdModulus = 65536
  MaxLinkId <- Plenty
  QueueLimit = 4
  MaxData = 0
  MaxRetries = 1
  MaxPacketFailure = 2
  MaxFaults = 3
PROPERTY LinkForms
