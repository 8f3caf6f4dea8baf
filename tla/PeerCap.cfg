SPECIFICATION TimelySpec
CONSTANTS
  a = a
  b = b
  c = c
  Iface <- StarIface
  MeshPoint <- StarIface
  mp <- StarMp
  Hears <- StarHears
  Beaconing <- StarIface
  Compatible <- StarHears
  MaxNumberOfPeerLinks = 1
  LinkIdModulus = 65536
  MaxLinkId <- StarLinkIds
  QueueLimit = 2
  MaxData = 0
  MaxRetries = 0
  MaxPacketFailure = 1
  MaxFaults = 0
CHECK_DEADLOCK FALSE
INVARIANT LinksCapped
