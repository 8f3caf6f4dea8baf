SPECIFICATION Spec
CONSTANTS
  a = a
  b = b
  a2 = a2
  b2 = b2
  Iface <- DualIface
  MeshPoint <- PairIface
  mp <- DualMp
  Hears <- DualHears
  Beaconing <- AllButB2
  Compatible <- OneWay
  MaxNumberOfPeerLinks = 2
  LinkIdModulus = 65536
  MaxLinkId <- TwoOne
  QueueLimit = 2
  MaxData = 0
  MaxRetries = 1
  MaxPacketFailure = 1
CHECK_DEADLOCK FALSE
INVARIANTS TypeOK LinksCounted TimersMatchState HandshakeInv HandshakeComplete IdsAgree EstablishedIsCompatible
