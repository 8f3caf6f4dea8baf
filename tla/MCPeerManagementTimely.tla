----------------------- MODULE MCPeerManagementTimely -----------------------
(* Instances of PeerManagementTimely for TLC. *)
EXTENDS PeerManagementTimely, TLC

CONSTANTS a, b, c

PairIface == {a, b}
PairMp == a :> a @@ b :> b
PairHears == {<<a, b>>, <<b, a>>}

\* b is in range of a and of c, which do not hear each other.
StarIface == {a, b, c}
StarMp == a :> a @@ b :> b @@ c :> c
StarHears == {<<a, b>>, <<b, a>>, <<b, c>>, <<c, b>>}
StarLinkIds == a :> 1 @@ b :> 2 @@ c :> 1

\* More links than the faults can cause.
Plenty == a :> 9 @@ b :> 9
=============================================================================
