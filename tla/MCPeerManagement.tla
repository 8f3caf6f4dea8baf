-------------------------- MODULE MCPeerManagement --------------------------
(* Instances of PeerManagement for TLC. *)
EXTENDS PeerManagement, TLC

CONSTANTS a, b, a2, b2

\* Two mesh points with one interface each.
PairIface == {a, b}
PairMp == a :> a @@ b :> b
PairHears == {<<a, b>>, <<b, a>>}

\* The same with two interfaces each, on two channels.
DualIface == {a, b, a2, b2}
DualMp == PairMp @@ a2 :> a @@ b2 :> b
DualHears == PairHears \cup {<<a2, b2>>, <<b2, a2>>}

\* On the second channel, a supports the basic rates of b, but not conversely.
OneWay == PairHears \cup {<<b2, a2>>}

\* How many links each mesh point may create.
TwoOne == a :> 2 @@ b :> 1

\* Only b sends beacons; or everyone but b on the second channel.
OnlyB == {b}
AllButB2 == {a, b, a2}
=============================================================================
