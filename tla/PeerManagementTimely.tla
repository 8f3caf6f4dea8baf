------------------------ MODULE PeerManagementTimely ------------------------
(***************************************************************************)
(* Peering management when the radio misbehaves a bounded number of times  *)
(* and the three time scales of the code are apart: a frame takes a few    *)
(* milliseconds, the retry, confirm and holding timeouts of a peer link    *)
(* are 40 TU, and the beacon interval is 0.5 s. So a timer only expires   *)
(* when nothing is in the air between the two stations, and a station      *)
(* beacons once in a beacon period, at any point of it, which lasts until  *)
(* every handshake timer has expired or been cancelled.                    *)
(***************************************************************************)
EXTENDS PeerManagement

CONSTANT MaxFaults   \* bound: frames reported lost and beacons missed

ASSUME MaxFaultsAssumption == MaxFaults \in Nat

VARIABLES faults,
          heard     \* the pairs <<i, j>>: i heard j's beacon of this period

timelyVars == <<vars, faults, heard>>

TimelyInit == Init /\ faults = 0 /\ heard = {}

Fault(i, j) ==
  /\ faults < MaxFaults
  /\ faults' = faults + 1
  /\ TxError(i, j) \/ BeaconTimer(i, j)
  /\ UNCHANGED heard

Quiet(i, j) == air[i][j] = << >> /\ air[j][i] = << >>

Timeout(i, j) ==
  Quiet(i, j) /\ HandshakeTimer(i, j) /\ UNCHANGED <<faults, heard>>

HearsPeer(i, j) ==
  /\ <<i, j>> \notin heard
  /\ ReceiveBeacon(i, j)
  /\ heard' = heard \cup {<<i, j>>}
  /\ UNCHANGED faults

Receives(i, j) == ReceivePeerLinkFrame(i, j) /\ UNCHANGED <<faults, heard>>

Acknowledged(i, j) == TxOk(i, j) /\ UNCHANGED <<faults, heard>>

NewPeriod ==
  /\ heard # {}
  /\ \A p \in Pair : Quiet(p[1], p[2]) /\ links[p[1]][p[2]].timers \subseteq {"beacon"}
  /\ heard' = {}
  /\ UNCHANGED <<vars, faults>>

TimelyNext ==
  \/ NewPeriod
  \/ \E i, j \in Iface : \/ Fault(i, j)
                          \/ Timeout(i, j)
                          \/ HearsPeer(i, j)
                          \/ Receives(i, j)
                          \/ Acknowledged(i, j)

\* Beacons are sent for ever, frames in the air are received and acknowledged,
\* and pending timers expire.
TimelySpec ==
  /\ TimelyInit
  /\ [][TimelyNext]_timelyVars
  /\ WF_timelyVars(NewPeriod)
  /\ \A i, j \in Iface :
       /\ WF_timelyVars(HearsPeer(i, j))
       /\ WF_timelyVars(Receives(i, j))
       /\ WF_timelyVars(Acknowledged(i, j))
       /\ WF_timelyVars(Timeout(i, j))

\* Once the radio behaves, two stations in range of each other end up with the
\* link established at both ends, for good, whatever half-open or one-sided
\* state the faults left them in.
Neighbours == {p \in Pair : {p, <<p[2], p[1]>>} \subseteq Hears /\ mp[p[1]] # mp[p[2]]}
LinkForms ==
  <>[](\A p \in Neighbours : IsActiveLink(p[1], p[2]))
=============================================================================
