--------------------------- MODULE PeerManagement ---------------------------
(***************************************************************************)
(* Mesh peering management: PeerManagementProtocol and its MAC plug-in     *)
(* (src/src/mesh/model/dot11s/peer-management-protocol{,-mac}.cc) on       *)
(* several mesh points that talk over a lossy radio.                       *)
(*                                                                         *)
(* links[i][j] is the PeerLink that interface i keeps for the interface j  *)
(* of another mesh point. FindPeerLink deletes an IDLE link as soon as it  *)
(* meets one, so "no link" and "an IDLE link" are one value, NoLink.       *)
(*                                                                         *)
(* air[i][j] is the MAC queue of i towards j. The MAC retransmits the head *)
(* of the queue until it is acknowledged or given up, and filters          *)
(* duplicates: frames arrive in order and at most once, but the sender may *)
(* be told that a frame failed which the receiver has processed.           *)
(***************************************************************************)
EXTENDS PeerLink, FiniteSets

CONSTANTS
  Iface,          \* the mesh interfaces of the network
  MeshPoint,      \* the mesh points
  mp,             \* mp[i]: the mesh point that owns interface i
  Hears,          \* <<i, j>>: i is in the radio range of j
  Beaconing,      \* the interfaces with BeaconGeneration enabled
  Compatible,     \* <<i, j>>: j supports the basic rates of i
  MaxNumberOfPeerLinks,
  LinkIdModulus,  \* link ids are counted modulo this (65536)
  MaxLinkId,      \* bound: mesh point m creates links up to id MaxLinkId[m]
  QueueLimit,     \* bound: frames the MAC queues for one peer
  MaxData         \* bound: data frames queued for one peer

ASSUME NetworkAssumption ==
  /\ IsFiniteSet(Iface)
  /\ mp \in [Iface -> MeshPoint]
  /\ Hears \subseteq Iface \X Iface
  /\ Beaconing \subseteq Iface
ASSUME BoundsAssumption ==
  /\ MaxNumberOfPeerLinks \in Nat
  /\ LinkIdModulus \in Nat \ {0, 1}
  /\ MaxLinkId \in [MeshPoint -> Nat]
  /\ QueueLimit \in Nat
  /\ MaxData \in Nat

VARIABLES
  links,            \* m_peerLinks
  linksTotal,       \* m_stats.linksTotal
  lastLocalLinkId,  \* m_lastLocalLinkId
  air,              \* management frames queued in the MAC
  data,             \* data frames queued in the MAC
  confirmed         \* history: the id pairs of the Confirms i issued for j

linkVars == <<links, linksTotal, lastLocalLinkId, confirmed>>
vars == <<links, linksTotal, lastLocalLinkId, air, data, confirmed>>

NoLink == NewLink(Unknown)

Exists(i, j) == links[i][j].state # "IDLE"
IsActiveLink(i, j) == links[i][j].state = "ESTAB"

Init ==
  /\ links = [i \in Iface |-> [j \in Iface |-> NoLink]]
  /\ linksTotal = [m \in MeshPoint |-> 0]
  /\ lastLocalLinkId = [m \in MeshPoint |-> 1]
  /\ air = [i \in Iface |-> [j \in Iface |-> << >>]]
  /\ data = [i \in Iface |-> [j \in Iface |-> 0]]
  /\ confirmed = [i \in Iface |-> [j \in Iface |-> {}]]

-----------------------------------------------------------------------------
(* Helpers: what a transition of one link does to the mesh point's state.  *)

\* A link that becomes IDLE is erased: PeerLinkStatus looks for it then.
Put(i, j, link) ==
  links' = [links EXCEPT ![i][j] = IF link.state = "IDLE" THEN NoLink ELSE link]

\* PeerLinkStatus counts the established links, from what it is told of them.
PeerLinkStatus(i, told) ==
  LET ostate == told[1]
      nstate == told[2]
  IN  linksTotal' = [linksTotal EXCEPT ![mp[i]] =
        CASE nstate = "ESTAB" /\ ostate # "ESTAB" -> @ + 1
          [] ostate = "ESTAB" /\ nstate # "ESTAB" -> @ - 1
          [] OTHER                                -> @]

\* The MAC queue drops the newest frames when they do not fit.
Fitting(queue, frames) ==
  IF Len(queue) + Len(frames) <= QueueLimit THEN Len(frames)
                                            ELSE QueueLimit - Len(queue)
Enqueue(queue, frames) ==
  queue \o [k \in 1..Fitting(queue, frames) |->
              [frame |-> frames[k], received |-> FALSE]]

\* The ids <<mine, the peer's>> in the Confirms among the frames of a result.
Confirms(frames) ==
  {<<frames[k].local, frames[k].peer>> :
     k \in {n \in 1..Len(frames) : frames[n].type = "Confirm"}}

\* Commit the result of a PeerLink method; base is what else happens in the air.
Commit(i, j, result, base) ==
  /\ Put(i, j, result.link)
  /\ PeerLinkStatus(i, result.told)
  /\ air' = [base EXCEPT ![i][j] = Enqueue(@, result.sent)]
  /\ confirmed' = [confirmed EXCEPT ![i][j] = @ \cup Confirms(result.sent)]

\* InitiateLink: a new link takes the next local link id.
MayInitiate(i) == lastLocalLinkId[mp[i]] <= MaxLinkId[mp[i]]
FreshLink(i) == NewLink(lastLocalLinkId[mp[i]])
TakeLinkId(i) ==
  lastLocalLinkId' = [lastLocalLinkId EXCEPT ![mp[i]] = (@ + 1) % LinkIdModulus]

\* The link that an Open from j meets: FindPeerLink, else InitiateLink.
LinkForOpen(i, j) == IF Exists(i, j) THEN links[i][j] ELSE FreshLink(i)
MayMeetOpen(i, j) == Exists(i, j) \/ MayInitiate(i)
TakeLinkIdForOpen(i, j) ==
  IF Exists(i, j) THEN UNCHANGED lastLocalLinkId ELSE TakeLinkId(i)

ShouldSendOpen(i) == linksTotal[mp[i]] < MaxNumberOfPeerLinks
ShouldAcceptOpen(i) == linksTotal[mp[i]] < MaxNumberOfPeerLinks

-----------------------------------------------------------------------------
(* Beacons.                                                                *)

\* i hears a beacon of j, which is not one of i's own interfaces.
HearsBeacon(i, j) == j \in Beaconing /\ <<i, j>> \in Hears /\ mp[i] # mp[j]

BeaconOpensLink(i, j) ==
  /\ HearsBeacon(i, j)
  /\ ~Exists(i, j)
  /\ ShouldSendOpen(i)
  /\ MayInitiate(i)
  /\ TakeLinkId(i)
  /\ LET opened == StateMachine(FreshLink(i), "ACTOPN")
     IN  Commit(i, j, [opened EXCEPT !.link = HearBeacon(@)], air)
  /\ UNCHANGED data

BeaconRefreshesLink(i, j) ==
  /\ HearsBeacon(i, j)
  /\ Exists(i, j)
  /\ links' = [links EXCEPT ![i][j] = HearBeacon(@)]
  /\ UNCHANGED <<linksTotal, lastLocalLinkId, air, data, confirmed>>

ReceiveBeacon(i, j) == BeaconOpensLink(i, j) \/ BeaconRefreshesLink(i, j)

-----------------------------------------------------------------------------
(* Peer link frames: PeerManagementProtocolMac::Receive and                *)
(* ReceivePeerLinkFrame. i receives the frame at the head of j's queue.    *)

Arrives(i, j, type) ==
  /\ <<i, j>> \in Hears
  /\ air[j][i] # << >>
  /\ ~Head(air[j][i]).received
  /\ Head(air[j][i]).frame.type = type

Arriving(i, j) == Head(air[j][i]).frame

Received(i, j) == [air EXCEPT ![j][i][1].received = TRUE]

\* Unsupported rates: ConfigurationMismatch cancels the link, if there is one.
ReceiveMismatch(i, j) ==
  /\ Arrives(i, j, "Open") \/ Arrives(i, j, "Confirm")
  /\ <<i, j>> \notin Compatible
  /\ IF Exists(i, j)
     THEN Commit(i, j, StateMachine(links[i][j], "CNCL"), Received(i, j))
     ELSE air' = Received(i, j) /\ UNCHANGED <<links, linksTotal, confirmed>>
  /\ UNCHANGED <<lastLocalLinkId, data>>

\* Mutant of AcceptOpen: the rates of the peer are not checked.
AcceptOpenUnchecked(i, j) ==
  /\ Arrives(i, j, "Open")
  /\ ShouldAcceptOpen(i)
  /\ MayMeetOpen(i, j)
  /\ TakeLinkIdForOpen(i, j)
  /\ Commit(i, j, OpenAccept(LinkForOpen(i, j), Arriving(i, j).local),
            Received(i, j))
  /\ UNCHANGED data

AcceptOpen(i, j) ==
  /\ Arrives(i, j, "Open")
  /\ <<i, j>> \in Compatible
  /\ ShouldAcceptOpen(i)
  /\ MayMeetOpen(i, j)
  /\ TakeLinkIdForOpen(i, j)
  /\ Commit(i, j, OpenAccept(LinkForOpen(i, j), Arriving(i, j).local),
            Received(i, j))
  /\ UNCHANGED data

RejectOpen(i, j) ==
  /\ Arrives(i, j, "Open")
  /\ <<i, j>> \in Compatible
  /\ ~ShouldAcceptOpen(i)
  /\ MayMeetOpen(i, j)
  /\ TakeLinkIdForOpen(i, j)
  /\ Commit(i, j, OpenReject(LinkForOpen(i, j), Arriving(i, j).local),
            Received(i, j))
  /\ UNCHANGED data

ReceiveConfirm(i, j) ==
  /\ Arrives(i, j, "Confirm")
  /\ <<i, j>> \in Compatible
  /\ Exists(i, j)
  /\ Commit(i, j, ConfirmAccept(links[i][j], Arriving(i, j).local,
                                Arriving(i, j).peer), Received(i, j))
  /\ UNCHANGED <<lastLocalLinkId, data>>

ReceiveClose(i, j) ==
  /\ Arrives(i, j, "Close")
  /\ Exists(i, j)
  /\ Commit(i, j, Close(links[i][j], Arriving(i, j).local,
                        Arriving(i, j).peer), Received(i, j))
  /\ UNCHANGED <<lastLocalLinkId, data>>

\* A Confirm or a Close that no link waits for is ignored.
ReceiveStray(i, j) ==
  /\ Arrives(i, j, "Close") \/ (Arrives(i, j, "Confirm") /\ <<i, j>> \in Compatible)
  /\ ~Exists(i, j)
  /\ air' = Received(i, j)
  /\ UNCHANGED <<linkVars, data>>

ReceivePeerLinkFrame(i, j) ==
  \/ ReceiveMismatch(i, j)
  \/ AcceptOpen(i, j)
  \/ RejectOpen(i, j)
  \/ ReceiveConfirm(i, j)
  \/ ReceiveClose(i, j)
  \/ ReceiveStray(i, j)

-----------------------------------------------------------------------------
(* The MAC reports the fate of i's frame to j (TxOk, TxError). A success   *)
(* is only reported of a frame that the receiver got and whose             *)
(* acknowledgement i can hear; a failure of any frame.                     *)

Sent(i, j) == [air EXCEPT ![i][j] = Tail(@)]

\* FindPeerLink, then the method, if there is a link.
OnLink(i, j, result, base) ==
  /\ IF Exists(i, j)
     THEN Commit(i, j, result, base)
     ELSE air' = base /\ UNCHANGED <<links, linksTotal, confirmed>>
  /\ UNCHANGED lastLocalLinkId

TxOk(i, j) ==
  /\ <<i, j>> \in Hears
  /\ air[i][j] # << >>
  /\ Head(air[i][j]).received
  /\ OnLink(i, j, TransmissionSuccess(links[i][j]), Sent(i, j))
  /\ UNCHANGED data

TxError(i, j) ==
  /\ air[i][j] # << >>
  /\ OnLink(i, j, TransmissionFailure(links[i][j]), Sent(i, j))
  /\ UNCHANGED data

\* UpdateOutcomingFrame lets a data frame through only on an active link.
SendData(i, j) ==
  /\ IsActiveLink(i, j)
  /\ data[i][j] < MaxData
  /\ data' = [data EXCEPT ![i][j] = @ + 1]
  /\ UNCHANGED <<linkVars, air>>

DataTxOk(i, j) ==
  /\ {<<i, j>>, <<j, i>>} \subseteq Hears
  /\ data[i][j] > 0
  /\ data' = [data EXCEPT ![i][j] = @ - 1]
  /\ OnLink(i, j, TransmissionSuccess(links[i][j]), air)

DataTxError(i, j) ==
  /\ data[i][j] > 0
  /\ data' = [data EXCEPT ![i][j] = @ - 1]
  /\ OnLink(i, j, TransmissionFailure(links[i][j]), air)

Transmit(i, j) ==
  \/ TxOk(i, j)
  \/ TxError(i, j)
  \/ SendData(i, j)
  \/ DataTxOk(i, j)
  \/ DataTxError(i, j)

-----------------------------------------------------------------------------
(* Timers.                                                                 *)

Pending(i, j, t) == t \in links[i][j].timers

Fire(i, j, result) ==
  /\ Commit(i, j, result, air)
  /\ UNCHANGED <<lastLocalLinkId, data>>

RetryTimer(i, j) ==
  Pending(i, j, "retry") /\ Fire(i, j, RetryTimeout(links[i][j]))

ConfirmTimer(i, j) ==
  Pending(i, j, "confirm") /\ Fire(i, j, ConfirmTimeout(links[i][j]))

HoldingTimer(i, j) ==
  Pending(i, j, "holding") /\ Fire(i, j, HoldingTimeout(links[i][j]))

BeaconTimer(i, j) ==
  Pending(i, j, "beacon") /\ Fire(i, j, BeaconLoss(links[i][j]))

HandshakeTimer(i, j) ==
  RetryTimer(i, j) \/ ConfirmTimer(i, j) \/ HoldingTimer(i, j)

-----------------------------------------------------------------------------
Next ==
  \E i, j \in Iface :
    \/ ReceiveBeacon(i, j)
    \/ ReceivePeerLinkFrame(i, j)
    \/ Transmit(i, j)
    \/ HandshakeTimer(i, j)
    \/ BeaconTimer(i, j)

Spec == Init /\ [][Next]_vars

\* The simulator runs every event whose time has come, and a timer that is
\* not cancelled is such an event.
TimersFire == \A i, j \in Iface : /\ WF_vars(RetryTimer(i, j))
                                  /\ WF_vars(ConfirmTimer(i, j))
                                  /\ WF_vars(HoldingTimer(i, j))

FairSpec == Spec /\ TimersFire

-----------------------------------------------------------------------------
(* Properties.                                                             *)

QueuedFrame == [frame: Frame, received: BOOLEAN]

TypeOK ==
  /\ links \in [Iface -> [Iface -> Link]]
  /\ linksTotal \in [MeshPoint -> Int]
  /\ lastLocalLinkId \in [MeshPoint -> Nat]
  /\ air \in [Iface -> [Iface -> Seq(QueuedFrame)]]
  /\ data \in [Iface -> [Iface -> Nat]]
  /\ confirmed \in [Iface -> [Iface -> SUBSET (Nat \X Nat)]]

\* The counter that caps the number of peers, and that every management frame
\* advertises, is the number of links that are established, over all the
\* interfaces of the mesh point: each of the 25 pairs of states that the cases of
\* StateMachine report by hand tells PeerLinkStatus of a move into or out of ESTAB
\* when there is one, and of none when there is none.
Pair == Iface \X Iface
ActiveLinks(m) == {p \in Pair : mp[p[1]] = m /\ IsActiveLink(p[1], p[2])}
LinksCounted == \A m \in MeshPoint : linksTotal[m] = Cardinality(ActiveLinks(m))

\* Whatever path a link took through the state machine, a handshake that waits
\* has its retry or confirm timer pending, a link that is being torn down has
\* its holding timer pending, and no other state has a timer left over that
\* could disturb it (StateMachine sets and clears each timer at ten places).
TimersMatch(l) ==
  /\ "retry" \in l.timers <=> l.state \in {"OPN_SNT", "OPN_RCVD"}
  /\ "confirm" \in l.timers <=> l.state = "CNF_RCVD"
  /\ "holding" \in l.timers <=> l.state = "HOLDING"
TimersMatchState == \A i, j \in Iface : TimersMatch(links[i][j])

\* A link is established only after a full handshake of its own instance: the
\* peer has confirmed the Open that carried my current link id, and I have
\* confirmed an Open of the peer on behalf of that id. Stale frames of earlier
\* instances never complete a handshake.
HandshakeComplete ==
  \A i, j \in Iface :
    IsActiveLink(i, j) =>
      /\ \E ids \in confirmed[j][i] : ids[2] = links[i][j].localId
      /\ \E ids \in confirmed[i][j] : ids[1] = links[i][j].localId

\* Why HandshakeComplete holds, as an inductive invariant: a Confirm in the air
\* was issued by the station it comes from; a link past its peer's Confirm was
\* confirmed by the peer, a link past the peer's Open has issued a Confirm; and
\* a station confirms compatible peers only.
PeerConfirmed(i, j, l) == \E ids \in confirmed[j][i] : ids[2] = l.localId
HasConfirmed(l, issued) == \E ids \in issued : ids[1] = l.localId

HandshakeInv ==
  \A i, j \in Iface :
    /\ \A k \in 1..Len(air[i][j]) :
         air[i][j][k].frame.type = "Confirm" =>
           <<air[i][j][k].frame.local, air[i][j][k].frame.peer>> \in confirmed[i][j]
    /\ links[i][j].state \in {"CNF_RCVD", "ESTAB"} => PeerConfirmed(i, j, links[i][j])
    /\ links[i][j].state \in {"OPN_RCVD", "ESTAB"} =>
         HasConfirmed(links[i][j], confirmed[i][j])
    /\ confirmed[i][j] # {} => <<i, j>> \in Compatible

\* Two stations that both hold the link established agree on its two ids, so a
\* Close from either is accepted by the other.
IdsAgree ==
  \A i, j \in Iface :
    IsActiveLink(i, j) /\ IsActiveLink(j, i) =>
      links[i][j].peerId = links[j][i].localId

\* A link is established only if each station supports the basic rates of the
\* other, although each checks one direction only.
EstablishedIsCompatible ==
  \A i, j \in Iface :
    IsActiveLink(i, j) => {<<i, j>>, <<j, i>>} \subseteq Compatible

\* A handshake ends: with a link or with none, whatever frames are lost.
HandshakeEnds ==
  \A i, j \in Iface :
    links[i][j].state \in {"OPN_SNT", "OPN_RCVD", "CNF_RCVD", "HOLDING"}
      ~> links[i][j].state \in {"IDLE", "ESTAB"}

\* The abstract view of a link: its phase, and its own id while it has one.
Session(l) ==
  IF l.state = "IDLE"
  THEN [phase |-> "none", id |-> Unknown]
  ELSE [phase |-> CASE l.state = "ESTAB"   -> "up"
                    [] l.state = "HOLDING" -> "down"
                    [] OTHER               -> "trying",
        id    |-> l.localId]

Service == INSTANCE LinkService WITH
  NoId    <- Unknown,
  session <- [i \in Iface |-> [j \in Iface |-> Session(links[i][j])]],
  used    <- [m \in MeshPoint |-> 0..(lastLocalLinkId[m] - 1)]

\* Peering management implements LinkService: whatever is lost, refused, late or
\* torn down, a session has a fresh id, comes up only after both ends confirmed
\* it, at most once, and never again after it went down. StateMachine and the id
\* checks of the methods work together for this.
ImplementsLinkService == Service!Spec

\* Link ids do not wrap around.
IdsLast == \A m \in MeshPoint : MaxLinkId[m] + 1 < LinkIdModulus

\* "Maximum number of peer links" (peer-management-protocol.cc:57).
LinksCapped == \A m \in MeshPoint : linksTotal[m] <= MaxNumberOfPeerLinks
=============================================================================
