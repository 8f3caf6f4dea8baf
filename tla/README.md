# A TLA+ model of NS3-mesh

This directory models the distributed protocols of the repository: the code of
the simulated mesh stations, not the simulator that runs it. The repository is
a fork of ns-3 (about 3.30) with 802.11ax spatial reuse and mesh experiments on
top. What is at stake in it, and hard to test, is what several stations do to each
other when frames are lost, delayed, refused or repeated, when timers fire
between two frames and when tables expire under a running exchange.

## 1. Inventory

### 1.1 Protocol components

| Component | Source | State it keeps | Operations | Modules |
|---|---|---|---|---|
| 802.11s peer links | `src/mesh/model/dot11s/peer-link.cc`, `peer-management-protocol.cc`, `peer-management-protocol-mac.cc` | per interface a list of peer links: state, both link ids, retry and failure counters, four timers; per mesh point the link counter and the last link id | beacons, Open/Confirm/Close frames, transmission reports, timers | `PeerLink`, `PeerManagement`, `PeerManagementTimely`, `LinkService` |
| 802.11s HWMP | `src/mesh/model/dot11s/hwmp-protocol.cc`, `hwmp-rtable.cc`, `hwmp-protocol-mac.cc` | reactive and proactive paths, sequence numbers, a queue of data packets, rate limits, timers per destination | PREQ/PREP/PERR, forwarding, link breaks, proactive PREQs | `HwmpTable`, `HwmpNode`, `HwmpNetwork`, `Delivery` |
| FLAME | `src/mesh/model/flame/` | paths with expiry and cost, last sequence number per source | broadcast on first use, duplicate suppression, path updates | `FlameNode`, `FlameNetwork` |
| Mesh point and mesh MAC | `src/mesh/model/mesh-point-device.cc`, `mesh-wifi-interface-mac.cc` | interfaces, routing protocol; per interface the plug-ins, beacon schedule | send, forward, deliver; beacons, plug-in chain | inside the three above |
| AODV | `src/aodv/model/` | routing table, request cache, packet queue, neighbours, sequence number, request id, rate counters, timers | route discovery and retries, forwarding, RREP/RERR handling, hello | `AodvTable`, `AodvNode`, `AodvNetwork`, `Delivery` |
| Spatial reuse (OBSS-PD) | `src/wifi/model/mesh-obss-pd-algorithm.cc`, `obss-pd-algorithm.cc`, `obss-wifi-manager.cc`, and what `wifi-phy.cc` keeps for them | records of the transmissions heard, path losses, limits of power and rate; in the PHY the power restriction | end of an HE preamble, reset of the PHY, end of an ignored frame, access request, transmission | `ObssManager`, `SpatialReuse` |
| OLSR, DSDV | `src/olsr/model/`, `src/dsdv/model/` | link, neighbour, topology and routing tables | HELLO/TC/MID/HNA, updates | not modelled |

(Paths are relative to `src/` of the repository.)

### 1.2 How they interact

`MeshPointDevice` hands a packet to its routing protocol (HWMP or FLAME), which
asks for a route through a callback and sends through the interface's
`MeshWifiInterfaceMac`. That MAC passes every frame, in either direction,
through its plug-ins: the peer management plug-in drops data on links that are
not established, and turns beacons and self-protected action frames into calls
of `PeerManagementProtocol`; the HWMP plug-in does the same for path selection.
Peer management tells HWMP by a callback (`PeerLinkStatus`) that a link opened or
closed; HWMP asks it for the active peers. The MAC's trace sources `TxOk` and
`TxErr` feed both peer management (a run of failures closes a link) and HWMP
(a broken route). AODV runs above IP on any device; it gets link breaks from the
MAC's `TxErrHeader` trace and from missing hellos. The spatial reuse of a station
listens to its PHY and asks AODV for the next hop to the gateway.

Everything runs in one simulator thread: handlers are atomic. Concurrency is
between stations, and between the events scheduled on one station (timers,
receptions, transmission reports) whose order the medium decides.

### 1.3 What is hard, and what makes each part correct

* **Peer links.** Two stations run the same handshake towards each other with
  lost and stale frames and three timers each. Correct: an established link has
  had a handshake of its own instances, both ends agree on the link ids, the
  counter equals the established links, no timer is left over, a handshake ends,
  once the radio behaves the link forms; above it, links look like a simple
  service of sessions (`LinkService`).
* **AODV.** Requests flood and are answered from tables that expire; replies and
  errors race. Correct: no station believes a number its owner has not reached, a queued
  packet is sent or dropped, a discovery ends; above it, a packet is in one place, takes a
  bounded number of hops and arrives at most once (`Delivery`). Freedom from loops, which one
  expects first, does not hold (3.4).
* **HWMP.** As AODV, with metrics, a proactive tree, and peer management closing
  links below it at one end before the other. Correct: the same, and no path leads over a
  closed link.
* **FLAME.** Duplicate suppression by one counter per source. Correct: paths lead
  towards their destination, nothing is delivered twice, packets arrive.
* **Spatial reuse.** Each station decides from what it happened to hear. Correct:
  what is on the air is not forgotten and not disturbed, and the power restriction
  ends neither too early nor never.

### 1.4 State of the plan

Done: peer links with their proofs, their abstract service and the proof that it is
implemented; AODV, and HWMP over peer links that open and close, with proofs and with the
abstract service that both implement (`Delivery`); FLAME with proofs; spatial reuse with proofs. Left: HWMP composed with `PeerManagement`
itself instead of its service; OLSR.

`PROJECT.json` maps every definition that models code to its lines, lists for each
property a mutation of the model that breaks it, and keeps the hazards, with those that
no property covers. Definitions whose comment starts with "Mutant of" are these
mutations; no specification uses them. The lines mapped are a small share of the
repository: most of its Python is generated bindings (`modulegen__*.py`), and the
protocols are C++.

## 2. Peer link management

### 2.1 Modules

`PeerLink`: one `PeerLink` object as a record `[state, localId, peerId, retries,
fails, timers]`: `m_state`, `m_localLinkId`, `m_peerLinkId`, `m_retryCounter`,
`m_packetFail`, and the set of timers that are running. Each method is an
operator that returns the link after the call, the pair of states it told
`m_linkStatusCallback`, and the frames it sent, in order.
`StateMachine` has one operator per case of the code's outer `switch`; `Go` is
"enter a state, report, clear and set timers, send", `Hold` is the tear-down that ten
places of the code spell out. The pairs are written out where the code writes them out, some
twenty times, beside the assignment to the state and not derived from it.

`PeerManagement`: several mesh points. `links[i][j]` is the link that interface `i`
keeps for interface `j`; an IDLE link and no link are one value, because
`FindPeerLink` erases an IDLE link before anyone can see it. `linksTotal` is
`m_stats.linksTotal`, `lastLocalLinkId` the id counter. `air[i][j]` is the MAC
queue from `i` to `j`: in order and at most once, because the wifi MAC
retransmits the head and filters duplicates, but with unreliable reports: a
frame whose acknowledgement was lost has been received and is reported failed.
`confirmed` is a history variable: the pairs of ids that `i` put into Confirms.

Actions, with the handler each one models: `BeaconOpensLink`,
`BeaconRefreshesLink` (`ReceiveBeacon`), `ReceiveMismatch`
(`ConfigurationMismatch`), `AcceptOpen`, `RejectOpen`, `ReceiveConfirm`,
`ReceiveClose`, `ReceiveStray` (`ReceivePeerLinkFrame`), `TxOk`, `TxError`,
`DataTxOk`, `DataTxError` (`TransmissionSuccess`, `TransmissionFailure`),
`SendData` (`UpdateOutcomingFrame`), `RetryTimer`, `ConfirmTimer`,
`HoldingTimer`, `BeaconTimer`. Each is the whole handler: `Commit` stores the
link, calls `PeerLinkStatus`, which counts from the pair it is told and does not look at the
link, and queues the frames.

Time is abstract: a running timer may fire at any moment, so every race between
a timeout and a late answer is in the model, also those the default timeouts
make unlikely. All mesh points share one mesh id; the mesh id mismatch in the
code ends in the same `ConfigurationMismatch` as the rates mismatch.

`PeerManagementTimely`: the same actions when the radio misbehaves at most
`MaxFaults` times and the time scales are those of the default attributes: frames
take milliseconds, handshake timeouts 40 TU, beacons 0.5 s. Only there can a link be
promised to form.

`LinkService`: the abstract specification, what the routing protocol above may rely
on. A session of two interfaces is `none`, `trying`, `up` or `down`; it comes up only
when both ends have confirmed it, and a session that went down never comes up again.
`PeerManagement` implements it under the mapping IDLE to `none`; OPN_SNT, CNF_RCVD,
OPN_RCVD to `trying`; ESTAB to `up`; HOLDING to `down`; the id of a session is its
local link id (`ImplementsLinkService`).

### 2.2 Runs

| Run | Instance | Shows |
|---|---|---|
| `PeerPair` | two mesh points with two interfaces each on two channels, on the second of which only one direction of the rates is supported; two and one links | `TypeOK`, `LinksCounted`, `TimersMatchState`, `HandshakeInv`, `HandshakeComplete`, `IdsAgree`, `EstablishedIsCompatible` |
| `PeerEnds` | two interfaces, cap 1, data frames, fair timers | `HandshakeEnds`, `ImplementsLinkService` |
| `PeerForms` | two interfaces, three faults, fair radio | `LinkForms` |
| `PeerCap` (violation) | b between a and c, cap 1, a radio without faults | two links are established: `LinksCapped` fails |

Bounds. `MaxLinkId`: how many links a mesh point creates; two on one side are
enough for frames of an old instance to meet a new one. `QueueLimit`: frames
the MAC queues for one peer; a queue that is full drops the newest frame, which
the code's MAC may do too. `MaxRetries = 1` (default 4)
exercises the retry and the give-up branch. `MaxPacketFailure = 2` (the default)
exercises the counting and the tripping of the failure counter; `PeerPair` trips it
at the first failure, and one of its interfaces does not send beacons, to keep it
small. In `PeerPair` the two interfaces of a mesh point compete for its link ids and
count into one counter; a refused frame meets no link of the refusing end there, so that
the cancellation of an existing link by `ReceiveMismatch` is covered by the proof alone.
`MaxData = 1` in `PeerEnds`: one data frame per
direction, and a cap of one link, which the established link reaches. `PeerForms` has a cap
of two and one peer only, so that the cap plays no part in it. `PeerCap` needs no fault at all, which is why it runs under `TimelySpec`.

Deadlock is not checked in the runs with `MaxLinkId`: when the ids are used up
nothing more need happen. `PeerForms` checks it.

Fairness. `TimersFire`: the simulator executes every scheduled event that is
not cancelled, so a timer that stays pending fires. `TimelySpec` adds that
beacons go on, and that frames in the air are received and acknowledged, which is
what "the radio behaves" means; the faults are the bounded exception.

### 2.3 Findings and facts

* `PeerCap`: the maximum is compared with established links only, so concurrent
  handshakes exceed it (`peer-management-protocol.cc:368`, `:375`).
* The counter can only be as good as the pairs of states that `StateMachine` reports
  by hand. All of them are right (`LinksCounted`); the mutation of the property is the
  branch of ESTAB with the report of its neighbour in the source.
* At the maximum, a retransmitted Open of an established peer is refused, and the
  refusal closes the link (`peer-management-protocol.cc:375`, `peer-link.cc:570`). In `PeerEnds`,
  whose cap is one, this happens, and `HandshakeEnds` holds with it; whether links then
  form for good is not checked.

### 2.4 Proofs

`PeerManagement_proofs`, for every network, bound and attribute value, under
`NetworkAssumption`, `BoundsAssumption`, `MaxRetriesAssumption` and
`MaxPacketFailureAssumption`: `TypeCorrect`, `CountCorrect`, `TimersCorrect`,
`HandshakeCorrect`, `CompatibilityCorrect`, `InvariantCorrect`.

The inductive invariant is `TypeOK /\ LinksCounted /\ TimersMatchState /\
HandshakeInv`. `HandshakeComplete` alone is not inductive: nothing in it says
where a Confirm in the air comes from, or what a link in `CNF_RCVD` or
`OPN_RCVD` already knows. `HandshakeInv` says both, with the history
`confirmed`. The argument has three layers: every transition of the state
machine is `Proper` (one lemma per state), hence every method on a link that
satisfies the invariant is `Sound`, and committing a sound result preserves the
invariant (`CommitSound`), which settles each action. The counter needs one fact more of
every method: the pair it reports crosses the border of ESTAB exactly when the link does
(`StateMachineTruthful` and a lemma for each method that calls it). From that, and from nothing
that the counter itself looks at, `CountCorrect` follows.

`LinkService_proofs`: `ServiceImplemented`, the refinement, for every network and
bound, as long as link ids do not wrap (`IdsLast`). The same layers: what a method
returns for a link `Advances` it in the sense of the service and is `Sound`;
committing such a result is a step of the service or a stutter (`CommitServes` for an
existing link, `FreshServes` for a new one); each action follows.

`PeerIds_proofs`: `IdsAgreeCorrect`, that the two ends of an established link agree on its
ids, again as long as ids do not wrap. `HandshakeInv` does not give it: a station may have
confirmed several instances of its peer, and keeps the id it heard last. What is missing is
an order, `IdsInv`: of each ordered pair of stations, the ids one has heard of the other
(`Told`) are bounded by the ids still to be received from the queue, the ids in the queue do
not decrease, and all of them are bounded by the id of the other's present link; and in
`OPN_RCVD` and `ESTAB` the id a station keeps is the largest it has confirmed. If both ends
are established, the other's present id has been confirmed (`HandshakeInv`), so the id
kept is neither smaller nor larger. A step of i about j disturbs the order of two pairs
only: what i hears (`HearsOrdered`) and what it says (`SaysOrdered`); the rest is that every
method `Tells` its own id and `Learns` no id but the sender's. The proof uses that the MAC
delivers frames in order and at most once.

The liveness properties are model-checked only.

## 3. AODV

### 3.1 Modules

`AodvTable` is the class `RoutingTable`: a function from destinations to entries,
with the methods the protocol calls. `AodvNode` is the class `RoutingProtocol` of
one station with its queue, request cache and neighbours. A handler takes a *step*
(the station's address, its state, the frames it has handed to its device) and
returns the next one, so that a handler that calls another composes with it, and
the frames leave when the code sends them. `AodvNetwork` runs several stations.

| Code | Model |
|---|---|
| `m_routingTable`, `m_queue`, `m_nb` | `rt`, `queue`, `nb` |
| `m_rreqIdCache`, `m_requestId`, `m_seqNo` | `seen`, `requestId`, `seqNo` |
| `m_addressReqTimer` | `timers`: the destinations whose timer runs |
| `Simulator::Schedule (..., &SendRequest, dst)` at the rate limit | `delayed[dst]`: how many are pending |
| `m_rreqCount`, cleared once a second | `rreqCount`, `RateLimitTimer` |

| Action | Handler |
|---|---|
| `SendData` | `RouteOutput`, with `DeferredRouteOutput` when there is no route |
| `Receive` | `RouteInput` and what it calls: `Forwarding`, `RecvRequest`, `RecvReply`, `RecvError`, `RecvReplyAck` |
| `SendHello` | `SendHello` |
| `RetryTimer` | `RouteRequestTimerExpire` |
| `RateLimitTimer`, `DelayedRequest` | `RreqRateLimitTimerExpire`, the postponed `SendRequest` |
| `TxError`, `NeighborTimeout` | `Neighbors::ProcessTxError`, `Neighbors::Purge`, with `SendRerrWhenBreaksLinkToNextHop` |
| `RouteExpires`, `QueueTimeout` | `RoutingTable::Purge`, `RequestQueue::Purge` |
| `LinkBreaks` | mobility |

Replies, errors and acknowledgements are unicast IP packets of the station itself:
they are routed, queued and forwarded by the same code as data, and in the model by
the same operators. That is where several of the surprises come from.

`Delivery` is the abstract specification of AODV and of HWMP: what those who hand a packet to a
routing protocol may rely on, whatever is lost and wherever the routes lead. A packet is
`unsent`, `moving`, `delivered` or `lost`; a moving packet is at one node and passes to a node in
range, at most `MaxHops` times, the last of which is the delivery. `AodvNetwork` implements it under the
mapping that looks for the copies of the packet in the queues and in the air (`Copies`): the packet is
where its copy is and has the TTL of the copy left, and without a copy it is lost unless it has not been
sent or has arrived (`ImplementsDelivery`). That there is no second copy is `OneCopy`, on
which the mapping rests. One step of the network may move many packets, so the
service lets each packet take its own step at once.

### 3.2 Abstractions

* *The air* is a set of frames without an order: AODV delays each broadcast by up to
  10 ms at random, which is longer than several hops take. A broadcast is received
  by all stations in range at once, except those that lose it. Two identical
  frames are one.
* *Time.* Lifetimes are replaced by `RouteExpires`, which may happen to any entry
  that is not in search. `Patient` says that every timeout is longer than what is
  in the air takes to arrive, as the default attributes intend; a retry timer that
  fires before the answer is then one of the faults. The timer that clears the rate limit
  once a second is free in the code and would not wait for the answer either. Under
  `Patient` it counts as a fault as well when frames are in the air, which keeps the runs
  small: it may happen in `AodvKite`, and not in `AodvCrossing`, which has no faults. The theorems hold with and without `Patient`.
* *Faults.* A lost frame, a reported failure of a frame that was in range, an
  expiry, a broken link, an impatient timer and a neighbour timeout each count towards
  `MaxFaults`. Reported failures on a link that is broken are free: there the report
  is certain.
* *The detour over the loopback device* and the jitter are atomic with what causes them.
* *Errors* carry no sequence numbers: receivers do not read them. The rate limit of
  errors only suppresses them; the radio, which loses them, stands for it.
* *Sequence numbers* are natural numbers: the 32-bit wraparound is 2^31 requests away.
* *Left out:* the blacklist of unidirectional links (no code path fills it: the
  acknowledgement timer is never scheduled, `aodv-routing-protocol.cc:1449`),
  interfaces that go up and down and stations with several, broadcast data and its
  duplicate detection, the expiry of request ids, the refusal to queue one packet twice.

### 3.3 Runs

| Run | Instance | Shows |
|---|---|---|
| `AodvKite` | a, b, c hear each other, d hears c; a and c send to d; a hello of d; an expanding ring; room for one packet; one fault | `TypeOK`, `SeqNoOwned`, `PacketsWait`, `SearchesWait`, `OneCopy`, `ImplementsDelivery` |
| `AodvCrossing` | a - b - c - d and e alone; a sends to d, c to a and to e; one request per second, room for two packets, no fault | `EventuallyDelivered`, `PacketsLeave` |
| `AodvLoop` (violation) | `AodvKite` without hello and ring, two faults | `NoLoop` fails |

Bounds. `NetDiameter = 3`, `TtlThreshold = 2` and `TtlStart` of 1 or 3 (defaults 35,
7, 1) keep all three regimes of the expanding ring: a small ring, a ring past the
threshold, the full diameter; with `TtlStart = 3` the search starts at the full
diameter, which shortens runs that are not about the ring. `RreqRetries = 1`
(default 2) gives one full-diameter attempt before a search is given up;
`AodvCrossing` needs two, since the first reply is dropped. `MaxQueueLen = 1` in
`AodvKite` makes a packet push another one out. In
`AodvCrossing` the search of c for e, which has no end but giving up, starts while c searches
for a, and its request is postponed. `DefaultTtl = 4` exceeds
every path. `MaxFaults`: every kind of fault at any point. The counters of the code
need no bounds of their own: messages are finite, and a search ends. `RateLimitTimer`
is enabled only when it changes something.

Deadlock is not checked: a network in which nothing is left to send is quiet.

Fairness, in `AodvCrossing`. `TimersFire`: while timers can fire, some of them do;
the simulator executes every scheduled event, and already this part of it is enough.
`FramesArrive`: frames do not stay in the air; they are received by all in range,
except the losses that `MaxFaults` allows. Both are written as the definition of
weak fairness with the guards spelled out, because the guards are simple and
computing the handlers to evaluate ENABLED is not. HWMP and FLAME do the same.

### 3.4 Findings and facts

* `AodvLoop`: the guard before a reply by an intermediate station looks one hop
  back only, and an invalidated route keeps its sequence number, so that a reply
  with the same number is taken; three stations forward to each other.
* Loops need no failure at all. A request replaces the next hop of the route back to its originator
  whatever the hop count (`:1287`), and on a ring of five stations a - y - x - z - w - a the copies of two
  requests of a that travel the ring in opposite directions leave x and z with valid routes
  to a through each other: TLC finds this with `NoLoop` on that ring, messages a to x and a to z,
  `TtlStart = 3` and no fault. What bounds the way of a packet is its TTL alone, so this is what
  `Delivery` promises.
* A relay that searches for the originator itself drops the reply it should forward
  (`aodv-routing-protocol.cc:1596`, "Impossible! drop"). The search is repaired by its
  retry, which is what `EventuallyDelivered` shows.
* Postponed requests of one destination all count as retries, and the counter may
  pass the value with which it is compared for equality (`:1767`): two packets for one destination,
  both over the rate limit, with `RreqRetries = 1` and `TtlStart = NetDiameter` are enough, and the search
  then goes on past every bound the attributes set. (In the code the counter has eight bits and the time
  between the requests doubles with it; it overflows before the counter comes round again. The
  model has neither.) `PacketsLeave` therefore says of each station: if it never has two requests for
  one destination postponed (`PostponesOnce`), its queue is empty again and again. c in `AodvCrossing`
  is a station that postpones one request and meets the hypothesis.

### 3.5 Proofs

`AodvNetwork_proofs`, for every finite network, every traffic, every setting of the
attributes and any number of faults, under `AodvAttributes` and `NetworkAssumption`:
`TypeCorrect`, `NumbersOwned`, `NoPacketForgotten`, `NoSearchForgotten`, `PacketsAreNotDoubled`,
and that the network implements `Delivery` (`NetworkDelivers`).

The inductive invariant is `TypeOK /\ Stations`. None of the first four properties is inductive by
itself. A number reaches a table from a frame, and a frame from a queue or a table, so
`Stations` says of all three that they name no number that its owner has not reached (`TablesUpTo`,
`PacketsUpTo`); the own number of a station only grows, which keeps what all others believe. A
packet joins the queue in the same handler that starts the search, several calls deep, and in between
neither timer nor packet is where the invariant wants it; `GoodBut` therefore names the
destinations of which a half-finished handler may break it.

The handlers are proved bottom up: one lemma says of each that it `Leads` from a good step
to a good step, and cites the lemmas of the handlers it calls. The number a station has reached in the
middle of a handler is part of that (`Reached`). `Progress` lifts steps of several stations at once,
which is what a broadcast is, to the network. That a queue is finite belongs to the invariant because its
oldest and newest packets are chosen; that a finite set of numbers has a least and a greatest element
(`Least`, `Greatest`) follows from the well-foundedness of the natural numbers.

The proof that the network implements `Delivery` follows one message. Its invariant is `AllOne`:
`OneCopy` for each message, and no message both unsent and delivered. Every handler that gets no packet of
the message has `Kept` it: what it has afterwards in its queue or in its frames was in
the queue before, as it was, and one copy stays one copy. This is again proved bottom up, a lemma for
each handler. Since replies, errors and hellos are packets that wait in the same queue, this needs
no more of them than that they are not data. Two handlers do get packets of the message: an application
sends where there is no copy anywhere (`SendDataIsRight`), and a frame that carries the message is
the only copy, so that its receiver has nothing of it (`ReceiveOwnIsRight`): what it
puts out is one frame with one hop less, and nothing when it is the target. `Right` says what one
message makes of a step, in the terms of the service, and `NextIsRight` proves it action by action. The
refinement then needs no induction of its own: `InitService` and `NextService` map the initial states and
the steps. Freedom from loops is nowhere used.

`NoLoop` is false (`AodvLoop`).

## 4. HWMP

### 4.1 Modules

`HwmpTable` is the class `HwmpRtable`: reactive paths, the path to the root,
precursors. `HwmpNode` is the class `HwmpProtocol` of one mesh point, with the rate
limits of `HwmpProtocolMac`, in the style of `AodvNode`. `HwmpNetwork` runs several
over peer links: `up` is the set of pairs for which `IsActiveLink` holds, as in
`LinkService`.

| Code | Model |
|---|---|
| `m_rtable` | `rt` |
| `m_hwmpSeqno`, `m_hwmpSeqnoMetricDatabase` | `seqNo`, `heard` |
| `m_rqueue`, `m_preqTimeouts` | `queue`, `timers[d]`: the number of the retry, 0 if none runs |
| `m_myPreq`, `m_preqTimer` | `myPreq`, `preqTimer` |
| `m_myPerr`, `m_perrTimer` | `failed`, `receivers`, `perrTimer` |

| Action | Handler |
|---|---|
| `SendData`, `ProactivePreq` | `RequestRoute` from the stack; `SendProactivePreq` |
| `Receive` | `HwmpProtocolMac::Receive`, then `ReceivePreq`, `ReceivePrep`, `ReceivePerr` or `RequestRoute` of a forwarded packet |
| `RetryTimer`, `PreqTimer`, `PerrTimer` | `RetryPathDiscovery`, `SendMyPreq`, `SendMyPerr` |
| `PathExpires`, `RootExpires` | lifetimes in `HwmpRtable` |
| `LinkCloses`, `LinkOpens` | `PeerLinkStatus` |

### 4.2 Abstractions

Frames are unordered, time is abstract, and the faults are those of AODV. Under `Patient` the
retry timers wait for a quiet air, and so does a link that both ends have closed and that opens
again, since a beacon (one in 0.5 s) and a handshake come first. Paths, reactive or to the root,
expire at any moment, also while an answer about them is on its way. The two ends of a link open
and close each on its own, which allows more than the handshake does: closing at the first end
counts as a fault; closing at the second end, and opening, are free.
The attributes `DoFlag` and `RfFlag` are constants, and the runs have
their defaults, FALSE and TRUE: the attributes are set when the object is constructed and
override the initial values of the constructor (`hwmp-protocol.cc:200`). So a mesh point that answers
a request on the way passes it on with DO set and RF clear, and the destination answers as
well. The metric is the number of hops. Left out: several interfaces,
airtime metrics, broadcast data, unicast requests, numbers that wrap at 2^32.

### 4.3 Runs

| Run | Instance | Shows |
|---|---|---|
| `HwmpFaults` | a - b - c, b a root, one packet, one fault (lost frame, expiry, link that closes at one end before the other and opens again) | `TypeOK`, `PacketsWait`, `PathsUseLinks`, `OneCopy`, `PacketsLeave`, `ImplementsDelivery` |
| `HwmpCrossing` | a, b, c hear each other, d hears c; d sends two packets to a, and b one to d; no fault | `EventuallyDelivered` |
| `HwmpNumbers` (violation) | a - b - c - d, two searches that overlap | `SeqNoOwned` fails |

Bounds. `MaxTtl = 4` exceeds every path. `MaxRetries` and `MaxQueueSize` are at least 1, as the
attributes require. `MaxRetries = 1` in `HwmpFaults` reaches a retry and the end of a search;
`HwmpCrossing` has two retries because it needs one. `MaxQueueSize = 1`: the code refuses a packet only
when the queue is larger than the maximum, so there is room for two, and no run has three packets
at one mesh point: the refusal is covered by the proofs alone. In `HwmpCrossing` what is said about d while b
searches for it may reach a before the request of d does. One proactive request per root. A mesh without frames
and timers is quiet, so deadlock is not checked. Fairness is that of AODV, over the timers and
frames of HWMP.

### 4.4 Findings and facts

* `HwmpNumbers`: the path to the previous hop of a request or reply is stored with the
  number of the originator, and a later answer about the previous hop spreads it.
* Since RF is set by default, an answer on the way saves no request: it only comes earlier, and a
  second answer follows it from the destination.
* In crossing searches a request reaching its destination may be dropped as stale, when
  a reply has taught the destination the request's number already; only the retry helps.
* With a root, a packet that was sent towards the root and reaches it before the root
  knows the target is dropped: `EventuallyDelivered` is checked without roots only.
* The error timer never stops once it runs, so that errors wait while requests overtake
  them, and are answered by a mesh point whose path leads through the requester.
* As in AODV, paths may form loops, here too without a failure. On the tree q - x - z, x - d - o, with
  packets from q to d, o to z and z to d and the settings of `HwmpCrossing`, TLC reaches a state in which x
  and a neighbour lead to d through each other. Nothing in the code promises that this does not happen, and
  the TTL ends the way of a packet; the model states `Delivery` instead, under the same mapping
  as for AODV (3.1).
* A packet queued while the last retry of its destination runs is dropped with it.
* A proactive request that is no better than the known one does not renew the path.

### 4.5 Proofs

`HwmpNetwork_proofs`, for every finite mesh, every traffic, any roots, every setting of the
attributes that are constants here (the two flags among them) and any number of faults, under `NoneAssumption`, `AllAssumption`,
`HwmpAttributes` and `NetworkAssumption`: `TypeCorrect`, `NoPacketForgotten`, `PathsOverLinks`,
`PacketsAreNotDoubled`, and that the mesh implements `Delivery` (`MeshDelivers`).

The inductive invariant is `TypeOK /\ Stations`: every mesh point is `Good` for the links that
are up, and the frames in the air have their types. `Good` relates three parts of the
state: the paths lead over links (`Leading`), an active one leads somewhere, a root with a next hop is
known by name, and what waits in the queue has a timer and no path (`Waits`). None of the properties is
inductive alone. `PacketsWait` needs the next hop of an active path, without which
`NextHop` would answer None beside an active path. `PathsUseLinks` needs the root's name: the path to the root
is deleted by name when its link closes, so that a root without one would survive. The type
invariant needs both, since `ReactivePathResolved` sends to the next hop without a look at it.

`LinkCloses` is where the argument lies: `PathsFailGood` shows that after `PeerLinkStatus` no
path, reactive or to the root, leads to the former peer, whether or not there is anybody to tell, so that
the mesh point is good for the links without this one. A frame that is still under way cannot bring
the path back because it is taken only over an active link of its receiver; every lemma about a
received frame has this as its hypothesis. `PreqElementsGood` treats the elements of a frame, which the model
takes one after the other by a recursive function; that there is such a function,
and that every value of it is good, is shown by the least element at which it would fail.

That the mesh implements `Delivery` is proved as for AODV (3.5), with the same lemmas about messages
and a `Kept` lemma for each handler of HWMP. The differences are in the queue, which holds packets
without numbers, and in what leaves: a frame to one receiver is dropped when the link has closed
meanwhile, so that a copy may vanish between queue and air, and a packet may be released
by a path to the root and not by its own. A data frame has one receiver (`Frames`), which is why
two mesh points never take the same copy.

`SeqNoOwned` is false (`HwmpNumbers`).

## 5. FLAME

`FlameNode` is `FlameProtocol` with `FlameRtable` and what `MeshPointDevice` does
with a frame; `FlameNetwork` runs several. `rt`, `seqNo` are `m_rtable`,
`m_myLastSeqno`; `last` says whether the last broadcast is at most one interval ago
(`m_lastBroadcast`). Actions: `SendData`, `Receive`, `RouteExpires`, `IntervalEnds`.

Abstractions. Entries live for 120 s, longer than any frame: when an entry expires, the
frame that set it and all that its destination sent before are gone, but newer ones may be
on the air (`RouteExpires`). Numbers stay below 32768: the code
compares them as int16. One interface. `rushed` remembers that two frames of one source
were on the air at the same time; then one may count as a duplicate of the other.

Run `Flame`: a, b, c hear each other, d hears c; a sends two packets to d, and d's
path updates go back. Two faults, one end of a broadcast interval, numbers up to
`MaxSeqNo = 9`, which the messages do not reach, and costs up to 3, longer than any
simple path. It shows `TypeOK`, `PathsDescend`, `NoLoop`,
`DeliveredOnce`, and `EventuallyDelivered` for behaviours without faults in which no
source was rushed. Fairness: `FramesArrive`. Deadlock is not checked, as above.

Proofs (`FlameNetwork_proofs`), for every finite mesh, every traffic and every number
of losses: `TypeCorrect`, `PathsCorrect`, `NoLoopCorrect`, `DeliveryCorrect`. `PathsDescend`
is not inductive: it needs to know what is on the air. `Numbers` says that no entry has a
number that its destination has not used; `News`, that the mesh point a frame comes from is
ahead of the frame; `Fresh`, that where a path leads over a mesh point that has no entry,
whatever is on the air is newer than the path; `Once`, that who got a message has stored a
number at least that of its frames. A path
is set by the first copy of a number only, so along a path the news get better with every
hop; a loop would have no element with the best news (`NoLoopCorrect` takes the least
element of a finite set).

## 6. Spatial reuse

### 6.1 Modules

`ObssManager`: what one station computes. `MeshObssPdAlgorithm::ReceiveHeSig`
(`Ignores`) decides whether a frame is foreign and weak enough to be ignored;
`ObssWifiManager` records it (`EraseEnded`), and computes the highest power level that
leaves every recorded transmission decodable (`PowerLevel`) and the highest rate the next hop
could then decode (`RateLimit`).

`SpatialReuse`: several stations on one channel. `rx` and `preamble` are what the PHY
receives (`m_currentEvent`), `deaf` the stations whose PHY receives a frame without its last header, `ignored` the scheduled `EndReceiveInterBss`, `restricted` and
`requested` the two flags `m_powerRestricted` and `m_channelAccessRequested`; `trans`, `limit`
and `known` are `m_obssTrans`, the three limits, and `globalLossPairs`.

| Action | Handler |
|---|---|
| `RequestAccess` | `ChannelAccessManager::RequestAccess`, `NotifyChannelAccessRequested` |
| `SendPacket` | `WifiPhy::SendPacket`; the stations in range `StartReceivePreamble` |
| `ReceiveHeSig` | `StartReceivePayload` with the two listeners, in the order in which they are connected; `ResetPhy`, `ResetCca` |
| `AbortCurrentReception` | the L-SIG header cannot be decoded: idle at once |
| `SigAFailure` | the SIG-A header cannot be decoded: receiving, in vain, to the end of the frame |
| `EndReceive` | `EndReceive`, and the acknowledgement if there is one |
| `EndReceiveInterBss` | `EndReceiveInterBss` |
| `Tick` | time, when nothing is to happen now |

### 6.2 Abstractions

Powers are linear integers, and ratios are compared by multiplication; decibels and
noise figures only change the scale. A preamble carries the power as tenths of a dBm in eight
bits; all powers are taken to be such, from 0 to 25.5 dBm, so that nothing of them is cut off.
With the default attributes `ObssPdLevel` equals `ObssPdLevelMin`, and an ignored frame does
not restrict the power (`Restricting`); the run has a level above, as the scripts set it. A restricted
station sends with the lesser of the two powers (`TxPower`).

Time is counted in ticks. A preamble with all headers takes `Preamble` of them, about 44 us in the
code; durations are announced in units of `Unit`, 10 us, and below `TimeModulus`, 256 units. A receiver
counts the announced duration of the whole frame from the moment when it has the headers
(`obss-wifi-manager.cc:627`), so a record outlives its frame, by what the preamble took less what the
division by the unit cut off. A station stands for its MAC and its IP address, which
end in the same byte, as the scripts assign them. The route is any of `hops[s]`, which
may include none. `learnt` are the path losses that earlier traffic has taught. An
acknowledgement takes no time: it only clears the two flags, as every transmission does.
Left out: the choice of rate and power of a transmission, which does not use the limits;
several spatial streams; BSS color 0, with which no frame is ignored; `ConstantObssPdAlgorithm`.

### 6.3 Run

`SpatialReuse`: a sends two frames to b, c a longer one to d, d asks for the channel, and
e, which may lose its route to f, only listens. It shows `TypeOK`, `OngoingRecorded`,
`OngoingSpared`, `RestrictionEnds`, `RestrictionUsed`, `EndedForgotten`. Bounds: nine ticks, frames of
three and seven, so that a frame ends while another goes on and a third begins; a preamble and a unit of
two ticks, so that the announced durations (2 and 6) fall short of the real ones and the records outlive the frames
by one tick; two levels and two rates; one header lost. Within them limits at every level, at "none" (255) and at the
level above the highest occur, as do stations that heard two frames, transmissions with reduced
power, and restrictions that end while another ignored frame is on the air. Deadlock is not
checked: the frames are used up.

### 6.4 Facts

* The loop that erases records that are over skips the record after each erased one. No record of a
  transmission on the air is lost by that (`OngoingRecorded`), and every check erases at least
  half of the records that are over (`EndedForgotten`).
* Durations are rounded down, and yet no record ends before its frame: only because the whole duration is
  counted from the end of the preamble, which is longer than a unit. If the time that is left were
  announced (the mutation of `OngoingRecorded`), a record could end too early.
* No level that spares everyone: `m_obssPowerLimit` becomes 255 with `m_obssRestricted` set
  (`obss-wifi-manager.cc:796`). The search begins one level above the highest (`:722`).
* Two recorded transmissions to one receiver are compared by the strength of the
  later one; `OngoingSpared` excludes them.
* The duration is announced in 8 bits of 10 us (`wifi-phy.cc:2673`); for a frame of 2.56 ms
  or more the record may be erased early. The run has no such frame.
* The end of one ignored frame lifts the restriction that a later one has set
  (`wifi-phy.cc:3222`), unless the channel was requested.

### 6.5 Proofs

`ObssManager_proofs` holds what the operators return for every list of records, and
`SpatialReuse_proofs` the theorems of the specification: for any stations, path losses,
traffic, routes and bounds, under `StationAssumption` and `ReuseAssumption`.

* `RestrictionEndsCorrect`, `RestrictionUsedCorrect`. `RestrictionEnds` is inductive with the types of
  three functions, and with the fact that nobody is restricted unless the level is one
  that restricts; `RestrictionUsed` follows from it action by action: of the
  actions that clear a restriction only a transmission does so while the channel is requested.
* `TypeCorrect`. The limits stay in eight bits whatever the searches for a level and a
  rate find (`PowerLevelFacts`, `RateLimitFacts`). That a station in a preamble is receiving is part of the
  types; it holds because the headers end before the frame does and nobody misses that moment.
* `OngoingRecordedCorrect`, when every frame is shorter than `TimeModulus`
  (`ShortFrames`; without it the property is false, 6.4). What a station has heard on the air does not
  suffice for the induction: an ignored frame may leave the air before its timer
  expires, and is recorded all the same. `RecordsInv` says of everything that a station
  heeds (`Heeded`) that it is recorded, and of that and of all that is on the air that the record
  lasts as long as the frame (`Lasting`), which rests on `AnnouncedFacts`: what the announced duration
  lacks is less than a unit, and a unit is no longer than a preamble.
* `EndedForgottenCorrect`, without that hypothesis.
* `OngoingSparedCorrect`, under `ShortFrames` and with fewer than 255 levels (`FewLevels`;
  255 stands for none). `LimitsSpare` is inductive: a limit disturbs no
  receiver of a recorded transmission, and the list does not change until the next limit is computed.
  With `RecordsInv` everything heard is among the records, so that its
  strengths are part of the interference that the limit has been checked against.

The lemmas behind the last three: `EraseFacts`, the loop that erases from the list it runs over,
by an invariant of the loop (`Halfway`) which holds at the least position at which it would fail; and
`SumGrows`, that a sum over a set, which `MapThenSumSet` takes in an order of its own, does
not decrease when each of its terms is found among those of another one. Both need the existence of a
recursively defined function, which is shown from its approximations (`SumExists`), since the
library's induction rules cannot be instantiated here.

## 7. What is model-checked only, and what is not modelled

Model-checked only: all liveness properties (`HandshakeEnds`, `LinkForms`, `PacketsLeave`,
`EventuallyDelivered` and those of FLAME), since fairness and ENABLED are beyond the proof system. Every
safety property of a passing run is a theorem.

Not modelled: OLSR and DSDV, which ns-3 ships and the experiment scripts can select
instead of AODV, and whose difficulty lies in holding times that only a model with
clocks would tell apart; the scripts under `scratch/`, `bash-scripts/` and `my-simulations/`,
which set up nodes and print results; the substrate (event core, packets, PHY and
propagation, the wifi MAC below the mesh plug-ins, TCP/IP), which appears here as it is used: one
event at a time, scheduled events run, a radio that loses frames; LTE, WiMAX, energy and the
other upstream modules, bindings, build system and docs. Within the modelled components:
beacon collision avoidance, several interfaces in the routing protocols, channel switching, and
statistics.

## 8. Files

For each component the specification modules named above, an `MC` module with the instances
for TLC (`MCPeerManagement`, `MCPeerManagementTimely`, `MCAodv`, `MCHwmp`, `MCFlame`, `MCSpatialReuse`), one
`.cfg` per run, and `_proofs` modules.
