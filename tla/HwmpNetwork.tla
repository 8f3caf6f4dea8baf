----------------------------- MODULE HwmpNetwork -----------------------------
(***************************************************************************)
(* A mesh of HWMP mesh points over peer links. The handlers of HwmpNode    *)
(* become actions: packets come from above, frames arrive, timers fire;    *)
(* the radio loses and reorders frames, paths expire, and peer management  *)
(* closes a link at one end before the other.                              *)
(*                                                                         *)
(* Peer management appears as in LinkService: up is the set of <<n, m>>    *)
(* for which IsActiveLink is true at n of its peer m. A frame to one       *)
(* receiver leaves only over an active link, and a frame of whatever kind  *)
(* is taken only over an active link of the receiver. The two ends close   *)
(* and open their links each on its own, which allows more than the        *)
(* handshake does.                                                         *)
(*                                                                         *)
(* Time is abstract: retry timers fire and links open again at any moment, *)
(* unless Patient; paths expire at any moment. What goes wrong is counted  *)
(* by faults and bounded by MaxFaults.                                     *)
(***************************************************************************)
EXTENDS HwmpNode

CONSTANTS
  Links,       \* <<n, m>>: n and m hear each other
  Message,     \* the packets from the upper layers, once each
  source,      \* source[m], target[m]: where message m comes from and goes to
  target,
  RootNodes,      \* the roots, which send one proactive request each
  Patient,     \* retries and new links wait until requests are sent and the air is quiet
  MaxFaults    \* bound: losses, expiries, links closed first at one end

ASSUME NetworkAssumption ==
  /\ IsFiniteSet(Node)
  /\ Links \subseteq Node \X Node
  /\ \A l \in Links : <<l[2], l[1]>> \in Links
  /\ {source, target} \subseteq [Message -> Node]
  /\ \A m \in Message : source[m] # target[m]
  /\ RootNodes \subseteq Node
  /\ Patient \in BOOLEAN
  /\ MaxFaults \in Nat

VARIABLES
  node,       \* the mesh points
  up,         \* <<n, m>>: the link of n to its peer m is active
  air,        \* the frames in transit, unordered: [from, to, packet]
  unsent,     \* messages not sent yet
  unheard,    \* roots that have not sent their request yet
  delivered,  \* messages that reached their targets
  faults      \* how much has gone wrong

vars == <<node, up, air, unsent, unheard, delivered, faults>>

Init ==
  /\ node = [n \in Node |-> NewNode]
  /\ up = Links
  /\ air = {}
  /\ unsent = Message
  /\ unheard = RootNodes
  /\ delivered = {}
  /\ faults = 0

-----------------------------------------------------------------------------
\* The mesh points that can hear the frame f and take it.
Receivers(f) ==
  {n \in Node : <<n, f.from>> \in Links \cap up /\ f.to \in {n, All}}

\* The frames of a step that leave: to all, or over an active link.
Transmitted(s, links) ==
  {[from |-> s.at, to |-> o.to, packet |-> o.packet] :
     o \in {e \in s.out : e.to = All \/ <<s.at, e.to>> \in links}}

Step(n) == Begin(n, node[n])

\* Take a step whose frames join those of base in the air.
Take(s, base) ==
  /\ node' = [node EXCEPT ![s.at] = s.node]
  /\ air' = base \cup Transmitted(s, up')

Fault == faults < MaxFaults /\ faults' = faults + 1

\* A retry comes 200 TU after its request, which waits at most 100 TU for the rate limit;
\* beacons are 500 ms apart.
Calm == Patient => air = {} /\ \A n \in Node : node[n].myPreq = <<>>

-----------------------------------------------------------------------------
SendData(m) ==
  /\ m \in unsent
  /\ unsent' = unsent \ {m}
  /\ UNCHANGED <<up, unheard, delivered, faults>>
  /\ Take(SendPacket(Step(source[m]), Data(source[m], target[m], MaxTtl, m)), air)

ProactivePreq(n) ==
  /\ n \in unheard
  /\ unheard' = unheard \ {n}
  /\ UNCHANGED <<up, unsent, delivered, faults>>
  /\ Take(SendProactivePreq(Step(n)), air)

\* The frame f is on the air: its receivers get it, but for those that lose it.
Receive(f, lost) ==
  LET hears == Receivers(f) \ lost
      Input(n) == ReceiveFrame(Step(n), f.from, f.packet)
  IN  /\ f \in air
      /\ lost \subseteq Receivers(f)
      /\ faults + Cardinality(lost) <= MaxFaults
      /\ faults' = faults + Cardinality(lost)
      /\ node' = [n \in Node |-> IF n \in hears THEN Input(n).node ELSE node[n]]
      /\ air' = (air \ {f}) \cup UNION {Transmitted(Input(n), up) : n \in hears}
      /\ delivered' = delivered \cup
           {m \in Message : f.packet.type = "DATA" /\ f.packet.id = m /\ target[m] \in hears}
      /\ UNCHANGED <<up, unsent, unheard>>

RetryTimer(n, d) ==
  /\ node[n].timers[d] # 0
  /\ Calm
  /\ UNCHANGED <<up, unsent, unheard, delivered, faults>>
  /\ Take(RetryPathDiscovery(Step(n), d), air)

\* m_preqTimer expires: SendMyPreq again, which does not rearm for an empty list.
PreqTimer(n) ==
  /\ node[n].preqTimer
  /\ UNCHANGED <<up, unsent, unheard, delivered, faults>>
  /\ Take(SendMyPreq([Step(n) EXCEPT !.node.preqTimer = FALSE]), air)

ErrorsWait(s) == s.failed # {} \/ s.receivers # {}

\* m_perrTimer expires with something to send; else it is only rearmed.
PerrTimer(n) ==
  /\ node[n].perrTimer /\ ErrorsWait(node[n])
  /\ UNCHANGED <<up, unsent, unheard, delivered, faults>>
  /\ Take(SendMyPerr(Step(n)), air)

PathExpires(n, d, forgotten) ==
  /\ node[n].rt.paths[d].active
  /\ forgotten \subseteq node[n].rt.paths[d].precursors
  /\ Fault
  /\ node' = [node EXCEPT ![n].rt = ExpirePath(@, d, forgotten)]
  /\ UNCHANGED <<up, air, unsent, unheard, delivered>>

RootExpires(n) ==
  /\ node[n].rt.root.active
  /\ Fault
  /\ node' = [node EXCEPT ![n].rt = ExpireRoot(@)]
  /\ UNCHANGED <<up, air, unsent, unheard, delivered>>

\* Peer management at n closes the link to m: by itself, or because m has closed it.
LinkCloses(n, m) ==
  /\ <<n, m>> \in up
  /\ IF <<m, n>> \in up THEN Fault ELSE UNCHANGED faults
  /\ up' = up \ {<<n, m>>}
  /\ UNCHANGED <<unsent, unheard, delivered>>
  /\ Take(PeerLinkClosed(Step(n), m), air)

\* A handshake makes the link active at n; PeerLinkStatus (true) does nothing. Where both
\* ends have closed the link, a beacon and the whole handshake come first.
LinkOpens(n, m) ==
  /\ <<n, m>> \in Links \ up
  /\ <<m, n>> \in up \/ Calm
  /\ up' = up \cup {<<n, m>>}
  /\ UNCHANGED <<node, air, unsent, unheard, delivered, faults>>

Next ==
  \/ \E m \in Message : SendData(m)
  \/ \E f \in air : \E lost \in SUBSET Receivers(f) : Receive(f, lost)
  \/ \E n \in Node :
       \/ ProactivePreq(n)
       \/ PreqTimer(n)
       \/ PerrTimer(n)
       \/ RootExpires(n)
       \/ \E d \in Node :
            \/ RetryTimer(n, d)
            \/ LinkCloses(n, d)
            \/ LinkOpens(n, d)
            \/ \E forgotten \in SUBSET Node : PathExpires(n, d, forgotten)

Spec == Init /\ [][Next]_vars

\* The simulator runs the events whose time has come: while timers run, some of them
\* fire, and while frames are in the air, some of them arrive. Fairness is spelled out
\* with the guards of the actions.
TimerDue ==
  \E n \in Node :
    \/ node[n].preqTimer
    \/ node[n].perrTimer /\ ErrorsWait(node[n])
    \/ Calm /\ \E d \in Node : node[n].timers[d] # 0

TimersFire ==
  \/ []<>~TimerDue
  \/ []<><<\E n \in Node : PreqTimer(n) \/ PerrTimer(n) \/ \E d \in Node : RetryTimer(n, d)>>_vars

FramesArrive == []<>(air = {}) \/ []<><<\E f \in air : Receive(f, {})>>_vars

FairSpec == Spec /\ TimersFire /\ FramesArrive

-----------------------------------------------------------------------------
(* Properties.                                                             *)

Asked == [dst: Node \cup {All}, seqNo: Nat, do: BOOLEAN, rf: BOOLEAN]
Failed == [dst: Node, seqNo: Nat]
Requests == [orig: Node, seqNo: Nat, metric: Nat, ttl: 0..MaxTtl, dests: SUBSET Asked]
PreqFrames == [type: {"PREQ"}, list: Seq(Requests)]
PrepFrames == [type: {"PREP"}, orig: Node, seqNo: Nat, dst: Node, metric: Nat,
               ttl: 0..MaxTtl]
PerrFrames == [type: {"PERR"}, failed: SUBSET Failed]
Datas      == [type: {"DATA"}, src: Node, dst: Node, ttl: 1..MaxTtl, id: Message]

Packets == PreqFrames \cup PrepFrames \cup PerrFrames \cup Datas

NodeState == [
  rt: Table, heard: [Node -> [seqNo: Nat, metric: Nat]], seqNo: Nat,
  queue: SUBSET Datas, timers: [Node -> 0..(MaxRetries + 1)],
  myPreq: Seq(Requests), preqTimer: BOOLEAN,
  failed: SUBSET Failed, receivers: SUBSET Node, perrTimer: BOOLEAN]

\* The state has its types; in particular no path is active without a next hop, and no
\* retry is numbered beyond the attribute.
TypeOK ==
  /\ node \in [Node -> NodeState]
  /\ \A n, d \in Node : node[n].rt.paths[d].active => node[n].rt.paths[d].next # None
  /\ up \subseteq Links
  /\ air \subseteq [from: Node, to: Node \cup {All}, packet: Packets]
  /\ unsent \subseteq Message /\ delivered \subseteq Message
  /\ unheard \subseteq RootNodes
  /\ faults \in Nat

\* No packet is forgotten in the queue: a retry timer stands for its destination and
\* there is no active path by which it could have left. RetryPathDiscovery stops the
\* timer of a resolved destination without a look at the queue, relying on this.
PacketsWait ==
  \A n \in Node : \A p \in node[n].queue :
    node[n].timers[p.dst] # 0 /\ NextHop(node[n].rt, p.dst) = None

\* Every path, active or expired, leads over an active peer link: PeerLinkStatus has
\* deleted those over a link that was closed, and no frame that was under way when the
\* link closed brings one back.
PathsUseLinks ==
  \A n \in Node :
    /\ \A d \in Node : node[n].rt.paths[d].next # None => <<n, node[n].rt.paths[d].next>> \in up
    /\ node[n].rt.root.next # None => <<n, node[n].rt.root.next>> \in up

\* Where the packet of message m is: in queues, and in the air.
Carries(p, m) == p.type = "DATA" /\ p.id = m

Waiting(m) == {x \in UNION {{n} \X node[n].queue : n \in Node} : Carries(x[2], m)}
Flying(m) == {f \in air : Carries(f.packet, m)}

Copies(m) == {[at |-> x[1], packet |-> x[2]] : x \in Waiting(m)}
               \cup {[at |-> f.from, packet |-> f.packet] : f \in Flying(m)}

AtMostOne(S) == \A x, y \in S : x = y

\* A packet is in one place, to leave it whole and with hops left, whichever paths
\* release it and whichever search is given up; once it has arrived nothing of it is
\* left behind.
OneCopy ==
  \A m \in Message :
    /\ AtMostOne(Waiting(m)) /\ AtMostOne(Flying(m))
    /\ Waiting(m) = {} \/ Flying(m) = {}
    /\ m \in unsent \cup delivered => Copies(m) = {}
    /\ \A c \in Copies(m) : c.packet.src = source[m] /\ c.packet.dst = target[m]

\* What has become of message m.
Phase(m) ==
  CASE m \in unsent -> "unsent"
    [] m \in delivered -> "delivered"
    [] m \notin unsent \cup delivered -> IF Copies(m) = {} THEN "lost" ELSE "moving"

Copy(m) ==
  IF Phase(m) = "moving" THEN LET c == CHOOSE c \in Copies(m) : TRUE
                              IN  [at |-> c.at, left |-> c.packet.ttl]
                         ELSE [at |-> source[m], left |-> MaxTtl]

Service == INSTANCE Delivery WITH
  MaxHops <- MaxTtl,
  phase   <- [m \in Message |-> Phase(m)],
  at      <- [m \in Message |-> Copy(m).at],
  left    <- [m \in Message |-> Copy(m).left]

\* The mesh is a delivery service: a packet passes from neighbour to neighbour, not more
\* often than its TTL allows even where paths form a loop, and it is neither doubled nor
\* found again after it was lost or delivered.
ImplementsDelivery == Service!Spec

\* "keeps HWMP seqno (first in pair) and HWMP metric (second in pair) for each address"
\* (hwmp-protocol.h): the number kept for an address is one that this mesh point has
\* reached. What later requests and replies of the mesh point are compared with.
SeqNoOwned == \A n, d \in Node : node[n].heard[d].seqNo <= node[d].seqNo

\* Packets do not stay in the queue: they are sent or, when the search is given up,
\* dropped, whatever is lost and whichever links close.
PacketsLeave == \A n \in Node : []<>(node[n].queue = {})

\* Where nothing fails and the retry timers leave the answers their time, a packet
\* arrives at its target.
EventuallyDelivered ==
  \A m \in Message : m \notin unsent ~> m \in delivered
=============================================================================
