----------------------------- MODULE AodvNetwork -----------------------------
(***************************************************************************)
(* A network of AODV stations. The handlers of AodvNode become actions:    *)
(* applications send, frames arrive, timers fire; the radio loses and      *)
(* reorders frames, routes expire, links break.                            *)
(*                                                                         *)
(* Time is abstract: timers fire at any moment. With Patient, a timer that *)
(* fires while frames are in the air counts as a fault, although the free  *)
(* timer of one second of the rate limit may do so in the code whenever it *)
(* likes: the runs are thereby kept small, the proofs need no bound. What  *)
(* goes wrong is counted by faults and bounded by MaxFaults.               *)
(***************************************************************************)
EXTENDS AodvNode

CONSTANTS
  Links,       \* <<n, m>>: m hears n when nobody has moved
  Message,     \* the packets that the applications send, once each
  source,      \* source[m], target[m]: where message m comes from and goes to
  target,
  Hellos,      \* the stations that send a hello
  Patient,     \* a timer that fires before the air is quiet is counted as a fault
  MaxFaults    \* bound: losses, timeouts of routes, packets, neighbours; broken links

ASSUME NetworkAssumption ==
  /\ IsFiniteSet(Node)
  /\ Links \subseteq Node \X Node
  /\ {source, target} \subseteq [Message -> Node]
  /\ \A m \in Message : source[m] # target[m]
  /\ Hellos \subseteq Node
  /\ Patient \in BOOLEAN
  /\ MaxFaults \in Nat

VARIABLES
  node,       \* the stations
  air,        \* the frames in transit, unordered: [from, to, packet]
  broken,     \* the links that are gone
  unsent,     \* messages not sent yet
  unheard,    \* stations that have not sent their hello yet
  delivered,  \* messages that reached their targets
  faults      \* how much has gone wrong

vars == <<node, air, broken, unsent, unheard, delivered, faults>>

Init ==
  /\ node = [n \in Node |-> NewNode]
  /\ air = {}
  /\ broken = {}
  /\ unsent = Message
  /\ unheard = Hellos
  /\ delivered = {}
  /\ faults = 0

-----------------------------------------------------------------------------
\* The stations in the range of n, and those that can hear the frame f.
Near(n) == {m \in Node : <<n, m>> \in Links \ broken}
Receivers(f) == IF f.to = All THEN Near(f.from) ELSE {f.to} \cap Near(f.from)

\* The frames of a step.
Transmitted(s) == {[from |-> s.at, to |-> o.to, packet |-> o.packet] : o \in s.out}

Step(n) == Begin(n, node[n])

\* Take a step whose frames join those of base in the air.
Take(s, base) ==
  /\ node' = [node EXCEPT ![s.at] = s.node]
  /\ air' = base \cup Transmitted(s)

Fault == faults < MaxFaults /\ faults' = faults + 1

-----------------------------------------------------------------------------
SendData(m) ==
  /\ m \in unsent
  /\ unsent' = unsent \ {m}
  /\ Take(RouteOutput(Step(source[m]),
                      Packet(source[m], target[m], DefaultTtl, Data(m))), air)
  /\ UNCHANGED <<broken, unheard, delivered, faults>>

\* SendHello: a reply of a station about itself.
SendHello(n) ==
  /\ n \in unheard
  /\ unheard' = unheard \ {n}
  /\ Take(Broadcast(Step(n), 1, Rrep(n, node[n].seqNo, n, 0, FALSE)), air)
  /\ UNCHANGED <<broken, unsent, delivered, faults>>

\* The frame f is on the air: its receivers get it, but for those that lose it.
Receive(f, lost) ==
  LET hears == Receivers(f) \ lost
      Input(n) == RouteInput(Step(n), f.packet)
  IN  /\ f \in air
      /\ lost \subseteq Receivers(f)
      /\ faults + Cardinality(lost) <= MaxFaults
      /\ faults' = faults + Cardinality(lost)
      /\ node' = [n \in Node |-> IF n \in hears THEN Input(n).node ELSE node[n]]
      /\ air' = (air \ {f}) \cup UNION {Transmitted(Input(n)) : n \in hears}
      /\ delivered' = delivered \cup
                        {m \in Message : f.packet.body = Data(m) /\ f.packet.dst \in hears}
      /\ UNCHANGED <<broken, unsent, unheard>>

\* ProcessTxError: the MAC reports that a unicast frame was lost.
TxError(f) ==
  /\ f \in air
  /\ f.to \in node[f.from].nb
  /\ IF f.to \in Near(f.from) THEN Fault ELSE UNCHANGED faults
  /\ Take(CloseNeighbor(Step(f.from), f.to), air \ {f})
  /\ UNCHANGED <<broken, unsent, unheard, delivered>>

\* m_addressReqTimer[d] expires; for the patient, before the answer is a fault.
RetryTimer(n, d) ==
  /\ d \in node[n].timers
  /\ IF Patient /\ air # {} THEN Fault ELSE UNCHANGED faults
  /\ Take(RouteRequestTimerExpire(Step(n), d), air)
  /\ UNCHANGED <<broken, unsent, unheard, delivered>>

\* RreqRateLimitTimerExpire; for the patient, with frames in the air it counts too.
RateLimitTimer(n) ==
  /\ node[n].rreqCount > 0
  /\ IF Patient /\ air # {} THEN Fault ELSE UNCHANGED faults
  /\ node' = [node EXCEPT ![n].rreqCount = 0]
  /\ UNCHANGED <<air, broken, unsent, unheard, delivered>>

\* A postponed SendRequest runs; at the limit it would be postponed again.
DelayedRequest(n, d) ==
  /\ node[n].delayed[d] > 0
  /\ node[n].rreqCount < RreqRateLimit
  /\ Take(SendRequest([Step(n) EXCEPT !.node.delayed[d] = @ - 1], d), air)
  /\ UNCHANGED <<broken, unsent, unheard, delivered, faults>>

RouteExpires(n, d) ==
  /\ MayExpire(node[n].rt, d)
  /\ Fault
  /\ node' = [node EXCEPT ![n].rt = Expire(@, d)]
  /\ UNCHANGED <<air, broken, unsent, unheard, delivered>>

\* RequestQueue::Purge drops the packet that waited too long.
QueueTimeout(n) ==
  /\ node[n].queue # {}
  /\ Fault
  /\ node' = [node EXCEPT ![n].queue = @ \ {Oldest(@)}]
  /\ UNCHANGED <<air, broken, unsent, unheard, delivered>>

\* n and m leave each other's range.
LinkBreaks(n, m) ==
  /\ <<n, m>> \in Links \ broken
  /\ Fault
  /\ broken' = broken \cup {<<n, m>>, <<m, n>>}
  /\ UNCHANGED <<node, air, unsent, unheard, delivered>>

\* Neighbors::Purge: nothing was heard of m for too long.
NeighborTimeout(n, m) ==
  /\ m \in node[n].nb
  /\ Fault
  /\ Take(CloseNeighbor(Step(n), m), air)
  /\ UNCHANGED <<broken, unsent, unheard, delivered>>

Next ==
  \/ \E m \in Message : SendData(m)
  \/ \E f \in air : TxError(f) \/ \E lost \in SUBSET Node : Receive(f, lost)
  \/ \E n \in Node :
       \/ SendHello(n)
       \/ RateLimitTimer(n)
       \/ QueueTimeout(n)
       \/ \E d \in Node : \/ RetryTimer(n, d)
                          \/ DelayedRequest(n, d)
                          \/ RouteExpires(n, d)
                          \/ LinkBreaks(n, d)
                          \/ NeighborTimeout(n, d)

Spec == Init /\ [][Next]_vars

\* The simulator runs the events whose time has come: while timers can fire, some of
\* them do, and while frames are in the air, some of them arrive. Fairness is spelled
\* out with the guards of the actions.
Calm == Patient => air = {}

TimerDue ==
  \E n, d \in Node :
    \/ Calm /\ (node[n].rreqCount > 0 \/ d \in node[n].timers)
    \/ node[n].delayed[d] > 0 /\ node[n].rreqCount < RreqRateLimit

TimersFire ==
  \/ []<>~TimerDue
  \/ []<><<\E n, d \in Node : \/ RateLimitTimer(n)
                             \/ RetryTimer(n, d)
                             \/ DelayedRequest(n, d)>>_vars

FramesArrive == []<>(air = {}) \/ []<><<\E f \in air : Receive(f, {})>>_vars

FairSpec == Spec /\ TimersFire /\ FramesArrive

-----------------------------------------------------------------------------
(* Properties.                                                             *)

Rreqs == [type: {"RREQ"}, origin: Node, id: Nat, originSeqNo: Nat, dst: Node,
          known: BOOLEAN, dstSeqNo: Nat, hop: Nat]
Rreps == [type: {"RREP"}, dst: Node, seqNo: Nat, origin: Node, hop: Nat,
          ackRequired: BOOLEAN]
Rerrs == [type: {"RERR"}, lost: SUBSET Node]
Acks  == [type: {"RREP_ACK"}]
Datas == [type: {"DATA"}, id: Message]
Bodies == Rreqs \cup Rreps \cup Rerrs \cup Acks \cup Datas

Packets == [src: Node, dst: Node \cup {All}, ttl: Nat, body: Bodies]

Queued == {q \in [no: Nat, packet: Packets] : q.packet.dst \in Node}

NodeState == [rt: Table, seqNo: Nat, requestId: Nat, seen: SUBSET (Node \X Nat),
              queue: SUBSET Queued, timers: SUBSET Node, delayed: [Node -> Nat],
              rreqCount: Nat, nb: SUBSET Node]

\* The state has its types; in particular a route that can be used has a next hop,
\* for SendPacketFromQueue follows the entry of a destination whatever its flag.
TypeOK ==
  /\ node \in [Node -> NodeState]
  /\ air \subseteq [from: Node, to: Node \cup {All}, packet: Packets]
  /\ broken \subseteq Node \X Node
  /\ unsent \subseteq Message /\ delivered \subseteq Message
  /\ unheard \subseteq Node
  /\ faults \in Nat

\* A station's number is its own: nobody believes a number that the destination has
\* not reached. (RecvRequest copies the originator's number into the entry of the
\* previous hop, so this rests on every reader of a number looking at the validity.)
SeqNoOwned ==
  \A n, d \in Node : node[n].rt[d].known => node[n].rt[d].seqNo <= node[d].seqNo

\* Something will look at destination d again: its retry timer or a postponed request.
Guarded(s, d) == d \in s.timers \/ s.delayed[d] > 0

\* No packet is forgotten in the queue: when its own timeout is disregarded, a retry
\* timer or a postponed request still stands for its destination, whatever replies,
\* errors, hellos and expiries did to the entry in between.
PacketsWait ==
  \A n \in Node : \A q \in node[n].queue : Guarded(node[n], q.packet.dst)

\* No search is forgotten: DeferredRouteOutput starts no request for a destination in
\* search, so an entry left in search with nothing pending would block it for good.
SearchesWait ==
  \A n, d \in Node : node[n].rt[d].flag = "IN_SEARCH" => Guarded(node[n], d)

\* The stations of S send packets for d round among themselves.
Circle(S, d) ==
  \A n \in S : LookupValidRoute(node[n].rt, d) /\ node[n].rt[d].nextHop \in S

\* Valid routes never form a loop: what RFC 3561 promises and what the comment "Drop
\* RREQ, This node RREP will make a loop" guards against.
NoLoop == \A d \in Node : \A S \in SUBSET (Node \ {d}) : Circle(S, d) => S = {}

\* Where the packet of message m is: in queues, and in the air.
Waiting(m) ==
  {x \in UNION {{n} \X node[n].queue : n \in Node} : x[2].packet.body = Data(m)}
Flying(m) == {f \in air : f.packet.body = Data(m)}

Copies(m) == {[at |-> x[1], packet |-> x[2].packet] : x \in Waiting(m)}
               \cup {[at |-> f.from, packet |-> f.packet] : f \in Flying(m)}

AtMostOne(S) == \A x, y \in S : x = y

\* A packet is in one place, to leave it whole and with hops left, whichever queues were
\* flushed, overrun or given up; once it has arrived nothing of it is left behind.
OneCopy ==
  \A m \in Message :
    /\ AtMostOne(Waiting(m)) /\ AtMostOne(Flying(m))
    /\ Waiting(m) = {} \/ Flying(m) = {}
    /\ m \in unsent \cup delivered => Copies(m) = {}
    /\ \A c \in Copies(m) : /\ c.packet.src = source[m] /\ c.packet.dst = target[m]
                            /\ c.packet.ttl \in 1..DefaultTtl

\* What has become of message m.
Phase(m) ==
  CASE m \in unsent -> "unsent"
    [] m \in delivered -> "delivered"
    [] m \notin unsent \cup delivered -> IF Copies(m) = {} THEN "lost" ELSE "moving"

Copy(m) ==
  IF Phase(m) = "moving" THEN LET c == CHOOSE c \in Copies(m) : TRUE
                              IN  [at |-> c.at, left |-> c.packet.ttl]
                         ELSE [at |-> source[m], left |-> DefaultTtl]

Service == INSTANCE Delivery WITH
  MaxHops <- DefaultTtl,
  phase   <- [m \in Message |-> Phase(m)],
  at      <- [m \in Message |-> Copy(m).at],
  left    <- [m \in Message |-> Copy(m).left]

\* The network is a delivery service: a packet passes from neighbour to neighbour, not
\* more often than its TTL allows even where routes form a loop, and it is neither
\* doubled nor found again after it was lost or delivered.
ImplementsDelivery == Service!Spec

\* Packets do not stay in the queue of a station that never has two requests for one
\* destination postponed: they are sent or, when the search is given up, dropped, even
\* if the answers never come. (Two postponed requests run one after the other and may
\* carry the counter past RreqRetries, for which RouteRequestTimerExpire tests with ==.)
PostponesOnce(n) == \A d \in Node : node[n].delayed[d] <= 1

PacketsLeave == \A n \in Node : []PostponesOnce(n) => []<>(node[n].queue = {})

\* Where nothing fails and the retry timers leave the answers their time, what an
\* application has sent between stations that are not alone arrives.
Connected(n) == \E m \in Node : <<n, m>> \in Links

EventuallyDelivered ==
  \A m \in Message :
    Connected(source[m]) /\ Connected(target[m]) /\ m \notin unsent ~> m \in delivered
=============================================================================
