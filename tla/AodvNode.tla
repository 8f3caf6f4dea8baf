------------------------------ MODULE AodvNode ------------------------------
(***************************************************************************)
(* One AODV station: the handlers of the class RoutingProtocol             *)
(* (src/src/aodv/model/aodv-routing-protocol.cc) with its packet queue,    *)
(* request cache and neighbours.                                           *)
(*                                                                         *)
(* A handler takes a step record [at, node, out] and returns the next one: *)
(* the station's address, its state, and the frames it has handed to its   *)
(* device. So a handler that calls others composes their steps, in order.  *)
(* Sending is immediate: the detour of a packet without a route over the   *)
(* loopback device and the jitter of up to 10 ms before a broadcast are    *)
(* left out; the frames then wait in the air, in no order.                 *)
(*                                                                         *)
(* A packet is [src, dst, ttl, body]; its body is application data or an   *)
(* AODV message. AODV's own unicast messages are ordinary packets: they    *)
(* are routed, queued and forwarded like data.                             *)
(***************************************************************************)
EXTENDS AodvTable

CONSTANTS
  RreqRetries,       \* attribute RreqRetries (2)
  TtlStart,          \* attribute TtlStart (1)
  TtlIncrement,      \* attribute TtlIncrement (2)
  TtlThreshold,      \* attribute TtlThreshold (7)
  NetDiameter,       \* attribute NetDiameter (35)
  RreqRateLimit,     \* attribute RreqRateLimit (10)
  MaxQueueLen,       \* attribute MaxQueueLen (64)
  GratuitousReply,   \* attribute GratuitousReply (true)
  DestinationOnly,   \* attribute DestinationOnly (false)
  DefaultTtl         \* the TTL of application data (64)

ASSUME AodvAttributes ==
  /\ {TtlStart, TtlIncrement, NetDiameter, MaxQueueLen, DefaultTtl} \subseteq Nat \ {0}
  /\ {RreqRetries, TtlThreshold, RreqRateLimit} \subseteq Nat
  /\ {GratuitousReply, DestinationOnly} \subseteq BOOLEAN

All == "all"   \* the subnet broadcast address

ASSUME AllAssumption == All \notin Node

NewNode == [
  rt        |-> EmptyTable,          \* m_routingTable
  seqNo     |-> 0,                   \* m_seqNo
  requestId |-> 0,                   \* m_requestId
  seen      |-> {},                  \* m_rreqIdCache
  queue     |-> {},                  \* m_queue
  timers    |-> {},                  \* running timers of m_addressReqTimer
  delayed   |-> [d \in Node |-> 0],  \* postponed SendRequests per destination
  rreqCount |-> 0,                   \* m_rreqCount
  nb        |-> {}]                  \* m_nb

Packet(src, dst, ttl, body) == [src |-> src, dst |-> dst, ttl |-> ttl, body |-> body]

Rrep(dst, seqNo, origin, hop, ackRequired) ==
  [type |-> "RREP", dst |-> dst, seqNo |-> seqNo, origin |-> origin,
   hop |-> hop, ackRequired |-> ackRequired]
Rerr(lost) == [type |-> "RERR", lost |-> lost]
ReplyAck   == [type |-> "RREP_ACK"]
Data(id)   == [type |-> "DATA", id |-> id]

-----------------------------------------------------------------------------
(* Steps.                                                                  *)

Begin(n, node) == [at |-> n, node |-> node, out |-> {}]

Emit(s, to, p) == [s EXCEPT !.out = @ \cup {[to |-> to, packet |-> p]}]

WithTable(s, t) == [s EXCEPT !.node.rt = t]

Broadcast(s, ttl, body) == Emit(s, All, Packet(s.at, All, ttl, body))

\* m_nb.Update; an entry without a next hop has no neighbour to update.
Refresh(s, m) == [s EXCEPT !.node.nb = @ \cup ({m} \ {None})]

-----------------------------------------------------------------------------
(* Route discovery.                                                        *)

\* The TTL of the next request, in which the hop field of an entry serves the
\* expanding ring search.
RingTtl(e) ==
  LET next == e.hop + TtlIncrement
  IN  CASE e.flag = "NONE"      -> TtlStart
        [] e.flag = "IN_SEARCH" -> IF next > TtlThreshold THEN NetDiameter ELSE next
        [] OTHER                -> IF next > NetDiameter THEN NetDiameter ELSE next

\* The entry of a destination while it is searched for with a request of ttl.
Searched(e, ttl) ==
  [e EXCEPT !.flag = "IN_SEARCH", !.hop = ttl,
            !.rreqCnt = IF ttl = NetDiameter THEN @ + 1 ELSE @]

\* Mutant of Postpone: a request over the limit is dropped, not postponed.
PostponeNever(s, d) == s

\* SendRequest runs again when the rate limit has been lifted.
Postpone(s, d) == [s EXCEPT !.node.delayed[d] = @ + 1]

SendRequest(s, d) ==
  LET old == s.node.rt[d]
      ttl == RingTtl(old)
      id  == s.node.requestId + 1
      rreq == [type |-> "RREQ", origin |-> s.at, id |-> id,
               originSeqNo |-> s.node.seqNo + 1, dst |-> d,
               known |-> old.known, dstSeqNo |-> IF old.known THEN old.seqNo ELSE 0,
               hop |-> 0]
  IN  IF s.node.rreqCount = RreqRateLimit
      THEN Postpone(s, d)
      ELSE Broadcast([s EXCEPT !.node.rreqCount = @ + 1,
                               !.node.rt[d] = Searched(old, ttl),
                               !.node.seqNo = @ + 1,
                               !.node.requestId = id,
                               !.node.seen = @ \cup {<<s.at, id>>},
                               !.node.timers = @ \cup {d}],
                     ttl, rreq)

(* The queue is a set of numbered packets, the lower number being the older. *)

Oldest(queue) == CHOOSE q \in queue : \A r \in queue : q.no <= r.no
Newest(queue) == CHOOSE q \in queue : \A r \in queue : q.no >= r.no
NextNo(queue) == IF queue = {} THEN 1 ELSE Newest(queue).no + 1

\* RequestQueue::Enqueue; when the queue is full, the oldest packet goes.
Enqueue(queue, p) ==
  (IF Cardinality(queue) = MaxQueueLen THEN queue \ {Oldest(queue)} ELSE queue)
    \cup {[no |-> NextNo(queue), packet |-> p]}

DeferredRouteOutput(s, p) ==
  LET queued == [s EXCEPT !.node.queue = Enqueue(@, p)]
  IN  IF s.node.rt[p.dst].flag = "IN_SEARCH" THEN queued
                                             ELSE SendRequest(queued, p.dst)

\* RouteOutput, and the transmission when there is a route.
RouteOutput(s, p) ==
  IF LookupValidRoute(s.node.rt, p.dst)
  THEN Emit(s, s.node.rt[p.dst].nextHop, p)
  ELSE DeferredRouteOutput(s, p)

\* Send an AODV message of this station to an address.
SendTo(s, m, ttl, body) == RouteOutput(s, Packet(s.at, m, ttl, body))

ToDestination(queue, d) == {q \in queue : q.packet.dst = d}
DropPacketWithDst(queue, d) == {q \in queue : q.packet.dst # d}

\* Mutant of SendPacketFromQueue: what is sent stays in the queue.
SendPacketFromQueueKeeping(s, d) ==
  [s EXCEPT !.out = @ \cup {[to |-> s.node.rt[d].nextHop, packet |-> q.packet] :
                              q \in ToDestination(s.node.queue, d)}]

\* Everything that waits for d leaves through d's entry, whatever its flag.
SendPacketFromQueue(s, d) ==
  [s EXCEPT !.node.queue = DropPacketWithDst(@, d),
            !.out = @ \cup {[to |-> s.node.rt[d].nextHop, packet |-> q.packet] :
                              q \in ToDestination(s.node.queue, d)}]

\* Mutants of GiveUp: the packets, or the entry in search, are kept.
GiveUpKeepsPackets(s, d) == [s EXCEPT !.node.timers = @ \ {d},
                                      !.node.rt = DeleteRoute(@, d)]
GiveUpKeepsEntry(s, d) == [s EXCEPT !.node.timers = @ \ {d},
                                    !.node.queue = DropPacketWithDst(@, d)]

GiveUp(s, d) == [s EXCEPT !.node.timers = @ \ {d},
                          !.node.rt = DeleteRoute(@, d),
                          !.node.queue = DropPacketWithDst(@, d)]

\* Mutant of RouteRequestTimerExpire: any entry counts as a route.
RouteRequestTimerExpireAnyEntry(fired, d) ==
  SendPacketFromQueue([fired EXCEPT !.node.timers = @ \ {d}], d)

RouteRequestTimerExpire(fired, d) ==
  LET s == [fired EXCEPT !.node.timers = @ \ {d}]
      e == s.node.rt[d]
  IN  CASE e.flag = "VALID" -> SendPacketFromQueue(s, d)
        [] e.flag = "IN_SEARCH" /\ e.rreqCnt # RreqRetries -> SendRequest(s, d)
        [] OTHER -> GiveUp(s, d)

-----------------------------------------------------------------------------
(* Broken links and routes.                                                *)

\* Tell the precursors, if one of them can be reached by the table t. (The rate
\* limit, which only suppresses RERRs, is left to the radio, which loses them.)
SendRerrMessage(s, t, lost, precursors) ==
  CASE \A m \in precursors : ~LookupValidRoute(t, m) -> s
    [] \E m \in precursors : LookupValidRoute(t, m) /\ precursors = {m} ->
         SendTo(s, CHOOSE m \in precursors : TRUE, 1, Rerr(lost))
    [] OTHER -> Broadcast(s, 1, Rerr(lost))

\* The RERR is addressed before the routes are invalidated and sent after it.
ReportLost(s, lost) ==
  SendRerrMessage(WithTable(s, InvalidateRoutesWithDst(s.node.rt, lost)),
                  s.node.rt, lost, Precursors(s.node.rt, lost))

SendRerrWhenBreaksLinkToNextHop(s, m) ==
  IF LookupRoute(s.node.rt, m)
  THEN ReportLost(s, {m} \cup DestinationsVia(s.node.rt, m))
  ELSE s

\* Neighbors::Purge: the link to m has failed or timed out.
CloseNeighbor(s, m) ==
  LET told == SendRerrWhenBreaksLinkToNextHop(s, m)
  IN  [told EXCEPT !.node.nb = @ \ {m}]

SendRerrWhenNoRouteToForward(s, d, origin) ==
  IF LookupValidRoute(s.node.rt, origin)
  THEN SendTo(s, s.node.rt[origin].nextHop, 1, Rerr({d}))
  ELSE Broadcast(s, 1, Rerr({d}))

RecvError(s, p) ==
  ReportLost(s, p.body.lost \cap DestinationsVia(s.node.rt, p.src))

-----------------------------------------------------------------------------
(* Route requests.                                                         *)

UpdateRouteToNeighbor(s, m) ==
  LET e == s.node.rt[m]
  IN  IF LookupRoute(s.node.rt, m) /\ e.known /\ e.hop = 1
      THEN s
      ELSE WithTable(s, Put(s.node.rt, m, Route(FALSE, 0, 1, m)))

\* The reverse route. Its flag is not touched if there is an entry already.
ReverseRoute(t, rreq, src) ==
  LET e == t[rreq.origin]
      new == IF e.known /\ e.seqNo > rreq.originSeqNo THEN e.seqNo
                                                     ELSE rreq.originSeqNo
  IN  IF LookupRoute(t, rreq.origin)
      THEN Update(t, rreq.origin, [e EXCEPT !.seqNo = new, !.known = TRUE,
                                            !.nextHop = src, !.hop = rreq.hop + 1])
      ELSE AddRoute(t, rreq.origin,
                    Route(TRUE, rreq.originSeqNo, rreq.hop + 1, src))

\* Mutant of PreviousHop: the copied number is believed.
PreviousHopKnown(t, rreq, src) ==
  Put(t, src, [t[src] EXCEPT !.flag = "VALID", !.known = TRUE,
                 !.seqNo = rreq.originSeqNo, !.hop = 1, !.nextHop = src])

\* The entry of the previous hop gets the originator's number, marked unknown.
PreviousHop(t, rreq, src) ==
  IF LookupRoute(t, src)
  THEN Update(t, src, [t[src] EXCEPT !.flag = "VALID", !.known = FALSE,
                         !.seqNo = rreq.originSeqNo, !.hop = 1, !.nextHop = src])
  ELSE AddRoute(t, src, Route(FALSE, rreq.originSeqNo, 1, src))

SendReply(s, rreq) ==
  LET toOrigin == s.node.rt[rreq.origin]
      seqNo == IF rreq.known /\ rreq.dstSeqNo = s.node.seqNo + 1
               THEN s.node.seqNo + 1 ELSE s.node.seqNo
  IN  SendTo([s EXCEPT !.node.seqNo = seqNo], toOrigin.nextHop, toOrigin.hop,
             Rrep(s.at, seqNo, rreq.origin, 0, FALSE))

SendReplyByIntermediateNode(s, d, origin) ==
  LET toDst    == s.node.rt[d]
      toOrigin == s.node.rt[origin]
      linked   == InsertPrecursor(InsertPrecursor(s.node.rt, d, toOrigin.nextHop),
                                  origin, toDst.nextHop)
      replied  == SendTo(WithTable(s, linked), toOrigin.nextHop, toOrigin.hop,
                         Rrep(d, toDst.seqNo, origin, toDst.hop, toDst.hop = 1))
  IN  IF GratuitousReply
      THEN SendTo(replied, toDst.nextHop, toDst.hop,
                  Rrep(origin, toOrigin.seqNo, d, toOrigin.hop, FALSE))
      ELSE replied

ForwardRequest(s, ttl, rreq) ==
  IF ttl < 2 THEN s ELSE Broadcast(s, ttl - 1, rreq)

\* Does the entry e answer, or at least complete, the request?
KnowsEnough(e, rreq) == e.known /\ (rreq.known => e.seqNo >= rreq.dstSeqNo)

\* "This node RREP will make a loop": it would send back what it gets.
MakesLoop(toDst, src) == toDst.nextHop = src

AnswerRequest(s, p) ==
  LET rreq  == [p.body EXCEPT !.hop = @ + 1]
      toDst == s.node.rt[rreq.dst]
  IN  CASE rreq.dst = s.at -> SendReply(s, rreq)
        [] rreq.dst # s.at /\ ~LookupRoute(s.node.rt, rreq.dst) ->
             ForwardRequest(s, p.ttl, rreq)
        [] rreq.dst # s.at /\ LookupRoute(s.node.rt, rreq.dst) ->
             CASE MakesLoop(toDst, p.src) -> s
               [] ~MakesLoop(toDst, p.src) /\ KnowsEnough(toDst, rreq)
                    /\ toDst.flag = "VALID" /\ ~DestinationOnly ->
                    SendReplyByIntermediateNode(s, rreq.dst, rreq.origin)
               [] ~MakesLoop(toDst, p.src) /\ KnowsEnough(toDst, rreq)
                    /\ (toDst.flag # "VALID" \/ DestinationOnly) ->
                    ForwardRequest(s, p.ttl, [rreq EXCEPT !.known = TRUE,
                                                          !.dstSeqNo = toDst.seqNo])
               [] OTHER -> ForwardRequest(s, p.ttl, rreq)

RecvRequest(s, p) ==
  LET id == <<p.body.origin, p.body.id>>
      t  == PreviousHop(ReverseRoute(s.node.rt, p.body, p.src), p.body, p.src)
      noted == [s EXCEPT !.node.seen = @ \cup {id}]
  IN  IF id \in s.node.seen THEN s
      ELSE AnswerRequest(Refresh(WithTable(noted, t), p.src), p)

-----------------------------------------------------------------------------
(* Route replies and hellos.                                               *)

\* When a reply replaces the entry of its destination.
Supersedes(rrep, hop, e) ==
  \/ ~e.known
  \/ rrep.seqNo > e.seqNo
  \/ rrep.seqNo = e.seqNo /\ (e.flag # "VALID" \/ hop < e.hop)

ForwardReply(s, p, rrep) ==
  LET t        == s.node.rt
      toDst    == t[rrep.dst]
      toOrigin == t[rrep.origin]
      t1 == InsertPrecursor(t, rrep.dst, toOrigin.nextHop)
      t2 == InsertPrecursor(t1, toDst.nextHop, toOrigin.nextHop)
      t3 == Update(t2, rrep.origin,
                   [toOrigin EXCEPT !.precursors = @ \cup {toDst.nextHop}])
      t4 == InsertPrecursor(t3, toOrigin.nextHop, toDst.nextHop)
      linked == IF LookupValidRoute(t, rrep.dst) THEN WithTable(s, t4) ELSE s
  IN  IF p.ttl < 2 THEN linked
      ELSE SendTo(linked, toOrigin.nextHop, p.ttl - 1, rrep)

\* Mutant of CompleteDiscovery: the packets are left to the timer that it stops.
CompleteDiscoveryNoFlush(s, d, wasInSearch, new) ==
  IF wasInSearch
  THEN [s EXCEPT !.node.rt = Update(@, d, new), !.node.timers = @ \ {d}]
  ELSE s

\* The reply has reached the station that asked.
CompleteDiscovery(s, d, wasInSearch, new) ==
  SendPacketFromQueue(
    IF wasInSearch
    THEN [s EXCEPT !.node.rt = Update(@, d, new), !.node.timers = @ \ {d}]
    ELSE s, d)

ProcessHello(s, rrep) ==
  LET t == s.node.rt
      heard == IF LookupRoute(t, rrep.dst)
               THEN Update(t, rrep.dst,
                      [t[rrep.dst] EXCEPT !.flag = "VALID", !.known = TRUE,
                         !.seqNo = rrep.seqNo, !.hop = 1, !.nextHop = rrep.dst])
               ELSE AddRoute(t, rrep.dst, Route(TRUE, rrep.seqNo, 1, rrep.dst))
  IN  Refresh(WithTable(s, heard), rrep.dst)

AcceptReply(s, p) ==
  LET rrep == [p.body EXCEPT !.hop = @ + 1, !.ackRequired = FALSE]
      d    == rrep.dst
      old  == s.node.rt[d]
      new  == Route(TRUE, rrep.seqNo, rrep.hop, p.src)
      routed == IF Supersedes(rrep, rrep.hop, old)
                THEN WithTable(s, Put(s.node.rt, d, new)) ELSE s
      acked  == IF p.body.ackRequired THEN SendTo(routed, p.src, 1, ReplyAck)
                                      ELSE routed
      toOrigin == acked.node.rt[rrep.origin]
  IN  CASE rrep.origin = s.at ->
             CompleteDiscovery(acked, d, old.flag = "IN_SEARCH", new)
        [] rrep.origin # s.at /\ toOrigin.flag \in {"NONE", "IN_SEARCH"} -> acked
        [] OTHER -> ForwardReply(acked, p, rrep)

RecvReply(s, p) ==
  IF p.body.dst = p.body.origin THEN ProcessHello(s, p.body) ELSE AcceptReply(s, p)

RecvReplyAck(s, p) ==
  WithTable(s, Update(s.node.rt, p.src, [s.node.rt[p.src] EXCEPT !.flag = "VALID"]))

RecvAodv(s, p) ==
  LET known == UpdateRouteToNeighbor(s, p.src)
  IN  CASE p.body.type = "RREQ"     -> RecvRequest(known, p)
        [] p.body.type = "RREP"     -> RecvReply(known, p)
        [] p.body.type = "RERR"     -> RecvError(known, p)
        [] p.body.type = "RREP_ACK" -> RecvReplyAck(known, p)

-----------------------------------------------------------------------------
(* Packets that arrive.                                                    *)

\* Mutant of Forwarding: the TTL is looked at but not reduced.
ForwardingKeepsTtl(s, p) ==
  LET e == s.node.rt[p.dst]
      refreshed == Refresh(Refresh(s, e.nextHop), s.node.rt[p.src].nextHop)
  IN  CASE e.flag # "VALID" -> SendRerrWhenNoRouteToForward(s, p.dst, p.src)
        [] e.flag = "VALID" /\ p.ttl < 2 -> refreshed
        [] e.flag = "VALID" /\ p.ttl >= 2 -> Emit(refreshed, e.nextHop, p)

Forwarding(s, p) ==
  LET e == s.node.rt[p.dst]
      refreshed == Refresh(Refresh(s, e.nextHop), s.node.rt[p.src].nextHop)
  IN  CASE e.flag # "VALID" -> SendRerrWhenNoRouteToForward(s, p.dst, p.src)
        [] e.flag = "VALID" /\ p.ttl < 2 -> refreshed
        [] e.flag = "VALID" /\ p.ttl >= 2 ->
             Emit(refreshed, e.nextHop, [p EXCEPT !.ttl = @ - 1])

LocalDeliver(s, p) ==
  LET refreshed == IF LookupValidRoute(s.node.rt, p.src)
                   THEN Refresh(s, s.node.rt[p.src].nextHop) ELSE s
  IN  IF p.body.type = "DATA" THEN refreshed ELSE RecvAodv(refreshed, p)

RouteInput(s, p) ==
  CASE p.src = s.at                    -> s
    [] p.src # s.at /\ p.dst = All     -> RecvAodv(s, p)
    [] p.src # s.at /\ p.dst = s.at    -> LocalDeliver(s, p)
    [] p.src # s.at /\ p.dst \notin {All, s.at} -> Forwarding(s, p)
=============================================================================
