------------------------------ MODULE HwmpNode ------------------------------
(***************************************************************************)
(* One HWMP mesh point: the handlers of HwmpProtocol and of its plug-in    *)
(* HwmpProtocolMac (src/src/mesh/model/dot11s/hwmp-protocol.cc and         *)
(* hwmp-protocol-mac.cc), with the path requests and errors that wait for  *)
(* the rate limit and the packets that wait for a path.                    *)
(*                                                                         *)
(* A handler takes a step record [at, node, out] and returns the next one: *)
(* the mesh point, its state, and the frames it has handed to its device.  *)
(* Handlers that call others compose their steps, in order.                *)
(*                                                                         *)
(* The metric of every link is 1. A path request asks for a set of         *)
(* destinations, or, sent by the root, for All. Packets to the broadcast   *)
(* address are left out.                                                   *)
(***************************************************************************)
EXTENDS HwmpTable, Sequences

CONSTANTS
  MaxTtl,        \* attribute MaxTtl (32, at least 2)
  MaxRetries,    \* attribute Dot11MeshHWMPmaxPREQretries (3, at least 1)
  MaxQueueSize,  \* attribute MaxQueueSize (255, at least 1)
  DoFlag,        \* attribute DoFlag (FALSE): only the destination may answer
  RfFlag         \* attribute RfFlag (TRUE): who answers also passes the request on

ASSUME HwmpAttributes ==
  /\ MaxTtl \in Nat \ {0, 1}
  /\ {MaxRetries, MaxQueueSize} \subseteq Nat \ {0}
  /\ {DoFlag, RfFlag} \subseteq BOOLEAN

All == "all"   \* the broadcast address

ASSUME AllAssumption == All \notin Node

NewNode == [
  rt        |-> EmptyTable,                                 \* m_rtable
  heard     |-> [d \in Node |-> [seqNo |-> 0, metric |-> 0]], \* m_hwmpSeqnoMetricDatabase
  seqNo     |-> 1,                                          \* m_hwmpSeqno
  queue     |-> {},                                         \* m_rqueue
  timers    |-> [d \in Node |-> 0],                         \* m_preqTimeouts: number of the retry
  myPreq    |-> <<>>,                                       \* m_myPreq
  preqTimer |-> FALSE,                                      \* m_preqTimer runs
  failed    |-> {},                                         \* m_myPerr.destinations
  receivers |-> {},                                         \* m_myPerr.receivers
  perrTimer |-> FALSE]                                      \* m_perrTimer runs

Data(src, dst, ttl, id) ==
  [type |-> "DATA", src |-> src, dst |-> dst, ttl |-> ttl, id |-> id]

Preqs(list) == [type |-> "PREQ", list |-> list]

Prep(orig, seqNo, dst, metric) ==
  [type |-> "PREP", orig |-> orig, seqNo |-> seqNo, dst |-> dst, metric |-> metric,
   ttl |-> MaxTtl]

Perr(failed) == [type |-> "PERR", failed |-> failed]

-----------------------------------------------------------------------------
(* Steps.                                                                  *)

Begin(n, node) == [at |-> n, node |-> node, out |-> {}]

Emit(s, to, p) == [s EXCEPT !.out = @ \cup {[to |-> to, packet |-> p]}]

WithTable(s, t) == [s EXCEPT !.node.rt = t]

NextSeqNo(s) == [s EXCEPT !.node.seqNo = @ + 1]

-----------------------------------------------------------------------------
(* The plug-in of the interface.                                           *)

SendPreq(s, list) == Emit(s, All, Preqs(list))

\* All waiting requests go out in one frame, unless the last ones went just now.
SendMyPreq(s) ==
  IF s.node.preqTimer \/ s.node.myPreq = <<>> THEN s
  ELSE SendPreq([s EXCEPT !.node.preqTimer = TRUE, !.node.myPreq = <<>>], s.node.myPreq)

\* One destination of a request.
Wanted(d, seqNo, do, rf) == [dst |-> d, seqNo |-> seqNo, do |-> do, rf |-> rf]

\* The destination also joins the requests that wait, once.
AskAlso(q, d, seqNo) ==
  IF \E e \in q.dests : e.dst = d THEN q
  ELSE [q EXCEPT !.dests = @ \cup {Wanted(d, seqNo, DoFlag, RfFlag)}]

RequestDestination(s, d, dstSeqNo) ==
  LET new == [orig |-> s.at, seqNo |-> s.node.seqNo, metric |-> 0, ttl |-> MaxTtl,
              dests |-> {Wanted(d, dstSeqNo, DoFlag, RfFlag)}]
      Ask(q) == AskAlso(q, d, dstSeqNo)
  IN  SendMyPreq([s EXCEPT !.node.myPreq = Append([i \in DOMAIN @ |-> Ask(@[i])], new)])

ForwardPerr(s, receivers, failed) ==
  [s EXCEPT !.out = @ \cup {[to |-> m, packet |-> Perr(failed)] : m \in receivers}]

\* The rate limit of errors: once started the timer rearms itself for ever.
SendMyPerr(s) ==
  ForwardPerr([s EXCEPT !.node.perrTimer = TRUE, !.node.failed = {}, !.node.receivers = {}],
              s.node.receivers, s.node.failed)

InitiatePerr(s, e) ==
  LET news == {f \in e.failed : \A g \in s.node.failed : g.dst = f.dst => g.seqNo <= f.seqNo}
      t == [s EXCEPT !.node.receivers = @ \cup e.receivers, !.node.failed = @ \cup news]
  IN  IF s.node.perrTimer THEN t ELSE SendMyPerr(t)

-----------------------------------------------------------------------------
(* Path errors.                                                            *)

\* GetPerrReceivers: whose paths over this mesh point have failed.
PerrReceivers(t, dsts) == UNION {t.paths[d].precursors : d \in dsts}

\* Mutant of WithoutPaths: the path to a failed root stays.
WithoutReactivePaths(t, dsts) == DeleteReactivePaths(t, dsts)

WithoutPaths(t, dsts) == DeleteProactivePaths(DeleteReactivePaths(t, dsts), dsts)

\* The paths go, and with nobody to tell there is nothing to tell.
MakePathError(s, failed) ==
  LET dsts == {f.dst : f \in failed}
      receivers == PerrReceivers(s.node.rt, dsts)
  IN  [step |-> WithTable(s, WithoutPaths(s.node.rt, dsts)),
       receivers |-> receivers,
       failed |-> IF receivers = {} THEN {} ELSE failed]

InitiatePathError(s, failed) ==
  LET e == MakePathError(s, failed) IN InitiatePerr(e.step, e)

\* All paths via m have failed.
PathsFail(s, m) ==
  LET t == WithTable(s, RaiseNumbers(s.node.rt, m))
  IN  InitiatePathError(t, UnreachableDestinations(t.node.rt, m))

\* PeerLinkStatus (false): the peer link to m has been closed.
PeerLinkClosed(s, m) == PathsFail(s, m)

ReceivePerr(s, from, failed) ==
  LET mine == {f \in failed : /\ s.node.rt.paths[f.dst].next = from
                              /\ s.node.rt.paths[f.dst].seqNo <= f.seqNo}
      e == MakePathError(s, mine)
  IN  IF mine = {} THEN s ELSE ForwardPerr(e.step, e.receivers, e.failed)

-----------------------------------------------------------------------------
(* Packets.                                                                *)

\* Mutant of Dequeue: what is sent stays in the queue.
DequeueKeeping(s, Q, m) ==
  [s EXCEPT !.out = @ \cup {[to |-> m, packet |-> p] : p \in Q}]

\* Send the packets of Q to m, from the queue.
Dequeue(s, Q, m) ==
  [s EXCEPT !.node.queue = @ \ Q, !.out = @ \cup {[to |-> m, packet |-> p] : p \in Q}]

\* The packets for d leave; the retry timer goes on.
ReactivePathResolved(s, d) ==
  Dequeue(s, {p \in s.node.queue : p.dst = d}, s.node.rt.paths[d].next)

\* All packets leave for the root, wherever they are bound.
ProactivePathResolved(s) == Dequeue(s, s.node.queue, s.node.rt.root.next)

\* The next hop on an active path to d, else on the one to the root.
NextHop(t, d) ==
  CASE t.paths[d].active -> t.paths[d].next
    [] ~t.paths[d].active /\ t.root.active -> t.root.next
    [] OTHER -> None

\* LookupReactive, then LookupProactive.
Lookup(s, d) ==
  IF s.node.rt.paths[d].active THEN s ELSE WithTable(s, PurgeRoot(s.node.rt))

QueuePacket(s, p) ==
  IF Cardinality(s.node.queue) > MaxQueueSize THEN s
  ELSE [s EXCEPT !.node.queue = @ \cup {p}]

\* A further request for d, with the number n of the retry.
AskAgain(s, d, n) ==
  RequestDestination(NextSeqNo([s EXCEPT !.node.timers[d] = n]), d, s.node.rt.paths[d].seqNo)

\* ShouldSendPreq starts the retry timer; if it runs already there is no new request.
RequestPath(s, d) ==
  IF s.node.timers[d] # 0 THEN s ELSE AskAgain(s, d, 1)

\* A packet of another without a path: whoever used the expired path is told.
ForwardFails(s, d) ==
  LET m == s.node.rt.paths[d].next IN IF m = None THEN s ELSE PathsFail(s, m)

ForwardUnicast(s, p, mine) ==
  LET t == Lookup(s, p.dst)
      next == NextHop(t.node.rt, p.dst)
  IN  CASE next # None -> Emit(t, next, p)
        [] next = None /\ ~mine -> ForwardFails(t, p.dst)
        [] OTHER -> QueuePacket(RequestPath(t, p.dst), p)

\* RequestRoute for a packet of the upper layer, and for one to be forwarded.
SendPacket(s, p) == ForwardUnicast(s, p, TRUE)

\* Mutant of ForwardPacket: the TTL is looked at but not reduced.
ForwardPacketKeepsTtl(s, p) == IF p.ttl = 1 THEN s ELSE ForwardUnicast(s, p, FALSE)

ForwardPacket(s, p) ==
  IF p.ttl = 1 THEN s ELSE ForwardUnicast(s, [p EXCEPT !.ttl = @ - 1], FALSE)

StopSearch(s, d) == [s EXCEPT !.node.timers[d] = 0]

\* Mutant of RetryPathDiscovery: the packets stay when the search is given up.
RetryKeepingPackets(s, d) ==
  LET t == Lookup(s, d)
  IN  IF NextHop(t.node.rt, d) # None \/ t.node.timers[d] > MaxRetries
      THEN StopSearch(t, d) ELSE AskAgain(t, d, t.node.timers[d] + 1)

\* Mutant of RetryPathDiscovery: one retry too many.
RetryOnceMore(s, d) ==
  LET t == Lookup(s, d)
  IN  CASE NextHop(t.node.rt, d) # None -> StopSearch(t, d)
        [] NextHop(t.node.rt, d) = None /\ t.node.timers[d] > MaxRetries + 1 ->
             StopSearch([t EXCEPT !.node.queue = {p \in @ : p.dst # d}], d)
        [] OTHER -> AskAgain(t, d, t.node.timers[d] + 1)

\* Mutant of RetryPathDiscovery: the retry has the number of the first request.
RetryWithOldNumber(s, d) ==
  LET t == Lookup(s, d)
  IN  CASE NextHop(t.node.rt, d) # None -> StopSearch(t, d)
        [] NextHop(t.node.rt, d) = None /\ t.node.timers[d] > MaxRetries ->
             StopSearch([t EXCEPT !.node.queue = {p \in @ : p.dst # d}], d)
        [] OTHER -> RequestDestination([t EXCEPT !.node.timers[d] = @ + 1], d,
                                       t.node.rt.paths[d].seqNo)

\* The retry timer of d expires. A path, reactive or to the root, ends the search; after
\* the last retry its packets are dropped.
RetryPathDiscovery(s, d) ==
  LET t == Lookup(s, d)
  IN  CASE NextHop(t.node.rt, d) # None -> StopSearch(t, d)
        [] NextHop(t.node.rt, d) = None /\ t.node.timers[d] > MaxRetries ->
             StopSearch([t EXCEPT !.node.queue = {p \in @ : p.dst # d}], d)
        [] OTHER -> AskAgain(t, d, t.node.timers[d] + 1)

-----------------------------------------------------------------------------
(* Path requests and replies.                                              *)

\* Mutant of PathTo: the packets for d wait for the retry timer.
PathToUnresolved(s, d, from, metric, seqNo) ==
  WithTable(s, AddReactivePath(s.node.rt, d, from, metric, seqNo))

\* A path to d via from; the packets for d leave.
PathTo(s, d, from, metric, seqNo) ==
  ReactivePathResolved(WithTable(s, AddReactivePath(s.node.rt, d, from, metric, seqNo)), d)

\* The neighbour that a message came from is reached directly, which is recorded
\* with the number of the message: the number of another mesh point.
PathToNeighbor(s, from, seqNo) ==
  IF Improves(s.node.rt, from, 1) THEN PathTo(s, from, from, 1, seqNo) ELSE s

\* A proactive request: a path to the root, and a reply in any case.
AnswerRoot(s, from, q) ==
  LET purged == WithTable(s, PurgeRoot(s.node.rt))
      t == IF ImprovesRoot(purged.node.rt, q.metric)
           THEN ProactivePathResolved(
                  WithTable(s, AddProactivePath(s.node.rt, q.orig, from, q.metric, q.seqNo)))
           ELSE purged
      u == NextSeqNo(t)
  IN  Emit(u, from, Prep(u.at, u.node.seqNo, q.orig, 0))

\* The request asks for this mesh point.
AnswerSelf(s, from, q) ==
  LET u == NextSeqNo(s) IN Emit(u, from, Prep(u.at, u.node.seqNo, q.orig, 0))

\* A mesh point on the way may answer and knows a path, at least as new as the requester's.
CanAnswer(s, e) ==
  /\ e.dst # s.at
  /\ ~e.do
  /\ s.node.rt.paths[e.dst].active
  /\ s.node.rt.paths[e.dst].seqNo >= e.seqNo

\* A reply for each of the destinations.
AnswerFor(s, from, q, dsts) ==
  LET Reply(d) == Prep(d, s.node.rt.paths[d].seqNo, q.orig, s.node.rt.paths[d].metric)
  IN  [s EXCEPT !.node.rt = AddPrecursors(@, dsts, from),
                !.out = @ \cup {[to |-> from, packet |-> Reply(d)] : d \in dsts}]

\* With RF an answered destination is still asked for, and answers itself.
PassOn(answered) == {[e EXCEPT !.do = TRUE, !.rf = FALSE] : e \in {a \in answered : a.rf}}

AnswerDests(s, from, q) ==
  LET answered == {e \in q.dests : CanAnswer(s, e)}
      own == {e \in q.dests : e.dst = s.at}
      rest == (q.dests \ (answered \cup own)) \cup PassOn(answered)
      t == IF own = {} THEN s ELSE AnswerSelf(s, from, q)
      u == AnswerFor(t, from, q, {e.dst : e \in answered})
  IN  IF rest = {} THEN u ELSE SendPreq(u, <<[q EXCEPT !.dests = rest]>>)

IsProactive(q) == \E e \in q.dests : e.dst = All

\* Nothing new: an older number, or the same with a metric that is not better.
Stale(s, q) ==
  LET h == s.node.heard[q.orig]
  IN  h.seqNo > q.seqNo \/ (h.seqNo = q.seqNo /\ h.metric <= q.metric)

\* ReceivePreq; the metric and the TTL of q have been adjusted.
ReceivePreq(s, from, q) ==
  LET fresh == s.node.heard[q.orig].seqNo # q.seqNo
      t == [s EXCEPT !.node.heard[q.orig] = [seqNo |-> q.seqNo, metric |-> q.metric]]
      u == IF fresh \/ Improves(t.node.rt, q.orig, q.metric)
           THEN PathTo(t, q.orig, from, q.metric, q.seqNo) ELSE t
      v == PathToNeighbor(u, from, q.seqNo)
  IN  CASE Stale(s, q) -> s
        [] ~Stale(s, q) /\ IsProactive(q) -> SendPreq(AnswerRoot(v, from, q), <<q>>)
        [] OTHER -> AnswerDests(v, from, q)

\* ReceiveAction for one element PREQ of a frame.
PreqElement(s, from, q) ==
  IF q.orig = s.at \/ q.ttl = 0 THEN s
  ELSE ReceivePreq(s, from, [q EXCEPT !.metric = @ + 1, !.ttl = @ - 1])

\* The elements of a frame are taken one after the other.
PreqElements(s, from, list) ==
  LET after[i \in 0..Len(list)] ==
        IF i = 0 THEN s ELSE PreqElement(after[i - 1], from, list[i])
  IN  after[Len(list)]

\* The next hop towards the requester is looked up before the path of the reply and
\* the one to the neighbour are stored, and used after that.
ReceivePrep(s, from, r) ==
  LET h == s.node.heard[r.orig]
      back == s.node.rt.paths[r.dst]
      t == [s EXCEPT !.node.heard[r.orig] = [seqNo |-> r.seqNo, metric |-> r.metric]]
      path == PathTo(t, r.orig, from, r.metric, r.seqNo)
      told == AddPrecursor(path.node.rt, r.dst, from)
      u == IF h.seqNo # r.seqNo \/ Improves(t.node.rt, r.orig, r.metric)
           THEN WithTable(path, IF back.active THEN AddPrecursor(told, r.orig, back.next)
                                ELSE told)
           ELSE t
      v == PathToNeighbor(u, from, r.seqNo)
  IN  CASE h.seqNo > r.seqNo -> s
        [] h.seqNo <= r.seqNo /\ r.dst # s.at /\ back.active -> Emit(v, back.next, r)
        [] OTHER -> v

PrepElement(s, from, r) ==
  IF r.ttl = 0 THEN s
  ELSE ReceivePrep(s, from, [r EXCEPT !.metric = @ + 1, !.ttl = @ - 1])

\* HwmpProtocolMac::Receive, and MeshPointDevice for data.
ReceiveFrame(s, from, p) ==
  CASE p.type = "PREQ" -> PreqElements(s, from, p.list)
    [] p.type = "PREP" -> PrepElement(s, from, p)
    [] p.type = "PERR" -> ReceivePerr(s, from, p.failed)
    [] p.type = "DATA" -> IF p.dst = s.at THEN s ELSE ForwardPacket(s, p)

\* SendProactivePreq of a root.
SendProactivePreq(s) ==
  LET t == NextSeqNo(s)
  IN  SendPreq(t, <<[orig |-> t.at, seqNo |-> t.node.seqNo, metric |-> 0, ttl |-> MaxTtl,
                     dests |-> {Wanted(All, 0, TRUE, TRUE)}]>>)
=============================================================================
