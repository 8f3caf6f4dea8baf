---------------------------- MODULE FlameNetwork ----------------------------
(***************************************************************************)
(* A mesh of FLAME mesh points over a radio that loses and reorders        *)
(* frames. An entry lives for 120 s after the frame that set it, longer    *)
(* than that frame and those that its destination sent before it: when it  *)
(* expires, only newer frames of the destination may be in the air. Losses *)
(* and expiries are counted by faults, the ends of broadcast intervals by  *)
(* ticks.                                                                  *)
(***************************************************************************)
EXTENDS FlameNode

CONSTANTS
  Links,       \* <<n, m>>: m hears n
  source,      \* source[m], target[m]: where message m comes from and goes to
  target,
  MaxFaults,   \* bound: frames lost at a receiver, expired paths
  MaxTicks,    \* bound: ends of broadcast intervals
  MaxSeqNo     \* bound: the frames that a mesh point numbers

ASSUME NetworkAssumption ==
  /\ Links \subseteq Node \X Node
  /\ \A n \in Node : <<n, n>> \notin Links
  /\ source \in [Message -> Node]
  /\ target \in [Message -> Node \cup {All}]
  /\ \A m \in Message : source[m] # target[m]
  /\ MaxFaults \in Nat /\ MaxTicks \in Nat
  /\ MaxSeqNo \in 1..32767

VARIABLES
  node,       \* the mesh points
  air,        \* the frames in transit, unordered
  unsent,     \* messages not sent yet
  delivered,  \* delivered[n][m]: how often the stack of n got message m
  rushed,     \* history: two frames of one source were in the air together
  faults, ticks

vars == <<node, air, unsent, delivered, rushed, faults, ticks>>

Init ==
  /\ node = [n \in Node |-> NewNode]
  /\ air = {}
  /\ unsent = Message
  /\ delivered = [n \in Node |-> [m \in Message |-> 0]]
  /\ rushed = FALSE
  /\ faults = 0
  /\ ticks = 0

-----------------------------------------------------------------------------
\* The mesh points that hear f and take it: FlameProtocolMac keeps the receiver address.
Receivers(f) == {n \in Node : <<f.from, n>> \in Links /\ f.to \in {n, All}}

Overlap(frames) == \E f, g \in frames : f.src = g.src /\ f.seqNo # g.seqNo

\* The frames in the air after a step.
Airborne(frames) == air' = frames /\ rushed' = (rushed \/ Overlap(frames))

MayNumber(n) == node[n].seqNo < MaxSeqNo

SendData(m) ==
  LET s == SendPacket(source[m], node[source[m]], target[m], m)
  IN  /\ m \in unsent
      /\ MayNumber(source[m])
      /\ unsent' = unsent \ {m}
      /\ node' = [node EXCEPT ![source[m]] = s.node]
      /\ Airborne(air \cup s.out)
      /\ UNCHANGED <<delivered, faults, ticks>>

\* The frame f is on the air: its receivers get it, but for those that lose it.
Receive(f, lost) ==
  LET hears == Receivers(f) \ lost
      Got(n) == ReceiveFromDevice(n, node[n], f)
  IN  /\ f \in air
      /\ \A n \in hears : MayNumber(n)
      /\ lost \subseteq Receivers(f)
      /\ faults + Cardinality(lost) <= MaxFaults
      /\ faults' = faults + Cardinality(lost)
      /\ node' = [n \in Node |-> IF n \in hears THEN Got(n).node ELSE node[n]]
      /\ Airborne((air \ {f}) \cup UNION {Got(n).out : n \in hears})
      /\ delivered' = [n \in Node |-> [m \in Message |->
           IF n \in hears /\ Got(n).given /\ f.id = m THEN delivered[n][m] + 1
                                                      ELSE delivered[n][m]]]
      /\ UNCHANGED <<unsent, ticks>>

\* The lifetime of an entry is over, and with it every frame of d up to its number.
RouteExpires(n, d) ==
  /\ Known(node[n], d)
  /\ \A f \in air : f.src = d => f.seqNo > node[n].rt[d].seqNo
  /\ faults < MaxFaults
  /\ faults' = faults + 1
  /\ node' = [node EXCEPT ![n].rt[d] = NoRoute]
  /\ UNCHANGED <<air, unsent, delivered, rushed, ticks>>

\* A broadcast interval of n is over.
IntervalEnds(n) ==
  /\ node[n].last # "old"
  /\ ticks < MaxTicks
  /\ ticks' = ticks + 1
  /\ node' = [node EXCEPT ![n].last = "old"]
  /\ UNCHANGED <<air, unsent, delivered, rushed, faults>>

Next ==
  \/ \E m \in Message : SendData(m)
  \/ \E f \in air : \E lost \in SUBSET Receivers(f) : Receive(f, lost)
  \/ \E n \in Node : IntervalEnds(n) \/ \E d \in Node : RouteExpires(n, d)

Spec == Init /\ [][Next]_vars

\* Frames in the air arrive.
FramesArrive == []<>(air = {}) \/ []<><<\E f \in air : Receive(f, {})>>_vars

FairSpec == Spec /\ FramesArrive

-----------------------------------------------------------------------------
(* Properties.                                                             *)

Frames == [from: Node, to: Node \cup {All}, src: Node, dst: Node \cup {All},
           seqNo: Nat, cost: 0..(MaxCost + 1), id: Message \cup {Update}]

\* The state has its types; no mesh point has a path to itself.
TypeOK ==
  /\ node \in [Node -> NodeState]
  /\ \A n \in Node : ~Known(node[n], n)
  /\ air \subseteq Frames
  /\ unsent \subseteq Message
  /\ delivered \in [Node -> [Message -> Nat]]
  /\ rushed \in BOOLEAN
  /\ faults \in Nat /\ ticks \in Nat

\* The entry e has news of the destination that came before that of the entry or frame
\* g: a higher number, or the same number over fewer hops.
Ahead(e, g) == e.seqNo > g.seqNo \/ (e.seqNo = g.seqNo /\ e.cost < g.cost)

\* Along a path the news of the destination get better with every hop, whatever copies
\* were lost or overtook each other, as long as an entry outlives the frames that are no
\* newer. HandleDataFrame never compares costs: it is the order of the first copies that
\* makes paths descend.
PathsDescend ==
  \A n, d \in Node :
    LET e == node[n].rt[d]
    IN  e.next \notin {None, d} /\ Known(node[e.next], d) =>
          Ahead(node[e.next].rt[d], e)

\* The mesh points of S send frames for d round among themselves.
Circle(S, d) == \A n \in S : node[n].rt[d].next \in S

\* So frames that follow paths never go round.
NoLoop == \A d \in Node : \A S \in SUBSET (Node \ {d}) : Circle(S, d) => S = {}

\* The stack gets no packet twice, however many copies of a broadcast arrive, and
\* although unicasts, broadcasts and updates of a source share one counter.
DeliveredOnce ==
  \A n \in Node, m \in Message :
    delivered[n][m] <= IF target[m] \in {n, All} /\ n # source[m] THEN 1 ELSE 0

\* Where nothing is lost or expires and no source has two frames under way at once, a
\* packet arrives, over a path or by a broadcast. (Of two frames under way the second
\* may overtake the first, which then counts as a duplicate.)
Arrived(m) ==
  \A n \in Node : target[m] \in {n, All} /\ n # source[m] => delivered[n][m] = 1
EventuallyDelivered ==
  \A m \in Message : m \notin unsent ~> Arrived(m) \/ faults > 0 \/ rushed
=============================================================================
