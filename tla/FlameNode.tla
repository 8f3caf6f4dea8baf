------------------------------ MODULE FlameNode ------------------------------
(***************************************************************************)
(* A FLAME mesh point: FlameProtocol, FlameRtable and FlameProtocolMac     *)
(* (src/src/mesh/model/flame/), and what MeshPointDevice                   *)
(* (src/src/mesh/model/mesh-point-device.cc) does with a packet that comes *)
(* from an interface. Every frame carries its source's running number; the *)
(* first copy that arrives sets the path to the source and is passed on.   *)
(*                                                                         *)
(* A handler runs at mesh point n with a state of n; its result is the new *)
(* state, the frames it has emitted and whether the stack got the packet.  *)
(* A mesh point has one interface.                                         *)
(***************************************************************************)
EXTENDS Integers, FiniteSets

CONSTANTS
  Node,      \* the mesh points
  None,      \* no next hop
  All,       \* the broadcast address
  Message,   \* the packets of the upper layers
  Update,    \* the empty packet that updates paths
  MaxCost    \* attribute MaxCost (32)

ASSUME NodeAssumption ==
  /\ IsFiniteSet(Node)
  /\ None \notin Node /\ All \notin Node /\ All # None
  /\ Update \notin Message
  /\ MaxCost \in Nat

Route == [next: Node \cup {None}, cost: 0..MaxCost, seqNo: Nat]

\* No entry, or one whose lifetime is over: Lookup erases it.
NoRoute == [next |-> None, cost |-> 0, seqNo |-> 0]

\* last: was m_lastBroadcast never set, or less than a BroadcastInterval ago, or earlier?
\* What was never set is old as soon as the simulation is older than the interval.
NodeState == [rt: [Node -> Route], seqNo: Nat, last: {"never", "recent", "old"}]

NewNode == [rt |-> [d \in Node |-> NoRoute], seqNo |-> 1, last |-> "never"]

Result(state, out, given) == [node |-> state, out |-> out, given |-> given]

Frame(from, to, src, dst, seqNo, cost, id) ==
  [from |-> from, to |-> to, src |-> src, dst |-> dst, seqNo |-> seqNo, cost |-> cost, id |-> id]

-----------------------------------------------------------------------------
Known(state, d) == state.rt[d].next # None

\* The receiver address of a frame for dst; broadcasts have no entry.
NextHop(state, dst) ==
  IF dst # All /\ Known(state, dst) THEN state.rt[dst].next ELSE All

\* Mutant of Duplicate: another copy of the newest frame is no duplicate.
DuplicateIfOlder(known, seqNo) ==
  \/ 0 < known - seqNo /\ known - seqNo < 32768
  \/ known - seqNo < -32768

\* (int16_t)(result.seqnum - seqno) >= 0 for two uint16_t.
Duplicate(known, seqNo) ==
  \/ 0 <= known - seqNo /\ known - seqNo < 32768
  \/ known - seqNo < -32768

\* Mutant of Dropped: a frame of one's own is handled like any other.
DroppedIfDuplicate(n, state, f) ==
  \/ Known(state, f.src) /\ Duplicate(state.rt[f.src].seqNo, f.seqNo)
  \/ f.cost > MaxCost

\* HandleDataFrame returns true.
Dropped(n, state, f) ==
  \/ f.src = n
  \/ Known(state, f.src) /\ Duplicate(state.rt[f.src].seqNo, f.seqNo)
  \/ f.cost > MaxCost

\* Mutant of AddPath: an entry that exists keeps its number.
AddPathKeepsSeqNo(state, f) ==
  [state EXCEPT !.rt[f.src] =
     [next |-> f.from, cost |-> f.cost,
      seqNo |-> IF Known(state, f.src) THEN @.seqNo ELSE f.seqNo]]

\* HandleDataFrame otherwise: the path to the source leads over the sender.
AddPath(state, f) ==
  [state EXCEPT !.rt[f.src] = [next |-> f.from, cost |-> f.cost, seqNo |-> f.seqNo]]

-----------------------------------------------------------------------------
(* RequestRoute for a packet of the upper layer.                           *)

\* Without a path, or when the last broadcast is old, the frame is broadcast.
Receiver(state, dst) == IF state.last = "old" THEN All ELSE NextHop(state, dst)

\* Mutant of SendPacket: the number is not counted up.
SendPacketSameNumber(n, state, dst, id) ==
  LET to == Receiver(state, dst)
  IN  Result([state EXCEPT !.last = IF to = All THEN "recent" ELSE @],
             {Frame(n, to, n, dst, state.seqNo, 0, id)}, FALSE)

SendPacket(n, state, dst, id) ==
  LET to == Receiver(state, dst)
  IN  Result([rt    |-> state.rt,
              seqNo |-> state.seqNo + 1,
              last  |-> IF to = All THEN "recent" ELSE state.last],
             {Frame(n, to, n, dst, state.seqNo, 0, id)}, FALSE)

-----------------------------------------------------------------------------
(* ReceiveFromDevice, with RemoveRoutingStuff and RequestRoute for a frame *)
(* that is passed on. f is a frame with f.to this mesh point or All.       *)

PassOn(n, f, to) == Frame(n, to, f.src, f.dst, f.seqNo, f.cost + 1, f.id)

\* A broadcast goes to the stack and to everybody.
ReceiveBroadcast(n, state, f) == Result(AddPath(state, f), {PassOn(n, f, All)}, TRUE)

\* The first packet for this mesh point, or the first in a while, makes it broadcast
\* an update of the paths to it.
ReceiveOwn(n, state, f) ==
  LET stored == AddPath(state, f)
      update == SendPacket(n, stored, All, Update)
  IN  IF state.last = "recent" THEN Result(stored, {}, TRUE)
                               ELSE Result(update.node, update.out, TRUE)

\* What was broadcast for lack of a path is broadcast again; what was sent along a
\* path follows the path from here, if there is one.
Forward(n, state, f) ==
  LET stored == AddPath(state, f)
      to     == IF f.to = All THEN All ELSE NextHop(stored, f.dst)
  IN  Result(stored,
             IF f.to # All /\ to = All THEN {} ELSE {PassOn(n, f, to)}, FALSE)

ReceiveFromDevice(n, state, f) ==
  IF Dropped(n, state, f) THEN Result(state, {}, FALSE)
  ELSE IF f.dst = All     THEN ReceiveBroadcast(n, state, f)
  ELSE IF f.dst = n       THEN ReceiveOwn(n, state, f)
                          ELSE Forward(n, state, f)
=============================================================================
