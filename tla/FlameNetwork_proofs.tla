------------------------ MODULE FlameNetwork_proofs ------------------------
(***************************************************************************)
(* Proofs about FlameNetwork, for every network, every set of messages and *)
(* every bound.                                                            *)
(*                                                                         *)
(* A mesh point that passes a frame on has just stored the frame's number  *)
(* and cost for its source, so its entry is ahead of the frame, and of     *)
(* every entry that the frame makes elsewhere (News). That lasts because   *)
(* an entry is only replaced by one with a higher number, and because it   *)
(* does not expire while a frame that is no newer is on its way (Fresh).   *)
(***************************************************************************)
EXTENDS FlameNetwork, FiniteSetTheorems, WellFoundedInduction, TLAPS

\* Numbers count on from 1; an entry has the number of a frame that its destination sent.
Numbers ==
  /\ \A n \in Node : node[n].seqNo \in 1..MaxSeqNo
  /\ \A n, d \in Node : Known(node[n], d) => node[n].rt[d].seqNo < node[d].seqNo

\* A frame has a number of its source, and its sender is ahead of it.
News ==
  \A f \in air :
    /\ f.seqNo < node[f.src].seqNo
    /\ f.from = f.src => f.cost = 0
    /\ f.from # f.src =>
         Known(node[f.from], f.src) /\ Ahead(node[f.from].rt[f.src], f)

\* Where a path leads over a mesh point that has no entry, whatever brings it one is
\* newer than the path.
Fresh ==
  \A n, d \in Node :
    LET e == node[n].rt[d]
    IN  e.next \notin {None, d} /\ ~Known(node[e.next], d) =>
          \A f \in air : f.src = d => e.seqNo < f.seqNo

\* All frames of a message have its source, its target and one number; nobody gets a
\* message before it is sent, nor twice, nor when it is for others; who got it has
\* stored the number.
Once ==
  /\ \A f \in air : f.id \in Message =>
       f.id \notin unsent /\ f.src = source[f.id] /\ f.dst = target[f.id]
  /\ \A f, g \in air : f.id \in Message /\ f.id = g.id => f.seqNo = g.seqNo
  /\ \A n \in Node, m \in Message :
       /\ delivered[n][m] \in {0, 1}
       /\ delivered[n][m] = 1 =>
            /\ m \notin unsent
            /\ target[m] \in {n, All} /\ n # source[m]
            /\ \A f \in air : f.id = m =>
                 Known(node[n], source[m]) /\ node[n].rt[source[m]].seqNo >= f.seqNo

IInv == TypeOK /\ Numbers /\ News /\ PathsDescend /\ Fresh /\ Once

-----------------------------------------------------------------------------
(* What a handler does.                                                    *)

\* As long as numbers do not wrap, a duplicate has a number that is not new.
LEMMA DuplicateIsOld ==
  ASSUME NEW known \in Nat, NEW seqNo \in Nat, known <= 32767, seqNo <= 32767
  PROVE  Duplicate(known, seqNo) <=> seqNo <= known
BY DEF Duplicate

\* The step s took frame f: its node was old, and has the path to the source of f now.
Stored(old, new, f) ==
  new.rt = [old.rt EXCEPT ![f.src] =
              [next |-> f.from, cost |-> f.cost, seqNo |-> f.seqNo]]

\* The frame g is f, passed on by n; or an update of n.
PassedOn(g, f, n) ==
  /\ g.from = n /\ g.src = f.src /\ g.dst = f.dst /\ g.id = f.id
  /\ g.seqNo = f.seqNo /\ g.cost = f.cost + 1

OwnUpdate(g, old, new, n) ==
  /\ g.from = n /\ g.src = n /\ g.id = Update /\ g.cost = 0
  /\ g.seqNo = old.seqNo /\ new.seqNo = old.seqNo + 1

\* What becomes of frame f at mesh point n with state old, when the result is r.
Took(r, old, n, f) ==
  /\ r.node \in NodeState
  /\ r.out \subseteq Frames
  /\ r.node.seqNo \in {old.seqNo, old.seqNo + 1}
  /\ \/ r.node = old /\ r.out = {} /\ ~r.given
     \/ /\ Stored(old, r.node, f)
        /\ f.src # n
        /\ Known(old, f.src) => old.rt[f.src].seqNo < f.seqNo
        /\ r.given => f.dst \in {n, All}
        /\ \A g \in r.out : PassedOn(g, f, n) \/ OwnUpdate(g, old, r.node, n)

LEMMA ReceiverFacts ==
  ASSUME NEW state \in NodeState, NEW dst \in Node \cup {All}
  PROVE  NextHop(state, dst) \in Node \cup {All} /\ Receiver(state, dst) \in Node \cup {All}
<1>1. state.rt \in [Node -> Route]
  BY DEF NodeState
<1>2. dst \in Node /\ Known(state, dst) => state.rt[dst].next \in Node
  BY <1>1 DEF Known, Route
<1>3. QED
  BY <1>2 DEF NextHop, Receiver

LEMMA SendPacketFacts ==
  ASSUME NEW n \in Node, NEW state \in NodeState,
         NEW dst \in Node \cup {All}, NEW id \in Message \cup {Update}
  PROVE  LET r == SendPacket(n, state, dst, id)
         IN  /\ r.node \in NodeState
             /\ r.node.rt = state.rt
             /\ r.node.seqNo = state.seqNo + 1
             /\ r.out \subseteq Frames
             /\ \A g \in r.out :
                  /\ g.from = n /\ g.src = n /\ g.dst = dst /\ g.id = id
                  /\ g.seqNo = state.seqNo /\ g.cost = 0
<1> DEFINE to == Receiver(state, dst)
           last == IF to = All THEN "recent" ELSE state.last
           g == Frame(n, to, n, dst, state.seqNo, 0, id)
           r == SendPacket(n, state, dst, id)
<1>1. /\ r.node = [rt |-> state.rt, seqNo |-> state.seqNo + 1, last |-> last]
      /\ r.out = {g}
  BY DEF SendPacket, Result
<1>2. /\ state.rt \in [Node -> Route]
      /\ state.seqNo \in Nat /\ state.seqNo + 1 \in Nat
      /\ last \in {"never", "recent", "old"}
  BY DEF NodeState
<1>3. r.node \in NodeState /\ r.node.rt = state.rt /\ r.node.seqNo = state.seqNo + 1
  BY <1>1, <1>2 DEF NodeState
<1>4. g \in Frames
  BY <1>2, ReceiverFacts, NodeAssumption DEF Frame, Frames
<1>5. QED
  BY <1>1, <1>3, <1>4 DEF Frame

LEMMA AddPathFacts ==
  ASSUME NEW state \in NodeState, NEW f \in Frames, f.cost <= MaxCost
  PROVE  LET new == AddPath(state, f)
         IN  new \in NodeState /\ Stored(state, new, f) /\ new.seqNo = state.seqNo
<1> DEFINE entry == [next |-> f.from, cost |-> f.cost, seqNo |-> f.seqNo]
           rt == [state.rt EXCEPT ![f.src] = entry]
           new == AddPath(state, f)
<1>1. entry \in Route
  BY NodeAssumption DEF Frames, Route
<1>2. rt \in [Node -> Route]
  BY <1>1 DEF NodeState, Frames
<1>3. new = [state EXCEPT !.rt = rt]
  BY DEF AddPath
<1> HIDE DEF rt, new
<1>4. new \in NodeState /\ new.seqNo = state.seqNo /\ new.rt = rt
  BY <1>2, <1>3 DEF NodeState
<1>5. QED
  BY <1>4 DEF Stored, rt, new

\* Frame f arrives at mesh point n.
LEMMA ReceiveFacts ==
  ASSUME NEW n \in Node, NEW state \in NodeState, NEW f \in Frames,
         f.seqNo <= 32767, Known(state, f.src) => state.rt[f.src].seqNo <= 32767
  PROVE  Took(ReceiveFromDevice(n, state, f), state, n, f)
<1> DEFINE r == ReceiveFromDevice(n, state, f)
           new == AddPath(state, f)
<1>1. CASE Dropped(n, state, f)
  <2>1. r = Result(state, {}, FALSE)
    BY <1>1 DEF ReceiveFromDevice
  <2>2. r.node = state /\ r.out = {} /\ r.given = FALSE
    BY <2>1 DEF Result
  <2>3. QED
    BY <2>2 DEF Took
<1>2. CASE ~Dropped(n, state, f)
  <2>1. f.src # n /\ f.cost <= MaxCost
    <3>1. f.cost \in Nat /\ ~(f.cost > MaxCost)
      BY <1>2, NodeAssumption DEF Dropped, Frames
    <3>2. QED
      BY <1>2, <3>1, NodeAssumption DEF Dropped
  <2>2. Known(state, f.src) => state.rt[f.src].seqNo < f.seqNo
    <3>1. state.rt[f.src].seqNo \in Nat /\ f.seqNo \in Nat
      BY DEF NodeState, Route, Frames
    <3>2. Known(state, f.src) => ~Duplicate(state.rt[f.src].seqNo, f.seqNo)
      BY <1>2 DEF Dropped
    <3>3. QED
      BY <3>1, <3>2, DuplicateIsOld
  <2>3. new \in NodeState /\ Stored(state, new, f) /\ new.seqNo = state.seqNo
    BY <2>1, AddPathFacts
  <2>4. ASSUME NEW to \in Node \cup {All}
        PROVE  PassOn(n, f, to) \in Frames /\ PassedOn(PassOn(n, f, to), f, n)
    <3>1. f.cost + 1 \in 0..(MaxCost + 1)
      BY <2>1, NodeAssumption DEF Frames
    <3>2. QED
      BY <3>1 DEF Frames, Frame, PassOn, PassedOn
  <2> HIDE DEF new
  <2>5. CASE f.dst = All
    <3>1. r = Result(new, {PassOn(n, f, All)}, TRUE)
      BY <1>2, <2>5 DEF ReceiveFromDevice, ReceiveBroadcast, new
    <3>2. r.node = new /\ r.out = {PassOn(n, f, All)}
      BY <3>1 DEF Result
    <3>3. QED
      BY <2>1, <2>2, <2>3, <2>4, <2>5, <3>2 DEF Took
  <2>6. CASE f.dst # All /\ f.dst = n
    <3> DEFINE u == SendPacket(n, new, All, Update)
    <3>1. r = IF state.last = "recent" THEN Result(new, {}, TRUE)
                                       ELSE Result(u.node, u.out, TRUE)
      BY <1>2, <2>6 DEF ReceiveFromDevice, ReceiveOwn, new
    <3>2. CASE state.last = "recent"
      <4>1. r.node = new /\ r.out = {}
        BY <3>1, <3>2 DEF Result
      <4>2. QED
        BY <2>1, <2>2, <2>3, <2>6, <4>1 DEF Took
    <3>3. CASE state.last # "recent"
      <4>1. r.node = u.node /\ r.out = u.out
        BY <3>1, <3>3 DEF Result
      <4>2. /\ u.node \in NodeState
            /\ u.node.rt = new.rt
            /\ u.node.seqNo = state.seqNo + 1
            /\ u.out \subseteq Frames
            /\ \A g \in u.out : OwnUpdate(g, state, u.node, n)
        BY <2>3, SendPacketFacts DEF OwnUpdate
      <4>3. Stored(state, u.node, f)
        BY <2>3, <4>2 DEF Stored
      <4> HIDE DEF u, r
      <4>4. QED
        BY <2>1, <2>2, <2>6, <4>1, <4>2, <4>3 DEF Took, r
    <3>4. QED
      BY <3>2, <3>3
  <2>7. CASE f.dst # All /\ f.dst # n
    <3> DEFINE to == IF f.to = All THEN All ELSE NextHop(new, f.dst)
               out == IF f.to # All /\ to = All THEN {} ELSE {PassOn(n, f, to)}
    <3>1. r = Result(new, out, FALSE)
      BY <1>2, <2>7 DEF ReceiveFromDevice, Forward, new
    <3>2. r.node = new /\ r.out = out /\ r.given = FALSE
      BY <3>1 DEF Result
    <3>3. to \in Node \cup {All}
      BY <2>3, ReceiverFacts DEF Frames
    <3>4. out \subseteq Frames /\ \A g \in out : PassedOn(g, f, n)
      BY <2>4, <3>3
    <3> HIDE DEF out, r
    <3>5. QED
      BY <2>1, <2>2, <2>3, <3>2, <3>4 DEF Took, r
  <2>8. QED
    BY <2>5, <2>6, <2>7
<1>3. QED
  BY <1>1, <1>2

-----------------------------------------------------------------------------
(* What a step does to the entries and the frames. In a step at most one   *)
(* frame f is received, by several mesh points.                            *)

Kept(n, d) == node'[n].rt[d] = node[n].rt[d]

Renewed(n, d, f) ==
  /\ f \in air /\ f.src = d
  /\ n # d /\ n # f.from
  /\ node'[n].rt[d] = [next |-> f.from, cost |-> f.cost, seqNo |-> f.seqNo]
  /\ Known(node[n], d) => node[n].rt[d].seqNo < f.seqNo

OwnFrame(g) ==
  /\ g.from = g.src /\ g.cost = 0
  /\ g.seqNo = node[g.src].seqNo
  /\ node'[g.src].seqNo = g.seqNo + 1

Spread(f) ==
  /\ node' \in [Node -> NodeState]
  /\ \A n \in Node :
       /\ node'[n].seqNo \in {node[n].seqNo, node[n].seqNo + 1}
       /\ node'[n].seqNo <= MaxSeqNo
  /\ \A n, d \in Node : Kept(n, d) \/ Renewed(n, d, f)
  /\ air' \subseteq Frames
  /\ \A g \in air' :
       \/ g \in air
       \/ OwnFrame(g)
       \/ \E n \in Node : PassedOn(g, f, n) /\ Renewed(n, f.src, f)

\* What can be said of the types without the invariant.
LEMMA Types ==
  ASSUME TypeOK
  PROVE  /\ \A n \in Node : node[n].seqNo \in Nat /\ node[n].rt \in [Node -> Route]
         /\ \A n, d \in Node : /\ node[n].rt[d].next \in Node \cup {None}
                               /\ node[n].rt[d].seqNo \in Nat
                               /\ node[n].rt[d].cost \in Nat
         /\ \A f \in air : /\ f.seqNo \in Nat /\ f.cost \in Nat
                          /\ f.src \in Node /\ f.from \in Node
<1>1. \A e \in Route : e.next \in Node \cup {None} /\ e.seqNo \in Nat /\ e.cost \in Nat
  BY NodeAssumption DEF Route
<1>2. \A n \in Node : node[n] \in NodeState
  BY DEF TypeOK
<1>3. \A n \in Node : node[n].seqNo \in Nat /\ node[n].rt \in [Node -> Route]
  BY <1>2 DEF NodeState
<1>4. \A n, d \in Node : node[n].rt[d] \in Route
  BY <1>3
<1>5. \A f \in Frames : /\ f.seqNo \in Nat /\ f.cost \in Nat
                       /\ f.src \in Node /\ f.from \in Node
  BY NodeAssumption DEF Frames
<1>6. QED
  BY <1>1, <1>3, <1>4, <1>5 DEF TypeOK

\* Entries only get better.
LEMMA Better ==
  ASSUME TypeOK, NEW f, Spread(f), NEW n \in Node, NEW d \in Node, Known(node[n], d)
  PROVE  /\ Known(node'[n], d)
         /\ Kept(n, d) \/ node[n].rt[d].seqNo < node'[n].rt[d].seqNo
<1>1. CASE Kept(n, d)
  BY <1>1 DEF Kept, Known
<1>2. CASE Renewed(n, d, f)
  <2>1. f.from \in Node
    BY <1>2, Types DEF Renewed
  <2>2. QED
    BY <1>2, <2>1, NodeAssumption DEF Renewed, Known
<1>3. QED
  BY <1>1, <1>2 DEF Spread

\* What is ahead of something stays ahead of it.
LEMMA StaysAhead ==
  ASSUME TypeOK, NEW f, Spread(f), NEW n \in Node, NEW d \in Node, Known(node[n], d),
         NEW g, g.seqNo \in Nat, Ahead(node[n].rt[d], g)
  PROVE  Ahead(node'[n].rt[d], g)
<1>1. CASE Kept(n, d)
  BY <1>1 DEF Kept
<1>2. CASE node[n].rt[d].seqNo < node'[n].rt[d].seqNo
  <2>1. node[n].rt[d].seqNo \in Nat /\ node'[n].rt[d].seqNo \in Nat
    <3>1. node'[n] \in NodeState
      BY DEF Spread
    <3>2. node'[n].rt \in [Node -> Route]
      BY <3>1 DEF NodeState
    <3>3. node'[n].rt[d] \in Route
      BY <3>2
    <3>4. QED
      BY <3>3, Types DEF Route
  <2>2. QED
    BY <1>2, <2>1 DEF Ahead
<1>3. QED
  BY <1>1, <1>2, Better

LEMMA SpreadInv ==
  ASSUME IInv, NEW f, Spread(f)
  PROVE  Numbers' /\ News' /\ PathsDescend' /\ Fresh'
<1> USE DEF IInv
<1>1. /\ \A n \in Node : node[n].seqNo <= node'[n].seqNo /\ node'[n].seqNo \in Nat
      /\ \A n \in Node : node'[n].seqNo \in 1..MaxSeqNo
  <2>1. \A n \in Node : node[n].seqNo \in Nat /\ 1 <= node[n].seqNo
    BY Types DEF Numbers
  <2>2. MaxSeqNo \in Nat
    BY NetworkAssumption
  <2>3. ASSUME NEW n \in Node
        PROVE  /\ node[n].seqNo <= node'[n].seqNo /\ node'[n].seqNo \in Nat
               /\ node'[n].seqNo \in 1..MaxSeqNo
    <3>1. \/ node'[n].seqNo = node[n].seqNo
          \/ node'[n].seqNo = node[n].seqNo + 1
      BY DEF Spread
    <3>2. node'[n].seqNo <= MaxSeqNo
      BY DEF Spread
    <3>3. QED
      BY <2>1, <2>2, <3>1, <3>2
  <2>4. QED
    BY <2>3
<1>2. Numbers'
  <2>1. ASSUME NEW n \in Node, NEW d \in Node, Known(node[n], d)', Kept(n, d)
        PROVE  node'[n].rt[d].seqNo < node'[d].seqNo
    BY <1>1, <2>1, Types DEF Kept, Known, Numbers
  <2>2. ASSUME NEW n \in Node, NEW d \in Node, Renewed(n, d, f)
        PROVE  node'[n].rt[d].seqNo < node'[d].seqNo
    BY <1>1, <2>2, Types DEF Renewed, News
  <2>3. QED
    BY <1>1, <2>1, <2>2 DEF Numbers, Spread
<1>3. News'
  <2> SUFFICES ASSUME NEW g \in air'
               PROVE  /\ g.seqNo < node'[g.src].seqNo
                      /\ g.from = g.src => g.cost = 0
                      /\ g.from # g.src =>
                           Known(node'[g.from], g.src) /\ Ahead(node'[g.from].rt[g.src], g)
    BY DEF News
  <2>1. CASE g \in air
    BY <1>1, <2>1, Types, Better, StaysAhead DEF News
  <2>2. CASE OwnFrame(g)
    <3>1. g.src \in Node
      BY DEF Spread, Frames
    <3>2. QED
      BY <1>1, <2>2, <3>1, Types DEF OwnFrame
  <2>3. ASSUME NEW n \in Node, PassedOn(g, f, n), Renewed(n, f.src, f)
        PROVE  /\ g.seqNo < node'[g.src].seqNo
               /\ g.from # g.src
               /\ Known(node'[g.from], g.src) /\ Ahead(node'[g.from].rt[g.src], g)
    <3>1. g.from = n /\ g.src = f.src /\ g.seqNo = f.seqNo /\ g.cost = f.cost + 1
      BY <2>3 DEF PassedOn
    <3>2. f \in air /\ n # f.src
          /\ node'[n].rt[f.src] = [next |-> f.from, cost |-> f.cost, seqNo |-> f.seqNo]
      BY <2>3 DEF Renewed
    <3>3. f.seqNo \in Nat /\ f.cost \in Nat /\ f.src \in Node /\ f.from \in Node
      BY <3>2, Types
    <3>4. f.seqNo < node'[f.src].seqNo
      BY <1>1, <3>2, <3>3, Types DEF News
    <3>5. QED
      BY <3>1, <3>2, <3>3, <3>4, NodeAssumption DEF Known, Ahead
  <2>4. QED
    BY <2>1, <2>2, <2>3 DEF Spread
<1>4. PathsDescend'
  <2> SUFFICES ASSUME NEW n \in Node, NEW d \in Node,
                      node'[n].rt[d].next \notin {None, d},
                      Known(node'[node'[n].rt[d].next], d)
               PROVE  Ahead(node'[node'[n].rt[d].next].rt[d], node'[n].rt[d])
    BY DEF PathsDescend
  <2> DEFINE m == node'[n].rt[d].next
  <2>1. CASE Kept(n, d)
    <3>1. m = node[n].rt[d].next /\ m \in Node
      BY <2>1, Types DEF Kept
    <3>2. CASE Known(node[m], d)
      <4>1. Ahead(node[m].rt[d], node[n].rt[d])
        BY <3>1, <3>2 DEF PathsDescend
      <4>2. Ahead(node'[m].rt[d], node[n].rt[d])
        BY <3>1, <3>2, <4>1, StaysAhead, Types
      <4>3. QED
        BY <2>1, <4>2 DEF Kept
    <3>3. CASE ~Known(node[m], d)
      <4>1. ~Kept(m, d)
        BY <3>1, <3>3 DEF Kept, Known
      <4>2. Renewed(m, d, f)
        BY <3>1, <4>1 DEF Spread
      <4>3. node[n].rt[d].seqNo < f.seqNo
        BY <3>1, <3>3, <4>2 DEF Renewed, Fresh
      <4>4. node'[m].rt[d].seqNo = f.seqNo
        BY <4>2 DEF Renewed
      <4>5. QED
        BY <2>1, <4>2, <4>3, <4>4, Types DEF Kept, Ahead, Renewed
    <3>4. QED
      BY <3>2, <3>3
  <2>2. CASE Renewed(n, d, f)
    <3>1. /\ m = f.from /\ m # d /\ f \in air /\ f.src = d
          /\ node'[n].rt[d].seqNo = f.seqNo /\ node'[n].rt[d].cost = f.cost
      BY <2>2 DEF Renewed
    <3>2. m \in Node /\ f.seqNo \in Nat
      BY <3>1, Types
    <3>3. Known(node[m], d) /\ Ahead(node[m].rt[d], f)
      BY <3>1 DEF News
    <3>4. Ahead(node'[m].rt[d], f)
      BY <3>2, <3>3, StaysAhead
    <3>5. QED
      BY <3>1, <3>4 DEF Ahead
  <2>3. QED
    BY <2>1, <2>2 DEF Spread
<1>5. Fresh'
  <2> SUFFICES ASSUME NEW n \in Node, NEW d \in Node,
                      node'[n].rt[d].next \notin {None, d},
                      ~Known(node'[node'[n].rt[d].next], d),
                      NEW g \in air', g.src = d
               PROVE  node'[n].rt[d].seqNo < g.seqNo
    BY DEF Fresh
  <2> DEFINE m == node'[n].rt[d].next
  <2>1. CASE Kept(n, d)
    <3>1. m = node[n].rt[d].next /\ m \in Node
      BY <2>1, Types DEF Kept
    <3>2. ~Known(node[m], d)
      BY <3>1, Better
    <3>3. CASE g \in air
      BY <2>1, <3>1, <3>2, <3>3 DEF Kept, Fresh
    <3>4. CASE OwnFrame(g)
      <4>1. Known(node[n], d)
        BY <3>1 DEF Known
      <4>2. QED
        BY <2>1, <3>4, <4>1 DEF Kept, OwnFrame, Numbers
    <3>5. ASSUME NEW k \in Node, PassedOn(g, f, k), Renewed(k, f.src, f)
          PROVE  node'[n].rt[d].seqNo < g.seqNo
      BY <2>1, <3>1, <3>2, <3>5 DEF Kept, Fresh, PassedOn, Renewed
    <3>6. QED
      BY <3>3, <3>4, <3>5 DEF Spread
  <2>2. CASE Renewed(n, d, f)
    <3>1. m = f.from /\ m # d /\ f \in air /\ f.src = d
      BY <2>2 DEF Renewed
    <3>2. m \in Node /\ Known(node[m], d)
      BY <3>1, Types DEF News
    <3>3. QED
      BY <3>2, Better
  <2>3. QED
    BY <2>1, <2>2 DEF Spread
<1>6. QED
  BY <1>2, <1>3, <1>4, <1>5

-----------------------------------------------------------------------------
(* The steps.                                                              *)

LEMMA Bound == MaxSeqNo \in Nat /\ 1 <= MaxSeqNo /\ MaxSeqNo <= 32767
BY NetworkAssumption

LEMMA InitInv == Init => IInv
<1> SUFFICES ASSUME Init PROVE IInv
  OBVIOUS
<1>1. \A n, d \in Node : node[n].rt[d] = NoRoute /\ ~Known(node[n], d)
  BY DEF Init, NewNode, NoRoute, Known
<1>2. \A n \in Node : node[n].seqNo = 1
  BY DEF Init, NewNode
<1>3. TypeOK
  <2>1. NoRoute \in Route
    BY NodeAssumption DEF NoRoute, Route
  <2>2. NewNode \in NodeState
    BY <2>1 DEF NewNode, NodeState
  <2>3. QED
    BY <1>1, <2>2 DEF Init, TypeOK
<1>4. Numbers
  <2>1. 1 \in 1..MaxSeqNo
    BY Bound
  <2>2. QED
    BY <1>1, <1>2, <2>1 DEF Numbers
<1>5. News /\ PathsDescend /\ Fresh
  <2>1. air = {}
    BY DEF Init
  <2>2. \A n, d \in Node : node[n].rt[d].next = None
    BY <1>1 DEF NoRoute
  <2>3. News
    BY <2>1 DEF News
  <2>4. PathsDescend
    BY <2>2 DEF PathsDescend
  <2>5. Fresh
    BY <2>2 DEF Fresh
  <2>6. QED
    BY <2>3, <2>4, <2>5
<1>6. Once
  BY DEF Init, Once
<1>7. QED
  BY <1>3, <1>4, <1>5, <1>6 DEF IInv

LEMMA SendDataInv ==
  ASSUME IInv, NEW m \in Message, SendData(m)
  PROVE  IInv'
<1> DEFINE n0 == source[m]
           r == SendPacket(n0, node[n0], target[m], m)
<1> USE DEF IInv
<1>1. n0 \in Node /\ target[m] \in Node \cup {All}
  BY NetworkAssumption
<1>2. node[n0] \in NodeState
  BY <1>1 DEF TypeOK
<1>3. /\ r.node \in NodeState
      /\ r.node.rt = node[n0].rt
      /\ r.node.seqNo = node[n0].seqNo + 1
      /\ r.out \subseteq Frames
      /\ \A g \in r.out :
           /\ g.from = n0 /\ g.src = n0 /\ g.dst = target[m] /\ g.id = m
           /\ g.seqNo = node[n0].seqNo /\ g.cost = 0
  BY <1>1, <1>2, SendPacketFacts
<1>4. /\ m \in unsent /\ unsent' = unsent \ {m}
      /\ node[n0].seqNo < MaxSeqNo
      /\ node' = [node EXCEPT ![n0] = r.node]
      /\ air' = air \cup r.out
      /\ rushed' = (rushed \/ Overlap(air \cup r.out))
      /\ UNCHANGED <<delivered, faults, ticks>>
  BY DEF SendData, MayNumber, Airborne
<1> HIDE DEF r
<1>5. /\ node'[n0] = r.node
      /\ \A n \in Node : n # n0 => node'[n] = node[n]
      /\ node' \in [Node -> NodeState]
  BY <1>1, <1>3, <1>4 DEF TypeOK
<1>6. \A n \in Node : node'[n].rt = node[n].rt
  BY <1>3, <1>5
<1>7. Spread(r)
  <2>1. \A n, d \in Node : Kept(n, d)
    BY <1>6 DEF Kept
  <2>2. \A n \in Node : /\ node'[n].seqNo \in {node[n].seqNo, node[n].seqNo + 1}
                        /\ node'[n].seqNo <= MaxSeqNo
    <3>1. ASSUME NEW n \in Node, n # n0
          PROVE  node'[n].seqNo = node[n].seqNo /\ node'[n].seqNo <= MaxSeqNo
      <4>1. node'[n] = node[n] /\ node[n].seqNo \in 1..MaxSeqNo
        BY <1>5, <3>1 DEF Numbers
      <4>2. QED
        BY <4>1, Bound
    <3>2. node'[n0].seqNo = node[n0].seqNo + 1 /\ node'[n0].seqNo <= MaxSeqNo
      <4>1. node'[n0].seqNo = node[n0].seqNo + 1
        BY <1>3, <1>5
      <4>2. node[n0].seqNo \in Nat
        BY <1>1, Types
      <4>3. QED
        BY <1>4, <4>1, <4>2, Bound
    <3>3. QED
      BY <3>1, <3>2
  <2>3. air' \subseteq Frames /\ \A g \in air' : g \in air \/ OwnFrame(g)
    BY <1>3, <1>4, <1>5 DEF TypeOK, OwnFrame
  <2>4. QED
    BY <1>5, <2>1, <2>2, <2>3 DEF Spread
<1>8. TypeOK'
  BY <1>4, <1>5, <1>6, <1>7 DEF TypeOK, Spread, Known
<1>9. Once'
  <2>1. \A g \in air' : \/ g \in air /\ g.id # m
                       \/ /\ g.id = m /\ g.src = n0 /\ g.dst = target[m]
                          /\ g.seqNo = node[n0].seqNo
    <3>1. \A g \in air : g.id # m
      BY <1>4 DEF Once
    <3>2. QED
      BY <1>3, <1>4, <3>1
  <2>2. \A g \in air' : g.id \in Message =>
          g.id \notin unsent' /\ g.src = source[g.id] /\ g.dst = target[g.id]
    BY <1>4, <2>1 DEF Once
  <2>3. \A g, h \in air' : g.id \in Message /\ g.id = h.id => g.seqNo = h.seqNo
    BY <2>1 DEF Once
  <2>4. ASSUME NEW n \in Node, NEW k \in Message
        PROVE  /\ delivered'[n][k] \in {0, 1}
               /\ delivered'[n][k] = 1 =>
                    /\ k \notin unsent'
                    /\ target[k] \in {n, All} /\ n # source[k]
                    /\ \A g \in air' : g.id = k =>
                         Known(node'[n], source[k]) /\ node'[n].rt[source[k]].seqNo >= g.seqNo
    <3>1. delivered'[n][k] = delivered[n][k]
      BY <1>4
    <3>2. delivered[n][k] = 1 => k # m
      BY <1>4 DEF Once
    <3>3. QED
      BY <1>4, <1>6, <2>1, <3>1, <3>2 DEF Once, Known
  <2>5. QED
    BY <2>2, <2>3, <2>4 DEF Once
<1>10. QED
  BY <1>7, <1>8, <1>9, SpreadInv

\* What Receive does at each mesh point.
LEMMA Received ==
  ASSUME IInv, NEW f \in air, NEW lost, Receive(f, lost), NEW n \in Node
  PROVE  LET r == ReceiveFromDevice(n, node[n], f)
         IN  /\ n \in Receivers(f) \ lost => node'[n] = r.node /\ Took(r, node[n], n, f)
             /\ n \notin Receivers(f) \ lost => node'[n] = node[n]
<1> DEFINE r == ReceiveFromDevice(n, node[n], f)
<1>1. node'[n] = IF n \in Receivers(f) \ lost THEN r.node ELSE node[n]
  BY DEF Receive
<1>2. node[n] \in NodeState /\ f \in Frames
  BY DEF IInv, TypeOK
<1>3. f.seqNo <= 32767
  <2>1. f.seqNo < node[f.src].seqNo /\ f.src \in Node
    BY Types DEF IInv, News
  <2>2. node[f.src].seqNo <= MaxSeqNo /\ node[f.src].seqNo \in Nat
    BY <2>1, Bound DEF IInv, Numbers
  <2>3. QED
    BY <2>1, <2>2, Bound, Types DEF IInv
<1>4. Known(node[n], f.src) => node[n].rt[f.src].seqNo <= 32767
  <2>1. f.src \in Node
    BY Types DEF IInv
  <2>2. Known(node[n], f.src) => node[n].rt[f.src].seqNo < node[f.src].seqNo
    BY <2>1 DEF IInv, Numbers
  <2>3. node[f.src].seqNo <= MaxSeqNo /\ node[f.src].seqNo \in Nat
    BY <2>1, Bound DEF IInv, Numbers
  <2>4. QED
    BY <2>1, <2>2, <2>3, Bound, Types DEF IInv
<1>5. Took(r, node[n], n, f)
  BY <1>2, <1>3, <1>4, ReceiveFacts
<1>6. QED
  BY <1>1, <1>5

\* A mesh point that took frame f has the path that f brought.
LEMMA StoredRenews ==
  ASSUME IInv, NEW f \in air, NEW n \in Node, n # f.from, n # f.src,
         Stored(node[n], node'[n], f),
         Known(node[n], f.src) => node[n].rt[f.src].seqNo < f.seqNo
  PROVE  /\ Renewed(n, f.src, f)
         /\ \A d \in Node : d # f.src => Kept(n, d)
<1>1. node[n].rt \in [Node -> Route] /\ f.src \in Node
  BY Types DEF IInv
<1>2. QED
  BY <1>1 DEF Stored, Renewed, Kept

LEMMA ReceiveSpread ==
  ASSUME IInv, NEW f \in air, NEW lost \in SUBSET Receivers(f), Receive(f, lost)
  PROVE  Spread(f)
<1> DEFINE hears == Receivers(f) \ lost
           Got(n) == ReceiveFromDevice(n, node[n], f)
<1>1. /\ \A n \in hears : MayNumber(n)
      /\ node' = [n \in Node |-> IF n \in hears THEN Got(n).node ELSE node[n]]
      /\ air' = (air \ {f}) \cup UNION {Got(n).out : n \in hears}
  BY DEF Receive, Airborne
<1>2. hears \subseteq Node /\ \A n \in hears : n # f.from
  BY NetworkAssumption DEF Receivers
<1>3. \A n \in hears : node'[n] = Got(n).node /\ Took(Got(n), node[n], n, f)
  BY <1>2, Received
<1>4. \A n \in Node \ hears : node'[n] = node[n]
  BY Received
<1> HIDE DEF hears, Got
<1>5. node' \in [Node -> NodeState]
  <2>1. \A n \in Node : node'[n] \in NodeState
    BY <1>3, <1>4 DEF Took, IInv, TypeOK
  <2>2. QED
    BY <1>1, <2>1
<1>6. ASSUME NEW n \in Node
      PROVE  /\ node'[n].seqNo \in {node[n].seqNo, node[n].seqNo + 1}
             /\ node'[n].seqNo <= MaxSeqNo
  <2>1. node[n].seqNo \in Nat /\ node[n].seqNo <= MaxSeqNo
    BY Bound DEF IInv, Numbers
  <2>2. CASE n \in hears
    <3>1. node[n].seqNo < MaxSeqNo
      BY <1>1, <2>2 DEF MayNumber
    <3>2. node'[n].seqNo \in {node[n].seqNo, node[n].seqNo + 1}
      BY <1>3, <2>2 DEF Took
    <3>3. QED
      BY <2>1, <3>1, <3>2, Bound
  <2>3. CASE n \notin hears
    BY <1>4, <2>1, <2>3
  <2>4. QED
    BY <2>2, <2>3
<1>7. ASSUME NEW n \in hears
      PROVE  \/ node'[n] = node[n] /\ Got(n).out = {} /\ ~Got(n).given
             \/ /\ Renewed(n, f.src, f)
                /\ \A d \in Node : d # f.src => Kept(n, d)
                /\ \A g \in Got(n).out : PassedOn(g, f, n) \/ OwnUpdate(g, node[n], node'[n], n)
  BY <1>2, <1>3, StoredRenews DEF Took
<1>8. \A n, d \in Node : Kept(n, d) \/ Renewed(n, d, f)
  BY <1>4, <1>7 DEF Kept
<1>9. air' \subseteq Frames
  <2>1. air \subseteq Frames
    BY DEF IInv, TypeOK
  <2>2. \A n \in hears : Got(n).out \subseteq Frames
    BY <1>3 DEF Took
  <2>3. QED
    BY <1>1, <2>1, <2>2
<1>10. ASSUME NEW g \in air'
       PROVE  \/ g \in air
              \/ OwnFrame(g)
              \/ \E n \in Node : PassedOn(g, f, n) /\ Renewed(n, f.src, f)
  <2>1. CASE g \in air
    BY <2>1
  <2>2. CASE g \notin air
    <3>1. PICK n \in hears : g \in Got(n).out
      BY <1>1, <2>2
    <3>2. Renewed(n, f.src, f) /\ (PassedOn(g, f, n) \/ OwnUpdate(g, node[n], node'[n], n))
      BY <1>7, <3>1
    <3>3. QED
      BY <1>2, <3>2 DEF OwnUpdate, OwnFrame
  <2>3. QED
    BY <2>1, <2>2
<1>11. QED
  BY <1>5, <1>6, <1>8, <1>9, <1>10 DEF Spread

LEMMA ReceiveInv ==
  ASSUME IInv, NEW f \in air, NEW lost \in SUBSET Receivers(f), Receive(f, lost)
  PROVE  IInv'
<1> DEFINE hears == Receivers(f) \ lost
           Got(n) == ReceiveFromDevice(n, node[n], f)
           Gets(n, m) == n \in hears /\ Got(n).given /\ f.id = m
<1>1. Spread(f)
  BY ReceiveSpread
<1>2. /\ air' = (air \ {f}) \cup UNION {Got(n).out : n \in hears}
      /\ rushed' = (rushed \/ Overlap(air'))
      /\ faults' = faults + Cardinality(lost)
      /\ delivered' = [n \in Node |-> [m \in Message |->
           IF Gets(n, m) THEN delivered[n][m] + 1 ELSE delivered[n][m]]]
      /\ unsent' = unsent /\ ticks' = ticks
  BY DEF Receive, Airborne
<1>3. ASSUME NEW n \in Node, NEW m \in Message, Gets(n, m)
      PROVE  /\ Renewed(n, f.src, f)
             /\ f.dst \in {n, All} /\ n # f.src
  <2>1. n \in hears /\ Got(n).given
    BY <1>3
  <2>2. node'[n] = Got(n).node /\ Took(Got(n), node[n], n, f)
    BY <2>1, Received
  <2>3. n # f.from
    BY <2>1, NetworkAssumption DEF Receivers
  <2> HIDE DEF Got, hears, Gets
  <2>4. QED
    BY <2>1, <2>2, <2>3, StoredRenews DEF Took
<1> HIDE DEF Got, hears, Gets
<1>4. TypeOK'
  <2>1. \A n \in Node : ~Known(node'[n], n)
    <3>1. \A n \in Node : Kept(n, n)
      BY <1>1 DEF Spread, Renewed
    <3>2. QED
      BY <3>1 DEF IInv, TypeOK, Kept, Known
  <2>2. faults' \in Nat
    <3>1. IsFiniteSet(lost)
      BY NodeAssumption, FS_Subset DEF Receivers
    <3>2. QED
      BY <1>2, <3>1, FS_CardinalityType DEF IInv, TypeOK
  <2>3. delivered' \in [Node -> [Message -> Nat]]
    <3>1. \A n \in Node, m \in Message : delivered[n][m] \in Nat
      BY DEF IInv, TypeOK
    <3>2. QED
      BY <1>2, <3>1
  <2>4. rushed' \in BOOLEAN
    BY <1>2 DEF IInv, TypeOK, Overlap
  <2>5. QED
    BY <1>1, <1>2, <2>1, <2>2, <2>3, <2>4 DEF IInv, TypeOK, Spread
<1>5. Once'
  <2>1. ASSUME NEW g \in air', g.id \in Message
        PROVE  \E h \in air : /\ h.id = g.id /\ h.src = g.src
                             /\ h.dst = g.dst /\ h.seqNo = g.seqNo
    <3>1. CASE g \in air
      BY <3>1
    <3>2. CASE g \notin air
      <4>1. PICK n \in hears : g \in Got(n).out
        BY <1>2, <3>2
      <4>2. n \in Node /\ Took(Got(n), node[n], n, f)
        BY Received DEF hears, Got, Receivers
      <4>3. PassedOn(g, f, n) \/ g.id = Update
        BY <4>1, <4>2 DEF Took, OwnUpdate
      <4>4. QED
        BY <2>1, <4>3, NodeAssumption DEF PassedOn
    <3>3. QED
      BY <3>1, <3>2
  <2>2. \A g \in air' : g.id \in Message =>
          g.id \notin unsent' /\ g.src = source[g.id] /\ g.dst = target[g.id]
    BY <1>2, <2>1 DEF IInv, Once
  <2>3. \A g, h \in air' : g.id \in Message /\ g.id = h.id => g.seqNo = h.seqNo
    BY <2>1 DEF IInv, Once
  <2>4. ASSUME NEW n \in Node, NEW m \in Message
        PROVE  /\ delivered'[n][m] \in {0, 1}
               /\ delivered'[n][m] = 1 =>
                    /\ m \notin unsent'
                    /\ target[m] \in {n, All} /\ n # source[m]
                    /\ \A g \in air' : g.id = m =>
                         Known(node'[n], source[m]) /\ node'[n].rt[source[m]].seqNo >= g.seqNo
    <3>1. source[m] \in Node
      BY NetworkAssumption
    <3>2. CASE Gets(n, m)
      <4>1. f.id = m /\ f.src = source[m] /\ f.dst = target[m] /\ m \notin unsent
        BY <3>2 DEF Gets, IInv, Once
      <4>2. /\ Renewed(n, source[m], f)
            /\ target[m] \in {n, All} /\ n # source[m]
        BY <1>3, <3>2, <4>1
      <4>3. f.seqNo \in Nat /\ f.from \in Node /\ node[n].rt[source[m]].seqNo \in Nat
        BY <3>1, Types DEF IInv
      <4>4. delivered[n][m] # 1
        BY <4>1, <4>2, <4>3 DEF IInv, Once, Renewed
      <4>5. delivered[n][m] = 0
        BY <4>4 DEF IInv, Once
      <4>6. delivered'[n][m] = 1
        BY <1>2, <3>2, <4>5
      <4>7. Known(node'[n], source[m]) /\ node'[n].rt[source[m]].seqNo = f.seqNo
        BY <4>2, <4>3, NodeAssumption DEF Renewed, Known
      <4>8. \A g \in air' : g.id = m => g.seqNo = f.seqNo
        BY <2>1, <4>1 DEF IInv, Once
      <4>9. QED
        BY <1>2, <4>1, <4>2, <4>3, <4>6, <4>7, <4>8
    <3>3. CASE ~Gets(n, m)
      <4>1. delivered'[n][m] = delivered[n][m]
        BY <1>2, <3>3
      <4>2. ASSUME delivered[n][m] = 1, NEW g \in air', g.id = m
            PROVE  Known(node'[n], source[m]) /\ node'[n].rt[source[m]].seqNo >= g.seqNo
        <5>1. PICK h \in air : h.id = m /\ h.seqNo = g.seqNo
          BY <2>1, <4>2
        <5>2. Known(node[n], source[m]) /\ node[n].rt[source[m]].seqNo >= h.seqNo
          BY <4>2, <5>1 DEF IInv, Once
        <5>3. /\ node[n].rt[source[m]].seqNo \in Nat /\ h.seqNo \in Nat
              /\ node'[n].rt[source[m]].seqNo \in Nat
          BY <1>1, <3>1, <5>1, Types DEF IInv, Spread, NodeState, Route
        <5>4. QED
          BY <1>1, <3>1, <5>1, <5>2, <5>3, Better DEF IInv, Kept
      <4>3. QED
        BY <1>2, <4>1, <4>2 DEF IInv, Once
    <3>4. QED
      BY <3>2, <3>3
  <2>5. QED
    BY <2>2, <2>3, <2>4 DEF Once
<1>6. QED
  BY <1>1, <1>4, <1>5, SpreadInv DEF IInv

LEMMA RouteExpiresInv ==
  ASSUME IInv, NEW n0 \in Node, NEW d0 \in Node, RouteExpires(n0, d0)
  PROVE  IInv'
<1>1. /\ \A f \in air : f.src = d0 => f.seqNo > node[n0].rt[d0].seqNo
      /\ node' = [node EXCEPT ![n0].rt[d0] = NoRoute]
      /\ UNCHANGED <<air, unsent, delivered, rushed, ticks>>
      /\ faults' = faults + 1
  BY DEF RouteExpires
<1>2. /\ \A n \in Node : node'[n].seqNo = node[n].seqNo
      /\ \A n, d \in Node : \/ node'[n].rt[d] = node[n].rt[d]
                            \/ n = n0 /\ d = d0 /\ node'[n].rt[d] = NoRoute
      /\ node' \in [Node -> NodeState]
  <2>1. node[n0] \in NodeState
    BY DEF IInv, TypeOK
  <2> DEFINE rt == [node[n0].rt EXCEPT ![d0] = NoRoute]
             new == [node[n0] EXCEPT !.rt = rt]
  <2>2. NoRoute \in Route
    BY NodeAssumption DEF NoRoute, Route
  <2>3. rt \in [Node -> Route]
    BY <2>1, <2>2 DEF NodeState
  <2>4. node' = [node EXCEPT ![n0] = new]
    BY <1>1
  <2>5. rt[d0] = NoRoute /\ \A d \in Node : d # d0 => rt[d] = node[n0].rt[d]
    BY <2>1 DEF NodeState
  <2> HIDE DEF rt
  <2>6. new \in NodeState /\ new.seqNo = node[n0].seqNo /\ new.rt = rt
    BY <2>1, <2>3 DEF NodeState
  <2> HIDE DEF new
  <2>7. node'[n0] = new /\ \A n \in Node : n # n0 => node'[n] = node[n]
    BY <2>4 DEF IInv, TypeOK
  <2>8. node' \in [Node -> NodeState]
    BY <2>4, <2>6 DEF IInv, TypeOK
  <2>9. QED
    BY <2>5, <2>6, <2>7, <2>8
<1>3. \A n, d \in Node : Known(node'[n], d) => Known(node[n], d) /\ node'[n].rt[d] = node[n].rt[d]
  BY <1>2 DEF Known, NoRoute
<1>4. TypeOK'
  <2>1. UNCHANGED <<air, unsent, delivered, rushed, ticks>> /\ faults' = faults + 1
    BY <1>1
  <2>2. QED
    BY <1>2, <1>3, <2>1 DEF IInv, TypeOK
<1>5. Numbers'
  BY <1>2, <1>3 DEF IInv, Numbers
<1>6. News'
  <2>1. ASSUME NEW f \in air, f.from # f.src
        PROVE  /\ Known(node'[f.from], f.src)
               /\ node'[f.from].rt[f.src] = node[f.from].rt[f.src]
    <3>1. f.src \in Node /\ f.from \in Node /\ f.seqNo \in Nat
      BY Types DEF IInv
    <3>2. Known(node[f.from], f.src) /\ Ahead(node[f.from].rt[f.src], f)
      BY <2>1 DEF IInv, News
    <3>3. node[f.from].rt[f.src].seqNo \in Nat
      BY <3>1, Types DEF IInv
    <3>4. ~(f.from = n0 /\ f.src = d0)
      BY <1>1, <3>1, <3>2, <3>3 DEF Ahead
    <3>5. QED
      BY <1>2, <3>1, <3>2, <3>4 DEF Known
  <2>2. \A f \in air : f.seqNo < node'[f.src].seqNo
    BY <1>2, Types DEF IInv, News
  <2>3. QED
    BY <1>1, <2>1, <2>2 DEF IInv, News
<1>7. ASSUME NEW n \in Node, NEW d \in Node, node'[n].rt[d].next \notin {None, d}
      PROVE  /\ node'[n].rt[d] = node[n].rt[d]
             /\ node[n].rt[d].next \in Node
  BY <1>3, <1>7, Types DEF IInv, Known
<1>8. PathsDescend'
  <2> SUFFICES ASSUME NEW n \in Node, NEW d \in Node,
                      node'[n].rt[d].next \notin {None, d},
                      Known(node'[node'[n].rt[d].next], d)
               PROVE  Ahead(node'[node'[n].rt[d].next].rt[d], node'[n].rt[d])
    BY DEF PathsDescend
  <2> DEFINE k == node[n].rt[d].next
  <2>1. node'[n].rt[d] = node[n].rt[d] /\ k \in Node
    BY <1>7
  <2>2. Known(node[k], d) /\ node'[k].rt[d] = node[k].rt[d]
    BY <1>3, <2>1
  <2>3. Ahead(node[k].rt[d], node[n].rt[d])
    BY <2>1, <2>2 DEF IInv, PathsDescend
  <2>4. QED
    BY <2>1, <2>2, <2>3
<1>9. Fresh'
  <2> SUFFICES ASSUME NEW n \in Node, NEW d \in Node,
                      node'[n].rt[d].next \notin {None, d},
                      ~Known(node'[node'[n].rt[d].next], d),
                      NEW g \in air', g.src = d
               PROVE  node'[n].rt[d].seqNo < g.seqNo
    BY DEF Fresh
  <2> DEFINE k == node[n].rt[d].next
  <2>1. node'[n].rt[d] = node[n].rt[d] /\ k \in Node /\ k # d /\ k # None
    BY <1>7, NodeAssumption
  <2>2. g \in air
    BY <1>1
  <2>3. CASE ~Known(node[k], d)
    BY <2>1, <2>2, <2>3 DEF IInv, Fresh
  <2>4. CASE Known(node[k], d)
    <3>1. k = n0 /\ d = d0
      BY <1>2, <2>1, <2>4 DEF Known
    <3>2. Ahead(node[k].rt[d], node[n].rt[d])
      BY <2>1, <2>4 DEF IInv, PathsDescend
    <3>3. /\ node[k].rt[d].seqNo \in Nat /\ node[n].rt[d].seqNo \in Nat
          /\ g.seqNo \in Nat
      BY <2>1, <2>2, Types DEF IInv
    <3>4. g.seqNo > node[k].rt[d].seqNo
      BY <1>1, <2>2, <3>1
    <3>5. QED
      BY <2>1, <3>2, <3>3, <3>4 DEF Ahead
  <2>5. QED
    BY <2>3, <2>4
<1>10. Once'
  <2>1. ASSUME NEW n \in Node, NEW m \in Message, NEW f \in air, f.id = m,
               delivered[n][m] = 1
        PROVE  node'[n].rt[source[m]] = node[n].rt[source[m]]
    <3>1. f.src = source[m] /\ source[m] \in Node
      <4>1. \A g \in air : g.id \in Message => g.src = source[g.id]
        BY DEF IInv, Once
      <4>2. QED
        BY <2>1, <4>1, NetworkAssumption
    <3>2. node[n].rt[source[m]].seqNo >= f.seqNo
      BY <2>1 DEF IInv, Once
    <3>3. node[n].rt[source[m]].seqNo \in Nat /\ f.seqNo \in Nat
      BY <3>1, Types DEF IInv
    <3>4. ~(n = n0 /\ source[m] = d0)
      BY <1>1, <3>1, <3>2, <3>3
    <3>5. QED
      BY <1>2, <3>1, <3>4
  <2>2. QED
    BY <1>1, <2>1 DEF IInv, Once, Known
<1>11. QED
  BY <1>4, <1>5, <1>6, <1>8, <1>9, <1>10 DEF IInv

LEMMA IntervalEndsInv ==
  ASSUME IInv, NEW n0 \in Node, IntervalEnds(n0)
  PROVE  IInv'
<1>1. /\ node' = [node EXCEPT ![n0].last = "old"]
      /\ UNCHANGED <<air, unsent, delivered, rushed, faults>>
      /\ ticks' = ticks + 1
  BY DEF IntervalEnds
<1>2. /\ \A n \in Node : node'[n].seqNo = node[n].seqNo /\ node'[n].rt = node[n].rt
      /\ node' \in [Node -> NodeState]
  <2> DEFINE new == [node[n0] EXCEPT !.last = "old"]
  <2>1. node[n0] \in NodeState
    BY DEF IInv, TypeOK
  <2>2. new \in NodeState /\ new.seqNo = node[n0].seqNo /\ new.rt = node[n0].rt
    BY <2>1 DEF NodeState
  <2>3. node' = [node EXCEPT ![n0] = new]
    BY <1>1
  <2> HIDE DEF new
  <2>4. QED
    BY <2>2, <2>3 DEF IInv, TypeOK
<1>3. Spread(node)
  <2>1. \A n \in Node : node[n].seqNo <= MaxSeqNo
    BY Bound DEF IInv, Numbers
  <2>2. QED
    BY <1>1, <1>2, <2>1 DEF Spread, Kept, IInv, TypeOK
<1>4. TypeOK'
  BY <1>1, <1>2 DEF IInv, TypeOK, Known
<1>5. Once'
  BY <1>1, <1>2 DEF IInv, Once, Known
<1>6. QED
  BY <1>3, <1>4, <1>5, SpreadInv DEF IInv

LEMMA Invariance == Spec => []IInv
<1>1. IInv /\ [Next]_vars => IInv'
  <2> SUFFICES ASSUME IInv, [Next]_vars PROVE IInv'
    OBVIOUS
  <2>1. CASE \E m \in Message : SendData(m)
    BY <2>1, SendDataInv
  <2>2. CASE \E f \in air : \E lost \in SUBSET Receivers(f) : Receive(f, lost)
    BY <2>2, ReceiveInv
  <2>3. CASE \E n \in Node : IntervalEnds(n)
    BY <2>3, IntervalEndsInv
  <2>4. CASE \E n, d \in Node : RouteExpires(n, d)
    BY <2>4, RouteExpiresInv
  <2>5. CASE UNCHANGED vars
    <3> USE <2>5 DEF vars, IInv
    <3>1. TypeOK'
      BY DEF TypeOK
    <3>2. Numbers'
      BY DEF Numbers
    <3>3. News'
      BY DEF News
    <3>4. PathsDescend'
      BY DEF PathsDescend
    <3>5. Fresh'
      BY DEF Fresh
    <3>6. Once'
      BY DEF Once
    <3>7. QED
      BY <3>1, <3>2, <3>3, <3>4, <3>5, <3>6
  <2>6. QED
    BY <2>1, <2>2, <2>3, <2>4, <2>5 DEF Next
<1>2. QED
  BY InitInv, <1>1, PTL DEF Spec

-----------------------------------------------------------------------------
(* The theorems.                                                           *)

\* Every variable keeps its type, and no mesh point stores a path to itself.
THEOREM TypeCorrect == Spec => []TypeOK
<1>1. IInv => TypeOK
  BY DEF IInv
<1>2. QED
  BY Invariance, <1>1, PTL

\* HandleDataFrame stores paths that descend towards their destination, in whatever
\* order copies arrive and whichever are lost.
THEOREM PathsCorrect == Spec => []PathsDescend
<1>1. IInv => PathsDescend
  BY DEF IInv
<1>2. QED
  BY Invariance, <1>1, PTL

\* The stack gets no packet twice, nor one for others, nor its own.
THEOREM DeliveryCorrect == Spec => []DeliveredOnce
<1>1. IInv => DeliveredOnce
  <2> SUFFICES ASSUME Once, NEW n \in Node, NEW m \in Message
               PROVE  delivered[n][m] <= IF target[m] \in {n, All} /\ n # source[m] THEN 1 ELSE 0
    BY DEF IInv, DeliveredOnce
  <2>1. delivered[n][m] \in {0, 1}
    BY DEF Once
  <2>2. delivered[n][m] = 1 => target[m] \in {n, All} /\ n # source[m]
    BY DEF Once
  <2>3. QED
    BY <2>1, <2>2
<1>2. QED
  BY Invariance, <1>1, PTL

\* A set of numbers has a least element.
LEMMA Least ==
  ASSUME NEW T \in SUBSET Nat, T # {}
  PROVE  \E x \in T : \A y \in T : x <= y
<1> DEFINE R == {p \in Nat \X Nat : p[1] < p[2]}
<1>1. IsWellFoundedOn(R, Nat)
  BY NatLessThanWellFounded DEF OpToRel
<1>2. \A x, y \in Nat : y < x => <<y, x>> \in R
  OBVIOUS
<1> HIDE DEF R
<1>3. PICK x \in T : \A y \in T : ~(<<y, x>> \in R)
  BY <1>1, WFMin
<1>4. \A y \in T : ~(y < x)
  BY <1>2, <1>3
<1>5. QED
  BY <1>4

\* Paths that descend do not go round: on a circle one mesh point is ahead of all, but
\* its next hop is ahead of it.
THEOREM NoLoopCorrect == Spec => []NoLoop
<1>1. IInv => NoLoop
  <2> SUFFICES ASSUME IInv, NEW d \in Node, NEW S \in SUBSET (Node \ {d}),
                      Circle(S, d), S # {}
               PROVE  FALSE
    BY DEF NoLoop
  <2> DEFINE e(n) == node[n].rt[d]
             Gap(n) == MaxSeqNo - e(n).seqNo
  <2>1. ASSUME NEW n \in S
        PROVE  /\ e(n).next \in S /\ Known(node[n], d)
               /\ Ahead(e(e(n).next), e(n))
               /\ e(n).seqNo \in Nat /\ e(n).cost \in Nat /\ Gap(n) \in Nat
    <3>1. e(n).next \in S /\ e(n).next # d /\ e(n).next # None
      BY NodeAssumption DEF Circle
    <3>2. e(e(n).next).next \in S
      BY <3>1 DEF Circle
    <3>3. Known(node[n], d) /\ Known(node[e(n).next], d)
      BY <3>1, <3>2, NodeAssumption DEF Known
    <3>4. Ahead(e(e(n).next), e(n))
      BY <3>1, <3>3 DEF IInv, PathsDescend
    <3>5. e(n).seqNo \in Nat /\ e(n).cost \in Nat
      BY Types DEF IInv
    <3>6. e(n).seqNo < node[d].seqNo /\ node[d].seqNo \in Nat /\ node[d].seqNo <= MaxSeqNo
      BY <3>3, Bound DEF IInv, Numbers
    <3>7. QED
      BY <3>1, <3>3, <3>4, <3>5, <3>6, Bound
  <2> HIDE DEF e, Gap
  <2>2. PICK n \in S : \A k \in S : Gap(n) <= Gap(k)
    <3> DEFINE T == {Gap(k) : k \in S}
    <3>1. T \in SUBSET Nat /\ T # {}
      BY <2>1
    <3>2. PICK x \in T : \A y \in T : x <= y
      BY <3>1, Least
    <3>3. QED
      BY <3>2
  <2> DEFINE Q == {k \in S : Gap(k) = Gap(n)}
  <2>3. PICK m \in Q : \A k \in Q : e(m).cost <= e(k).cost
    <3> DEFINE T == {e(k).cost : k \in Q}
    <3>1. T \in SUBSET Nat /\ T # {}
      BY <2>1
    <3>2. PICK x \in T : \A y \in T : x <= y
      BY <3>1, Least
    <3>3. QED
      BY <3>2
  <2> DEFINE k == e(m).next
  <2>4. k \in S /\ Ahead(e(k), e(m))
    BY <2>1
  <2>5. e(k).seqNo <= e(m).seqNo
    BY <2>1, <2>2, <2>4, Bound DEF Gap
  <2>6. e(k).seqNo = e(m).seqNo /\ e(k).cost < e(m).cost
    BY <2>1, <2>4, <2>5 DEF Ahead
  <2>7. k \in Q
    BY <2>4, <2>6 DEF Gap
  <2>8. QED
    BY <2>1, <2>3, <2>6, <2>7
<1>2. QED
  BY Invariance, <1>1, PTL
=============================================================================
