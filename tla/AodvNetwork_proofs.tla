------------------------- MODULE AodvNetwork_proofs -------------------------
(***************************************************************************)
(* Proofs about AodvNetwork, for every network, every set of messages,     *)
(* every setting of the attributes and any number of faults.               *)
(*                                                                         *)
(* A handler maps a step to a step. What holds of a step before a handler  *)
(* holds after it (Good), for the step's own station and whatever the      *)
(* numbers of the others are; so each handler has a lemma that says this   *)
(* of it, and cites those of the handlers that it calls. A second set of   *)
(* lemmas (Kept) says what a handler does to the copies of a message, and  *)
(* leads to the theorem that the network implements Delivery.              *)
(***************************************************************************)
EXTENDS AodvNetwork, FiniteSetTheorems, WellFoundedInduction, TLAPS

Steps == [at: Node, node: NodeState, out: SUBSET [to: Node \cup {All}, packet: Packets]]

\* Numbers that stations have reached, and the bodies, packets and tables with no higher
\* ones; of an entry whose number is marked unknown nothing is asked.
Bounds == [Node -> Nat]

TrueBody(b, R) ==
  /\ b \in Rreqs => /\ b.originSeqNo <= R[b.origin]
                    /\ b.known => b.dstSeqNo <= R[b.dst]
  /\ b \in Rreps => b.seqNo <= R[b.dst]

\* Data is not broadcast.
PacketsUpTo(R) ==
  {p \in Packets : TrueBody(p.body, R) /\ (p.body \in Datas => p.dst \in Node)}

TablesUpTo(R) == {t \in Table : \A d \in Node : t[d].known => t[d].seqNo <= R[d]}

\* A frame with data goes to one station.
Routed(o) == o.packet.body \in Datas => o.to \in Node

\* The numbers of R, but that of the station of s, which may have just changed.
Reached(s, R) == [n \in Node |-> IF n = s.at THEN s.node.seqNo ELSE R[n]]

\* Everything that waits at a station, but for the destinations D, is guarded.
Waits(state, D) ==
  \A d \in Node \ D :
    state.rt[d].flag = "IN_SEARCH" \/ ToDestination(state.queue, d) # {} => Guarded(state, d)

\* The step is well formed, nothing waits unguarded but for D, and nobody is told or
\* believes a number that has not been reached.
GoodBut(s, R, D) ==
  /\ s \in Steps
  /\ IsFiniteSet(s.node.queue)
  /\ Waits(s.node, D)
  /\ s.node.rt \in TablesUpTo(Reached(s, R))
  /\ \A q \in s.node.queue : q.packet \in PacketsUpTo(Reached(s, R))
  /\ \A o \in s.out : o.packet \in PacketsUpTo(Reached(s, R)) /\ Routed(o)

Good(s, R) == GoodBut(s, R, {})

\* The handler has taken s to t.
Leads(s, t, R) == t.at = s.at /\ s.node.seqNo <= t.node.seqNo /\ Good(t, R)

Searching(t) == {d \in Node : t[d].flag = "IN_SEARCH"}

-----------------------------------------------------------------------------
(* Bounds.                                                                 *)

LEMMA ReachedIsBound ==
  ASSUME NEW R \in Bounds, NEW s \in Steps
  PROVE  Reached(s, R) \in Bounds
BY DEF Reached, Bounds, Steps, NodeState

\* What was true under lower bounds is true under higher ones.
LEMMA HigherBounds ==
  ASSUME NEW R \in Bounds, NEW T \in Bounds, \A n \in Node : R[n] <= T[n]
  PROVE  PacketsUpTo(R) \subseteq PacketsUpTo(T) /\ TablesUpTo(R) \subseteq TablesUpTo(T)
<1>1. ASSUME NEW p \in PacketsUpTo(R) PROVE p \in PacketsUpTo(T)
  <2>1. p \in Packets /\ TrueBody(p.body, R)
    BY DEF PacketsUpTo
  <2>2. ASSUME p.body \in Rreqs
        PROVE  /\ p.body.originSeqNo <= T[p.body.origin]
               /\ p.body.known => p.body.dstSeqNo <= T[p.body.dst]
    <3>1. /\ p.body.originSeqNo \in Nat /\ p.body.dstSeqNo \in Nat
          /\ p.body.origin \in Node /\ p.body.dst \in Node
      BY <2>2 DEF Rreqs
    <3>2. /\ R[p.body.origin] \in Nat /\ T[p.body.origin] \in Nat
          /\ R[p.body.dst] \in Nat /\ T[p.body.dst] \in Nat
      BY <3>1 DEF Bounds
    <3>3. QED
      BY <2>1, <2>2, <3>1, <3>2 DEF TrueBody
  <2>3. ASSUME p.body \in Rreps PROVE p.body.seqNo <= T[p.body.dst]
    <3>1. p.body.seqNo \in Nat /\ p.body.dst \in Node
      BY <2>3 DEF Rreps
    <3>2. R[p.body.dst] \in Nat /\ T[p.body.dst] \in Nat
      BY <3>1 DEF Bounds
    <3>3. QED
      BY <2>1, <2>3, <3>1, <3>2 DEF TrueBody
  <2>4. QED
    BY <2>1, <2>2, <2>3 DEF PacketsUpTo, TrueBody
<1>2. ASSUME NEW t \in TablesUpTo(R) PROVE t \in TablesUpTo(T)
  <2>1. t \in Table /\ \A d \in Node : t[d].known => t[d].seqNo <= R[d]
    BY DEF TablesUpTo
  <2>2. \A d \in Node : t[d].seqNo \in Nat /\ R[d] \in Nat /\ T[d] \in Nat
    BY <2>1 DEF Table, Entry, NoRoute, Bounds
  <2>3. QED
    BY <2>1, <2>2 DEF TablesUpTo
<1>3. QED
  BY <1>1, <1>2

\* The bounds of a step only rise.
LEMMA StepBounds ==
  ASSUME NEW R \in Bounds, NEW s \in Steps, NEW t \in Steps, t.at = s.at,
         s.node.seqNo <= t.node.seqNo
  PROVE  /\ PacketsUpTo(Reached(s, R)) \subseteq PacketsUpTo(Reached(t, R))
         /\ TablesUpTo(Reached(s, R)) \subseteq TablesUpTo(Reached(t, R))
         /\ t.node.seqNo = s.node.seqNo => Reached(t, R) = Reached(s, R)
<1>1. Reached(s, R) \in Bounds /\ Reached(t, R) \in Bounds
  BY ReachedIsBound
<1>2. \A n \in Node : Reached(s, R)[n] <= Reached(t, R)[n]
  <2>1. \A n \in Node : R[n] \in Nat
    BY DEF Bounds
  <2>2. \A n \in Node : R[n] <= R[n]
    BY <2>1
  <2>3. QED
    BY <2>2 DEF Reached
<1>3. t.node.seqNo = s.node.seqNo => Reached(t, R) = Reached(s, R)
  BY DEF Reached
<1>4. QED
  BY <1>1, <1>2, <1>3, HigherBounds

-----------------------------------------------------------------------------
(* The parts of a step.                                                    *)

\* What a good step is made of.
LEMMA GoodParts ==
  ASSUME NEW R \in Bounds, NEW D, NEW s, GoodBut(s, R, D)
  PROVE  /\ s.at \in Node /\ s.node.seqNo \in Nat /\ s.node.requestId \in Nat
         /\ s.node.rreqCount \in Nat
         /\ s.node.rt \in Table /\ s.node.rt \in TablesUpTo(Reached(s, R))
         /\ s.node.timers \subseteq Node
         /\ s.node.delayed \in [Node -> Nat]
         /\ s.node.nb \subseteq Node
         /\ s.node.queue \subseteq Queued
         /\ s.node.seen \subseteq Node \X Nat
         /\ Reached(s, R) \in Bounds
         /\ Reached(s, R)[s.at] = s.node.seqNo
         /\ \A n \in Node : Reached(s, R)[n] \in Nat
<1>1. s \in Steps
  BY DEF GoodBut
<1>2. Reached(s, R) \in Bounds
  BY <1>1, ReachedIsBound
<1>3. s.at \in Node /\ s.node \in NodeState
  BY <1>1 DEF Steps
<1>4. Reached(s, R)[s.at] = s.node.seqNo
  BY <1>3 DEF Reached
<1>5. QED
  BY <1>2, <1>3, <1>4 DEF GoodBut, NodeState, Bounds

\* An entry of a table.
LEMMA EntryParts ==
  ASSUME NEW t \in Table, NEW d \in Node
  PROVE  /\ t[d] \in Entry \cup {NoRoute}
         /\ t[d].flag \in Flags \cup {"NONE"} /\ t[d].known \in BOOLEAN
         /\ t[d].seqNo \in Nat /\ t[d].hop \in Nat /\ t[d].rreqCnt \in Nat
         /\ t[d].precursors \subseteq Node
         /\ t[d].nextHop \in Node \cup {None}
         /\ t[d].known => t[d].nextHop \in Node
         /\ t[d].flag \in {"VALID", "INVALID"} => t[d].nextHop \in Node
         /\ LookupRoute(t, d) <=> t[d] \in Entry
         /\ LookupRoute(t, d) <=> t[d].flag \in Flags
<1>1. t[d] \in Entry \cup {NoRoute}
  BY DEF Table
<1>2. CASE t[d] = NoRoute
  <2>1. t[d] \notin Entry
    BY <1>2 DEF NoRoute, Entry, Flags
  <2>2. QED
    BY <1>2, <2>1 DEF NoRoute, Flags, LookupRoute
<1>3. CASE t[d] \in Entry
  BY <1>3 DEF Entry, Flags, LookupRoute
<1>4. QED
  BY <1>1, <1>2, <1>3

\* A frame leaves.
LEMMA EmitGood ==
  ASSUME NEW R \in Bounds, NEW s, Good(s, R),
         NEW to \in Node \cup {All}, NEW p \in PacketsUpTo(Reached(s, R)),
         p.body \in Datas => to \in Node
  PROVE  /\ Leads(s, Emit(s, to, p), R)
         /\ Emit(s, to, p).node = s.node
<1> DEFINE t == Emit(s, to, p)
<1>1. s \in Steps
  BY DEF Good, GoodBut
<1>2. t.at = s.at /\ t.node = s.node /\ t.out = s.out \cup {[to |-> to, packet |-> p]}
  BY <1>1 DEF Emit, Steps
<1>3. t \in Steps
  BY <1>1 DEF Emit, Steps, PacketsUpTo
<1>4. Reached(t, R) = Reached(s, R)
  BY <1>2 DEF Reached
<1>5. s.node.seqNo <= t.node.seqNo
  BY <1>2, GoodParts DEF Good
<1> HIDE DEF t
<1>6. QED
  BY <1>2, <1>3, <1>4, <1>5 DEF Leads, Good, GoodBut, Routed, t

\* The table is replaced by one that searches for nothing new.
LEMMA TableGood ==
  ASSUME NEW R \in Bounds, NEW s, Good(s, R),
         NEW t \in TablesUpTo(Reached(s, R)), Searching(t) \subseteq Searching(s.node.rt)
  PROVE  /\ Leads(s, WithTable(s, t), R)
         /\ WithTable(s, t).node.rt = t
         /\ WithTable(s, t).node.seqNo = s.node.seqNo
         /\ WithTable(s, t).at = s.at
<1> DEFINE u == WithTable(s, t)
<1>1. s \in Steps
  BY DEF Good, GoodBut
<1>2. /\ u.at = s.at /\ u.out = s.out /\ u.node.rt = t
      /\ u.node.seqNo = s.node.seqNo /\ u.node.queue = s.node.queue
      /\ u.node.timers = s.node.timers /\ u.node.delayed = s.node.delayed
  BY <1>1 DEF WithTable, Steps, NodeState
<1>3. t \in Table
  BY DEF TablesUpTo
<1>4. u \in Steps
  BY <1>1, <1>3 DEF WithTable, Steps, NodeState
<1>5. Reached(u, R) = Reached(s, R)
  BY <1>2 DEF Reached
<1>6. s.node.seqNo <= u.node.seqNo
  BY <1>2, GoodParts DEF Good
<1>7. Waits(u.node, {})
  <2>1. \A d \in Node : t[d].flag = "IN_SEARCH" => s.node.rt[d].flag = "IN_SEARCH"
    BY DEF Searching
  <2> HIDE DEF u
  <2>2. QED
    BY <1>2, <2>1 DEF Good, GoodBut, Waits, Guarded
<1> HIDE DEF u
<1>8. QED
  BY <1>2, <1>4, <1>5, <1>6, <1>7 DEF Leads, Good, GoodBut, u

\* Something changes that neither waits nor has numbers; the own number may rise.
LEMMA SideGood ==
  ASSUME NEW R \in Bounds, NEW D, NEW s, GoodBut(s, R, D), NEW u \in Steps,
         u.at = s.at, u.out = s.out, u.node.rt = s.node.rt, u.node.queue = s.node.queue,
         u.node.timers = s.node.timers, u.node.delayed = s.node.delayed,
         s.node.seqNo <= u.node.seqNo
  PROVE  GoodBut(u, R, D)
<1>1. s \in Steps
  BY DEF GoodBut
<1>2. /\ PacketsUpTo(Reached(s, R)) \subseteq PacketsUpTo(Reached(u, R))
      /\ TablesUpTo(Reached(s, R)) \subseteq TablesUpTo(Reached(u, R))
  BY <1>1, StepBounds
<1>3. Waits(u.node, D)
  BY DEF GoodBut, Waits, Guarded
<1>4. QED
  BY <1>2, <1>3 DEF GoodBut

\* A neighbour is heard of.
LEMMA RefreshGood ==
  ASSUME NEW R \in Bounds, NEW s, Good(s, R), NEW m \in Node \cup {None}
  PROVE  /\ Leads(s, Refresh(s, m), R)
         /\ Refresh(s, m).node.rt = s.node.rt
         /\ Refresh(s, m).node.seqNo = s.node.seqNo
         /\ Refresh(s, m).node.queue = s.node.queue
<1> DEFINE u == Refresh(s, m)
<1>1. s \in Steps
  BY DEF Good, GoodBut
<1>2. /\ u.at = s.at /\ u.out = s.out /\ u.node.rt = s.node.rt
      /\ u.node.seqNo = s.node.seqNo /\ u.node.queue = s.node.queue
      /\ u.node.timers = s.node.timers /\ u.node.delayed = s.node.delayed
  BY <1>1 DEF Refresh, Steps, NodeState
<1>3. {m} \ {None} \subseteq Node
  OBVIOUS
<1>4. u \in Steps
  BY <1>1, <1>3 DEF Refresh, Steps, NodeState
<1>5. s.node.seqNo <= u.node.seqNo
  BY <1>2, GoodParts DEF Good
<1> HIDE DEF u
<1>6. GoodBut(u, R, {})
  BY <1>2, <1>4, <1>5, SideGood DEF Good
<1>7. QED
  BY <1>2, <1>5, <1>6 DEF Leads, Good, u

\* Two handlers, one after the other.
LEMMA LeadsOn ==
  ASSUME NEW R \in Bounds, NEW s, NEW t, NEW u, Good(s, R), Leads(s, t, R), Leads(t, u, R)
  PROVE  Leads(s, u, R)
<1>1. s.node.seqNo \in Nat /\ t.node.seqNo \in Nat /\ u.node.seqNo \in Nat
  BY GoodParts DEF Leads, Good
<1>2. QED
  BY <1>1 DEF Leads

LEMMA LeadsBack ==
  ASSUME NEW R \in Bounds, NEW s, Good(s, R)
  PROVE  Leads(s, s, R)
BY GoodParts DEF Leads, Good

\* What may be told before a handler may be told after it.
LEMMA StillTrue ==
  ASSUME NEW R \in Bounds, NEW s, NEW t, Good(s, R), Leads(s, t, R)
  PROVE  /\ PacketsUpTo(Reached(s, R)) \subseteq PacketsUpTo(Reached(t, R))
         /\ \A b \in Bodies : TrueBody(b, Reached(s, R)) => TrueBody(b, Reached(t, R))
<1>1. s \in Steps /\ t \in Steps /\ t.at = s.at /\ s.node.seqNo <= t.node.seqNo
  BY DEF Leads, Good, GoodBut
<1>2. PacketsUpTo(Reached(s, R)) \subseteq PacketsUpTo(Reached(t, R))
  BY <1>1, StepBounds
<1>3. ASSUME NEW b \in Bodies, TrueBody(b, Reached(s, R))
      PROVE  TrueBody(b, Reached(t, R))
  <2> DEFINE p == Packet(s.at, s.at, 0, b)
  <2>1. p \in PacketsUpTo(Reached(s, R)) /\ p.body = b
    BY <1>1, <1>3 DEF Packet, PacketsUpTo, Packets, Steps
  <2>2. QED
    BY <1>2, <2>1 DEF PacketsUpTo
<1>4. QED
  BY <1>2, <1>3

-----------------------------------------------------------------------------
(* Requests.                                                               *)

LEMMA RingTtlIsNat ==
  ASSUME NEW t \in Table, NEW d \in Node
  PROVE  RingTtl(t[d]) \in Nat
<1>1. /\ TtlStart \in Nat /\ TtlIncrement \in Nat /\ NetDiameter \in Nat
      /\ TtlThreshold \in Nat
  BY AodvAttributes
<1>2. t[d].hop \in Nat
  BY EntryParts
<1> DEFINE next == t[d].hop + TtlIncrement
<1>3. next \in Nat
  BY <1>1, <1>2
<1>4. RingTtl(t[d]) \in {TtlStart, NetDiameter, next}
  BY DEF RingTtl
<1> HIDE DEF next
<1>5. QED
  BY <1>1, <1>3, <1>4

LEMMA SearchedIsEntry ==
  ASSUME NEW t \in Table, NEW d \in Node, NEW ttl \in Nat
  PROVE  /\ Searched(t[d], ttl) \in Entry
         /\ Searched(t[d], ttl).known = t[d].known
         /\ Searched(t[d], ttl).seqNo = t[d].seqNo
<1> DEFINE e == t[d]
           cnt == IF ttl = NetDiameter THEN e.rreqCnt + 1 ELSE e.rreqCnt
           f == Searched(e, ttl)
<1>1. e \in Entry \cup {NoRoute} /\ e.known \in BOOLEAN
  BY EntryParts
<1>2. e.rreqCnt \in Nat /\ cnt \in Nat
  BY EntryParts
<1>3. e.known => e.nextHop # None
  BY NoneAssumption, EntryParts
<1>4. f = [e EXCEPT !.flag = "IN_SEARCH", !.hop = ttl, !.rreqCnt = cnt]
  BY DEF Searched
<1>5. e \in [flag: Flags \cup {"NONE"}, known: BOOLEAN, seqNo: Nat, hop: Nat,
             nextHop: Node \cup {None}, rreqCnt: Nat, precursors: SUBSET Node]
  BY <1>1 DEF Entry, NoRoute
<1> HIDE DEF cnt, e, f
<1>6. /\ f \in [flag: Flags, known: BOOLEAN, seqNo: Nat, hop: Nat,
                nextHop: Node \cup {None}, rreqCnt: Nat, precursors: SUBSET Node]
      /\ f.known = e.known /\ f.seqNo = e.seqNo /\ f.nextHop = e.nextHop
      /\ f.flag = "IN_SEARCH"
  BY <1>2, <1>4, <1>5 DEF Flags
<1>7. f \in Entry
  BY <1>3, <1>6 DEF Entry
<1>8. QED
  BY <1>6, <1>7 DEF e, f

\* SendRequest guards its destination, by its timer or by a postponed request; so it does
\* not matter whether the destination was guarded before.
LEMMA SendRequestGood ==
  ASSUME NEW R \in Bounds, NEW d \in Node, NEW s, GoodBut(s, R, {d})
  PROVE  Leads(s, SendRequest(s, d), R)
<1> DEFINE old == s.node.rt[d]
           ttl == RingTtl(old)
           id == s.node.requestId + 1
           dstSeqNo == IF old.known THEN old.seqNo ELSE 0
           rreq == [type |-> "RREQ", origin |-> s.at, id |-> id,
                    originSeqNo |-> s.node.seqNo + 1, dst |-> d,
                    known |-> old.known, dstSeqNo |-> dstSeqNo, hop |-> 0]
           t == SendRequest(s, d)
<1>1. s \in Steps
  BY DEF GoodBut
<1>2. CASE s.node.rreqCount = RreqRateLimit
  <2>1. t = [s EXCEPT !.node.delayed[d] = @ + 1]
    BY <1>2 DEF SendRequest, Postpone
  <2>2. s.node.delayed \in [Node -> Nat]
    BY GoodParts
  <2> DEFINE delayed == [s.node.delayed EXCEPT ![d] = @ + 1]
  <2>3. delayed \in [Node -> Nat] /\ \A e \in Node : s.node.delayed[e] > 0 => delayed[e] > 0
    BY <2>2
  <2>4. delayed[d] > 0
    BY <2>2
  <2> HIDE DEF t, delayed
  <2>5. t = [s EXCEPT !.node.delayed = delayed]
    BY <2>1 DEF delayed
  <2>6. /\ t.at = s.at /\ t.out = s.out /\ t.node.rt = s.node.rt
        /\ t.node.seqNo = s.node.seqNo /\ t.node.queue = s.node.queue
        /\ t.node.timers = s.node.timers /\ t.node.delayed = delayed
    BY <1>1, <2>5 DEF Steps, NodeState
  <2>7. t \in Steps
    BY <1>1, <2>3, <2>5 DEF Steps, NodeState
  <2>8. Waits(t.node, {})
    BY <2>3, <2>4, <2>6 DEF GoodBut, Waits, Guarded
  <2>9. Reached(t, R) = Reached(s, R)
    BY <2>6 DEF Reached
  <2>10. s.node.seqNo <= t.node.seqNo
    BY <2>6, GoodParts
  <2> HIDE DEF old, ttl, id, rreq
  <2>11. GoodBut(t, R, {})
    BY <2>6, <2>7, <2>8, <2>9 DEF GoodBut
  <2>12. QED
    BY <2>6, <2>10, <2>11 DEF Leads, Good, t
<1>3. CASE s.node.rreqCount # RreqRateLimit
  <2> DEFINE rt == [s.node.rt EXCEPT ![d] = Searched(old, ttl)]
             frame == [to |-> All, packet |-> Packet(s.at, All, ttl, rreq)]
             seen == s.node.seen \cup {<<s.at, id>>}
             timers == s.node.timers \cup {d}
             seqNo == s.node.seqNo + 1
             cnt == s.node.rreqCount + 1
             sent == [s EXCEPT !.node.rreqCount = @ + 1, !.node.rt[d] = Searched(old, ttl),
                               !.node.seqNo = @ + 1, !.node.requestId = id,
                               !.node.seen = @ \cup {<<s.at, id>>},
                               !.node.timers = @ \cup {d}]
  <2>1. t = Broadcast(sent, ttl, rreq)
    BY <1>3 DEF SendRequest
  <2>2. ttl \in Nat /\ id \in Nat /\ s.node.rt \in Table /\ s.at \in Node
    BY GoodParts, RingTtlIsNat
  <2>3. rt \in Table
    BY <2>2, SearchedIsEntry DEF Table
  <2> HIDE DEF ttl, id, rreq, rt, t
  <2>4. /\ sent.at = s.at /\ sent.out = s.out
        /\ sent.node = [s.node EXCEPT !.rreqCount = cnt, !.rt = rt, !.seqNo = seqNo,
                                      !.requestId = id, !.seen = seen, !.timers = timers]
    BY <1>1 DEF Steps, NodeState, rt
  <2> HIDE DEF sent
  <2>5. /\ sent.node.rt = rt /\ sent.node.seqNo = s.node.seqNo + 1
        /\ sent.node.queue = s.node.queue /\ sent.node.timers = s.node.timers \cup {d}
        /\ sent.node.delayed = s.node.delayed
        /\ sent.node \in NodeState
    <3>1. s.node \in NodeState
      BY <1>1 DEF Steps
    <3>2. /\ seen \subseteq Node \X Nat /\ timers \subseteq Node
          /\ seqNo \in Nat /\ cnt \in Nat
      BY <2>2, GoodParts
    <3>3. seqNo = s.node.seqNo + 1 /\ timers = s.node.timers \cup {d}
      OBVIOUS
    <3> HIDE DEF seen, timers, seqNo, cnt
    <3>4. sent.node \in NodeState
      BY <2>2, <2>3, <2>4, <3>1, <3>2 DEF NodeState
    <3>5. /\ sent.node.rt = rt /\ sent.node.seqNo = seqNo
          /\ sent.node.queue = s.node.queue /\ sent.node.timers = timers
          /\ sent.node.delayed = s.node.delayed
      BY <2>4, <3>1 DEF NodeState
    <3>6. QED
      BY <3>3, <3>4, <3>5
  <2>6. sent \in [at: Node, node: NodeState, out: SUBSET [to: Node \cup {All}, packet: Packets]]
    BY <1>1, <2>2, <2>4, <2>5 DEF Steps, sent
  <2>7. /\ t.at = s.at /\ t.node = sent.node /\ t.out = s.out \cup {frame}
    BY <2>1, <2>4, <2>6 DEF Broadcast, Emit
  <2>8. Reached(t, R) \in Bounds /\ Reached(t, R)[s.at] = s.node.seqNo + 1
    <3>1. s.node.seqNo + 1 \in Nat
      BY GoodParts
    <3>2. QED
      BY <2>2, <2>5, <2>7, <3>1 DEF Reached, Bounds
  <2>9. \A n \in Node : Reached(s, R)[n] <= Reached(t, R)[n]
    <3>1. s.node.seqNo \in Nat /\ \A n \in Node : R[n] \in Nat
      BY GoodParts DEF Bounds
    <3>2. \A n \in Node : R[n] <= R[n]
      BY <3>1
    <3>3. QED
      BY <2>5, <2>7, <3>1, <3>2 DEF Reached
  <2>10. /\ PacketsUpTo(Reached(s, R)) \subseteq PacketsUpTo(Reached(t, R))
         /\ TablesUpTo(Reached(s, R)) \subseteq TablesUpTo(Reached(t, R))
    BY <2>8, <2>9, HigherBounds, GoodParts
  <2>11. rt \in TablesUpTo(Reached(t, R))
    <3>1. s.node.rt \in TablesUpTo(Reached(t, R))
      BY <2>10, GoodParts
    <3>2. QED
      BY <2>2, <2>3, <3>1, SearchedIsEntry DEF TablesUpTo, rt, Table
  <2>12. rreq \in Rreqs /\ TrueBody(rreq, Reached(t, R))
    <3>1. old.known \in BOOLEAN /\ old.seqNo \in Nat /\ dstSeqNo \in Nat
      BY <2>2, EntryParts
    <3>2. s.node.seqNo + 1 \in Nat
      BY GoodParts
    <3>3. rreq \in Rreqs
      BY <2>2, <3>1, <3>2 DEF rreq, Rreqs
    <3>4. old.known => dstSeqNo <= Reached(t, R)[d]
      BY <2>10, GoodParts DEF TablesUpTo
    <3>5. s.node.seqNo + 1 <= Reached(t, R)[s.at]
      BY <2>8, <3>2
    <3>6. rreq \notin Rreps
      BY DEF rreq, Rreps
    <3>7. QED
      BY <3>3, <3>4, <3>5, <3>6 DEF rreq, TrueBody
  <2>13. /\ frame.packet \in PacketsUpTo(Reached(t, R)) /\ Routed(frame)
         /\ frame \in [to: Node \cup {All}, packet: Packets]
    <3>1. rreq \notin Datas
      BY DEF rreq, Datas
    <3>2. QED
      BY <2>2, <2>12, <3>1 DEF PacketsUpTo, Packets, Packet, Bodies, Routed
  <2> HIDE DEF frame, old
  <2>14. t \in Steps
    <3>1. t = [sent EXCEPT !.out = @ \cup {frame}]
      BY <2>1, <2>4 DEF Broadcast, Emit, frame
    <3>2. QED
      BY <2>6, <2>13, <3>1 DEF Steps
  <2>15. Waits(t.node, {})
    <3>1. ASSUME NEW e \in Node \ {d}
          PROVE  rt[e] = s.node.rt[e]
      BY <2>2 DEF rt, Table
    <3>2. QED
      BY <2>5, <2>7, <3>1 DEF GoodBut, Waits, Guarded
  <2>16. s.node.seqNo <= t.node.seqNo
    BY <2>5, <2>7, GoodParts
  <2>17. \A o \in t.out : o.packet \in PacketsUpTo(Reached(t, R)) /\ Routed(o)
    BY <2>7, <2>10, <2>13 DEF GoodBut
  <2>18. \A q \in t.node.queue : q.packet \in PacketsUpTo(Reached(t, R))
    BY <2>5, <2>7, <2>10 DEF GoodBut
  <2>19. GoodBut(t, R, {})
    BY <2>5, <2>7, <2>11, <2>14, <2>15, <2>17, <2>18 DEF GoodBut
  <2>20. QED
    BY <2>4, <2>7, <2>16, <2>19 DEF Leads, Good, t
<1>4. QED
  BY <1>2, <1>3

-----------------------------------------------------------------------------
(* The queue.                                                              *)

\* A set of numbers has a least element.
LEMMA Least ==
  ASSUME NEW T \in SUBSET Nat, T # {}
  PROVE  \E x \in T : \A y \in T : x <= y
<1> DEFINE Below == {p \in Nat \X Nat : p[1] < p[2]}
<1>1. IsWellFoundedOn(Below, Nat)
  BY NatLessThanWellFounded DEF OpToRel
<1>2. \A x, y \in Nat : y < x => <<y, x>> \in Below
  OBVIOUS
<1> HIDE DEF Below
<1>3. PICK x \in T : \A y \in T : ~(<<y, x>> \in Below)
  BY <1>1, WFMin
<1>4. \A y \in T : ~(y < x)
  BY <1>2, <1>3
<1>5. QED
  BY <1>4

\* A finite set of numbers has a greatest element: of the subsets that have none, one with
\* the fewest elements would have one without any of these.
LEMMA Greatest ==
  ASSUME NEW T \in SUBSET Nat, IsFiniteSet(T), T # {}
  PROVE  \E x \in T : \A y \in T : y <= x
<1> DEFINE HasMax(S) == \E x \in S : \A y \in S : y <= x
           Bad == {S \in SUBSET T : S # {} /\ ~HasMax(S)}
<1> SUFFICES ASSUME Bad # {} PROVE FALSE
  OBVIOUS
<1>1. \A S \in SUBSET T : IsFiniteSet(S) /\ Cardinality(S) \in Nat
  BY FS_Subset, FS_CardinalityType
<1>2. PICK S \in Bad : \A U \in Bad : Cardinality(S) <= Cardinality(U)
  <2> DEFINE Sizes == {Cardinality(U) : U \in Bad}
  <2>1. Sizes \in SUBSET Nat /\ Sizes # {}
    BY <1>1
  <2>2. PICK k \in Sizes : \A l \in Sizes : k <= l
    BY <2>1, Least
  <2>3. QED
    BY <2>2
<1>3. PICK x \in S : TRUE
  BY <1>2
<1>4. Cardinality(S \ {x}) = Cardinality(S) - 1
  BY <1>1, <1>2, <1>3, FS_RemoveElement
<1>5. S \ {x} \notin Bad
  <2>1. Cardinality(S) \in Nat /\ ~(Cardinality(S) <= Cardinality(S \ {x}))
    BY <1>1, <1>2, <1>4
  <2> HIDE DEF Bad
  <2>2. QED
    BY <1>2, <2>1
<1>6. S \ {x} # {}
  BY <1>2, <1>3
<1>7. PICK y \in S \ {x} : \A z \in S \ {x} : z <= y
  BY <1>2, <1>5, <1>6
<1>8. CASE x <= y
  BY <1>2, <1>3, <1>7, <1>8
<1>9. CASE ~(x <= y)
  <2>1. x \in Nat /\ y \in Nat /\ \A z \in S : z \in Nat
    BY <1>2, <1>3, <1>7
  <2>2. \A z \in S : z <= x
    BY <1>7, <1>9, <2>1
  <2>3. QED
    BY <1>2, <1>3, <2>2
<1>10. QED
  BY <1>8, <1>9

LEMMA EnqueueFacts ==
  ASSUME NEW queue \in SUBSET Queued, IsFiniteSet(queue), NEW p \in Packets, p.dst \in Node
  PROVE  /\ Enqueue(queue, p) \subseteq Queued
         /\ IsFiniteSet(Enqueue(queue, p))
         /\ \A q \in Enqueue(queue, p) : q \in queue \/ q.packet = p
<1>1. \A q \in queue : q.no \in Nat
  BY DEF Queued
<1>2. NextNo(queue) \in Nat
  <2>1. CASE queue = {}
    BY <2>1 DEF NextNo
  <2>2. CASE queue # {}
    <3> DEFINE T == {q.no : q \in queue}
    <3>1. T \in SUBSET Nat /\ T # {}
      BY <1>1, <2>2
    <3>2. IsFiniteSet(T)
      <4> DEFINE no == [q \in queue |-> q.no]
      <4>1. no \in Surjection(queue, T)
        BY DEF Surjection
      <4>2. QED
        BY <4>1, FS_Surjection
    <3>3. PICK x \in T : \A y \in T : y <= x
      BY <3>1, <3>2, Greatest
    <3>4. \E q \in queue : \A r \in queue : q.no >= r.no
      BY <1>1, <3>3
    <3>5. Newest(queue) \in queue
      BY <3>4 DEF Newest
    <3>6. QED
      BY <1>1, <2>2, <3>5 DEF NextNo
  <2>3. QED
    BY <2>1, <2>2
<1> DEFINE new == [no |-> NextNo(queue), packet |-> p]
           kept == IF Cardinality(queue) = MaxQueueLen THEN queue \ {Oldest(queue)} ELSE queue
<1>3. new \in Queued
  BY <1>2 DEF Queued
<1>4. kept \subseteq queue /\ IsFiniteSet(kept)
  BY FS_Subset
<1>5. Enqueue(queue, p) = kept \cup {new}
  BY DEF Enqueue
<1> HIDE DEF kept
<1>6. IsFiniteSet(kept \cup {new})
  BY <1>4, FS_AddElement
<1>7. QED
  BY <1>3, <1>4, <1>5, <1>6

\* RouteOutput: without a route the packet waits, and its destination is guarded by the
\* search that it finds or starts.
LEMMA RouteOutputGood ==
  ASSUME NEW R \in Bounds, NEW s, Good(s, R),
         NEW p \in PacketsUpTo(Reached(s, R)), p.dst \in Node
  PROVE  Leads(s, RouteOutput(s, p), R)
<1> DEFINE d == p.dst
           queue == Enqueue(s.node.queue, p)
           u == [s EXCEPT !.node.queue = Enqueue(@, p)]
<1>1. s \in Steps /\ IsFiniteSet(s.node.queue)
  BY DEF Good, GoodBut
<1>2. /\ s.node.rt \in Table /\ s.node.queue \subseteq Queued /\ p \in Packets
      /\ s.node.seqNo \in Nat
  BY GoodParts DEF Good, PacketsUpTo
<1>3. CASE LookupValidRoute(s.node.rt, d)
  <2>1. s.node.rt[d].nextHop \in Node
    BY <1>2, <1>3, EntryParts DEF LookupValidRoute
  <2>2. RouteOutput(s, p) = Emit(s, s.node.rt[d].nextHop, p)
    BY <1>3 DEF RouteOutput
  <2>3. QED
    BY <2>1, <2>2, EmitGood
<1>4. CASE ~LookupValidRoute(s.node.rt, d)
  <2>1. /\ queue \subseteq Queued /\ IsFiniteSet(queue)
        /\ \A q \in queue : q \in s.node.queue \/ q.packet = p
    BY <1>1, <1>2, EnqueueFacts
  <2>2. u = [s EXCEPT !.node.queue = queue]
    OBVIOUS
  <2> HIDE DEF queue, u
  <2>3. /\ u.at = s.at /\ u.out = s.out /\ u.node.rt = s.node.rt
        /\ u.node.seqNo = s.node.seqNo /\ u.node.queue = queue
        /\ u.node.timers = s.node.timers /\ u.node.delayed = s.node.delayed
    BY <1>1, <2>2 DEF Steps, NodeState
  <2>4. u \in Steps
    BY <1>1, <2>1, <2>2 DEF Steps, NodeState
  <2>5. Reached(u, R) = Reached(s, R)
    BY <2>3 DEF Reached
  <2>6. Waits(u.node, {d})
    <3>1. \A e \in Node \ {d} : ToDestination(queue, e) # {} => ToDestination(s.node.queue, e) # {}
      BY <2>1 DEF ToDestination
    <3>2. QED
      BY <2>3, <3>1 DEF Good, GoodBut, Waits, Guarded
  <2>7. GoodBut(u, R, {d})
    BY <2>1, <2>3, <2>4, <2>5, <2>6 DEF Good, GoodBut
  <2>8. CASE s.node.rt[d].flag = "IN_SEARCH"
    <3>1. Guarded(u.node, d)
      BY <2>3, <2>8 DEF Good, GoodBut, Waits, Guarded
    <3>2. Waits(u.node, {})
      BY <2>6, <3>1 DEF Waits
    <3>3. Good(u, R)
      BY <2>7, <3>2 DEF Good, GoodBut
    <3>4. RouteOutput(s, p) = u
      BY <1>4, <2>8 DEF RouteOutput, DeferredRouteOutput, u
    <3>5. QED
      BY <1>2, <2>3, <3>3, <3>4 DEF Leads
  <2>9. CASE s.node.rt[d].flag # "IN_SEARCH"
    <3>1. RouteOutput(s, p) = SendRequest(u, d)
      BY <1>4, <2>9 DEF RouteOutput, DeferredRouteOutput, u
    <3>2. Leads(u, SendRequest(u, d), R)
      BY <2>7, SendRequestGood
    <3>3. QED
      BY <2>3, <3>1, <3>2 DEF Leads
  <2>10. QED
    BY <2>8, <2>9
<1>5. QED
  BY <1>3, <1>4

LEMMA SendToGood ==
  ASSUME NEW R \in Bounds, NEW s, Good(s, R), NEW m \in Node, NEW ttl \in Nat,
         NEW body \in Bodies, TrueBody(body, Reached(s, R))
  PROVE  Leads(s, SendTo(s, m, ttl, body), R)
<1> DEFINE p == Packet(s.at, m, ttl, body)
<1>1. s.at \in Node
  BY GoodParts DEF Good
<1>2. p \in PacketsUpTo(Reached(s, R)) /\ p.dst \in Node
  BY <1>1 DEF Packet, PacketsUpTo, Packets
<1>3. QED
  BY <1>2, RouteOutputGood DEF SendTo

LEMMA BroadcastGood ==
  ASSUME NEW R \in Bounds, NEW s, Good(s, R), NEW ttl \in Nat,
         NEW body \in Bodies, TrueBody(body, Reached(s, R)), body \notin Datas
  PROVE  Leads(s, Broadcast(s, ttl, body), R)
<1> DEFINE p == Packet(s.at, All, ttl, body)
<1>1. s.at \in Node
  BY GoodParts DEF Good
<1>2. p \in PacketsUpTo(Reached(s, R)) /\ p.body \notin Datas
  BY <1>1 DEF Packet, PacketsUpTo, Packets
<1>3. QED
  BY <1>2, EmitGood DEF Broadcast

\* Error messages and acknowledgements have no numbers.
LEMMA NoNumbers ==
  ASSUME NEW R
  PROVE  /\ \A lost \in SUBSET Node :
              Rerr(lost) \in Bodies /\ Rerr(lost) \notin Datas /\ TrueBody(Rerr(lost), R)
         /\ ReplyAck \in Bodies /\ TrueBody(ReplyAck, R)
         /\ \A m \in Message : Data(m) \in Bodies /\ TrueBody(Data(m), R)
BY DEF Rerr, ReplyAck, Data, Bodies, Rerrs, Acks, Datas, TrueBody, Rreqs, Rreps

-----------------------------------------------------------------------------
(* What the table operations make of a table.                              *)

LEMMA StoredFacts ==
  ASSUME NEW e \in Entry
  PROVE  /\ Stored(e) \in Entry
         /\ Stored(e).flag = e.flag /\ Stored(e).known = e.known
         /\ Stored(e).seqNo = e.seqNo /\ Stored(e).hop = e.hop
         /\ Stored(e).nextHop = e.nextHop
BY DEF Stored, Entry

\* The fields of an entry, which is one if it has a next hop.
Fields == [flag: Flags, known: BOOLEAN, seqNo: Nat, hop: Nat,
           nextHop: Node \cup {None}, rreqCnt: Nat, precursors: SUBSET Node]

LEMMA FieldsOfEntry ==
  /\ \A e \in Entry : e \in Fields
  /\ \A e \in Fields : e.nextHop # None => e \in Entry
BY DEF Entry, Fields

\* All fields but those that no property speaks of.
SameRoute(e, f) ==
  /\ f.flag = e.flag /\ f.known = e.known /\ f.seqNo = e.seqNo
  /\ f.hop = e.hop /\ f.nextHop = e.nextHop

LEMMA PutFacts ==
  ASSUME NEW B \in Bounds, NEW t \in TablesUpTo(B), NEW d \in Node, NEW e \in Entry,
         e.known => e.seqNo <= B[d],
         e.flag = "IN_SEARCH" => t[d].flag = "IN_SEARCH"
  PROVE  /\ Put(t, d, e) \in TablesUpTo(B)
         /\ Searching(Put(t, d, e)) \subseteq Searching(t)
         /\ SameRoute(e, Put(t, d, e)[d])
         /\ \A n \in Node \ {d} : Put(t, d, e)[n] = t[n]
<1>1. t \in Table /\ \A n \in Node : t[n].known => t[n].seqNo <= B[n]
  BY DEF TablesUpTo
<1>2. /\ Stored(e) \in Entry
      /\ SameRoute(e, Stored(e))
  BY StoredFacts DEF SameRoute
<1>3. Put(t, d, e) = [t EXCEPT ![d] = Stored(e)]
  BY DEF Put
<1>4. /\ Put(t, d, e)[d] = Stored(e)
      /\ \A n \in Node \ {d} : Put(t, d, e)[n] = t[n]
  BY <1>1, <1>3 DEF Table
<1>5. Put(t, d, e) \in Table
  BY <1>1, <1>2, <1>3 DEF Table
<1>6. QED
  BY <1>1, <1>2, <1>4, <1>5 DEF TablesUpTo, Searching, SameRoute

LEMMA UpdateIsPut ==
  ASSUME NEW t, NEW d, NEW e
  PROVE  /\ LookupRoute(t, d) => Update(t, d, e) = Put(t, d, e)
         /\ ~LookupRoute(t, d) => Update(t, d, e) = t
         /\ ~LookupRoute(t, d) => AddRoute(t, d, e) = Put(t, d, e)
BY DEF Update, AddRoute, Put

SameRoutes(t, u) == \A n \in Node : SameRoute(t[n], u[n])

LEMMA InsertPrecursorFacts ==
  ASSUME NEW B \in Bounds, NEW t \in TablesUpTo(B), NEW d \in Node, NEW m \in Node
  PROVE  LET u == InsertPrecursor(t, d, m)
         IN  /\ u \in TablesUpTo(B)
             /\ Searching(u) \subseteq Searching(t)
             /\ SameRoutes(t, u)
<1> DEFINE e == [t[d] EXCEPT !.precursors = @ \cup {m}]
           u == InsertPrecursor(t, d, m)
<1>1. t \in Table /\ \A n \in Node : t[n].known => t[n].seqNo <= B[n]
  BY DEF TablesUpTo
<1>2. CASE ~LookupRoute(t, d)
  BY <1>2, UpdateIsPut DEF InsertPrecursor, SameRoutes, SameRoute
<1>3. CASE LookupRoute(t, d)
  <2>1. t[d] \in Entry
    BY <1>1, <1>3, EntryParts
  <2>2. e \in Entry /\ SameRoute(t[d], e)
    BY <2>1 DEF Entry, SameRoute
  <2>3. u = Put(t, d, e)
    BY <1>3, UpdateIsPut DEF InsertPrecursor
  <2> HIDE DEF e, u
  <2>4. /\ u \in TablesUpTo(B) /\ Searching(u) \subseteq Searching(t)
        /\ SameRoute(e, u[d]) /\ \A n \in Node \ {d} : u[n] = t[n]
    BY <1>1, <2>2, <2>3, PutFacts DEF SameRoute
  <2>5. SameRoutes(t, u)
    BY <2>2, <2>4 DEF SameRoutes, SameRoute
  <2>6. QED
    BY <2>4, <2>5 DEF u
<1>4. QED
  BY <1>2, <1>3

LEMMA InvalidFacts ==
  ASSUME NEW e \in Entry, e.nextHop # None
  PROVE  /\ Invalidate(e) \in Entry /\ Invalidate(e).flag = "INVALID"
         /\ Invalidate(e).known = e.known /\ Invalidate(e).seqNo = e.seqNo
BY DEF Invalidate, Entry, Flags

LEMMA InvalidateFacts ==
  ASSUME NEW B \in Bounds, NEW t \in TablesUpTo(B), NEW ds
  PROVE  /\ InvalidateRoutesWithDst(t, ds) \in TablesUpTo(B)
         /\ Searching(InvalidateRoutesWithDst(t, ds)) \subseteq Searching(t)
<1> DEFINE u == InvalidateRoutesWithDst(t, ds)
<1>1. t \in Table /\ \A n \in Node : t[n].known => t[n].seqNo <= B[n]
  BY DEF TablesUpTo
<1>2. ASSUME NEW d \in Node
      PROVE  /\ u[d] \in Entry \cup {NoRoute}
             /\ u[d].known => u[d].seqNo <= B[d]
             /\ u[d].flag = "IN_SEARCH" => t[d].flag = "IN_SEARCH"
  <2>1. CASE LookupValidRoute(t, d) /\ d \in ds
    <3>1. t[d] \in Entry /\ t[d].nextHop # None
      BY <1>1, <2>1, EntryParts, NoneAssumption DEF LookupValidRoute, LookupRoute
    <3>2. u[d] = Invalidate(t[d])
      BY <2>1 DEF InvalidateRoutesWithDst
    <3>3. QED
      BY <1>1, <3>1, <3>2, InvalidFacts
  <2>2. CASE ~(LookupValidRoute(t, d) /\ d \in ds)
    <3>1. u[d] = t[d]
      BY <2>2 DEF InvalidateRoutesWithDst
    <3>2. QED
      BY <1>1, <3>1, EntryParts
  <2>3. QED
    BY <2>1, <2>2
<1>3. u = [d \in Node |-> u[d]]
  BY DEF InvalidateRoutesWithDst
<1> HIDE DEF u
<1>4. u \in Table
  BY <1>2, <1>3 DEF Table
<1>5. QED
  BY <1>2, <1>4 DEF TablesUpTo, Searching, u

LEMMA ExpireFacts ==
  ASSUME NEW B \in Bounds, NEW t \in TablesUpTo(B), NEW d \in Node
  PROVE  /\ Expire(t, d) \in TablesUpTo(B)
         /\ Searching(Expire(t, d)) \subseteq Searching(t)
<1> DEFINE u == Expire(t, d)
           new == IF t[d].flag = "VALID" THEN Invalidate(t[d]) ELSE NoRoute
<1>1. t \in Table /\ \A n \in Node : t[n].known => t[n].seqNo <= B[n]
  BY DEF TablesUpTo
<1>2. /\ new \in Entry \cup {NoRoute} /\ new.flag # "IN_SEARCH"
      /\ new.known => new.seqNo <= B[d]
  <2>1. CASE t[d].flag = "VALID"
    <3>1. t[d] \in Entry /\ t[d].nextHop # None
      BY <1>1, <2>1, EntryParts, NoneAssumption DEF LookupRoute
    <3>2. QED
      BY <1>1, <2>1, <3>1, InvalidFacts
  <2>2. CASE t[d].flag # "VALID"
    BY <2>2 DEF NoRoute
  <2>3. QED
    BY <2>1, <2>2
<1>3. u = [t EXCEPT ![d] = new]
  BY DEF Expire
<1> HIDE DEF u, new
<1>4. u \in Table /\ u[d] = new /\ \A n \in Node \ {d} : u[n] = t[n]
  BY <1>1, <1>2, <1>3 DEF Table
<1>5. QED
  BY <1>1, <1>2, <1>4 DEF TablesUpTo, Searching, u

-----------------------------------------------------------------------------
(* The queue is flushed; the retry timer.                                  *)

\* Once its packets have left or gone, nothing waits for d.
LEMMA FlushedQueue ==
  ASSUME NEW queue \in SUBSET Queued, IsFiniteSet(queue), NEW d
  PROVE  LET kept == DropPacketWithDst(queue, d)
         IN  /\ kept \subseteq queue /\ IsFiniteSet(kept)
             /\ ToDestination(kept, d) = {}
             /\ \A e : ToDestination(kept, e) \subseteq ToDestination(queue, e)
<1> DEFINE kept == DropPacketWithDst(queue, d)
<1>1. kept \subseteq queue
  BY DEF DropPacketWithDst
<1>2. IsFiniteSet(kept)
  BY <1>1, FS_Subset
<1>3. QED
  BY <1>1, <1>2 DEF DropPacketWithDst, ToDestination

LEMMA SendPacketFromQueueGood ==
  ASSUME NEW R \in Bounds, NEW d \in Node, NEW s, GoodBut(s, R, {d}),
         s.node.rt[d].nextHop \in Node,
         s.node.rt[d].flag = "IN_SEARCH" => Guarded(s.node, d)
  PROVE  Leads(s, SendPacketFromQueue(s, d), R)
<1> DEFINE hop == s.node.rt[d].nextHop
           queue == DropPacketWithDst(s.node.queue, d)
           frames == {[to |-> hop, packet |-> q.packet] : q \in ToDestination(s.node.queue, d)}
           u == SendPacketFromQueue(s, d)
<1>1. s \in Steps /\ s.node.queue \subseteq Queued /\ s.node.seqNo \in Nat
  BY GoodParts DEF GoodBut
<1>2. /\ queue \subseteq s.node.queue /\ IsFiniteSet(queue)
      /\ ToDestination(queue, d) = {}
      /\ \A e : ToDestination(queue, e) \subseteq ToDestination(s.node.queue, e)
  BY <1>1, FlushedQueue DEF GoodBut
<1>3. \A f \in frames : /\ f \in [to: Node \cup {All}, packet: Packets]
                        /\ f.packet \in PacketsUpTo(Reached(s, R)) /\ Routed(f)
  <2>1. \A q \in ToDestination(s.node.queue, d) : q \in s.node.queue
    BY DEF ToDestination
  <2>2. \A q \in s.node.queue : q.packet \in PacketsUpTo(Reached(s, R))
    BY DEF GoodBut
  <2>3. PacketsUpTo(Reached(s, R)) \subseteq Packets
    BY DEF PacketsUpTo
  <2>4. QED
    BY <2>1, <2>2, <2>3 DEF Routed
<1> DEFINE out == s.out \cup frames
<1>4. u = [s EXCEPT !.node.queue = queue, !.out = out]
  BY DEF SendPacketFromQueue
<1>5. \A f \in out : f.packet \in PacketsUpTo(Reached(s, R)) /\ Routed(f)
  BY <1>3 DEF GoodBut
<1>6. out \subseteq [to: Node \cup {All}, packet: Packets]
  BY <1>1, <1>3 DEF Steps
<1> HIDE DEF u, queue, frames, out
<1>7. /\ u.at = s.at /\ u.out = out /\ u.node.rt = s.node.rt
      /\ u.node.seqNo = s.node.seqNo /\ u.node.queue = queue
      /\ u.node.timers = s.node.timers /\ u.node.delayed = s.node.delayed
  BY <1>1, <1>4 DEF Steps, NodeState
<1>8. u \in Steps
  BY <1>1, <1>2, <1>4, <1>6 DEF Steps, NodeState
<1>9. Reached(u, R) = Reached(s, R)
  BY <1>7 DEF Reached
<1>10. Waits(u.node, {})
  BY <1>2, <1>7 DEF GoodBut, Waits, Guarded
<1>11. GoodBut(u, R, {})
  BY <1>2, <1>5, <1>7, <1>8, <1>9, <1>10 DEF GoodBut
<1>12. s.node.seqNo <= u.node.seqNo
  BY <1>1, <1>7
<1>13. QED
  BY <1>7, <1>11, <1>12 DEF Leads, Good, u

\* When the search is given up nothing is left that would need a guard.
LEMMA GiveUpGood ==
  ASSUME NEW R \in Bounds, NEW d \in Node, NEW s, GoodBut(s, R, {d})
  PROVE  Leads(s, GiveUp(s, d), R)
<1> DEFINE queue == DropPacketWithDst(s.node.queue, d)
           rt == DeleteRoute(s.node.rt, d)
           timers == s.node.timers \ {d}
           u == GiveUp(s, d)
<1>1. s \in Steps /\ s.node.queue \subseteq Queued /\ s.node.seqNo \in Nat
  BY GoodParts DEF GoodBut
<1>2. /\ queue \subseteq s.node.queue /\ IsFiniteSet(queue)
      /\ ToDestination(queue, d) = {}
      /\ \A e : ToDestination(queue, e) \subseteq ToDestination(s.node.queue, e)
  BY <1>1, FlushedQueue DEF GoodBut
<1>3. s.node.rt \in Table /\ s.node.rt \in TablesUpTo(Reached(s, R))
  BY GoodParts
<1>4. rt \in Table /\ rt[d] = NoRoute /\ \A e \in Node \ {d} : rt[e] = s.node.rt[e]
  BY <1>3 DEF DeleteRoute, Table
<1>5. rt \in TablesUpTo(Reached(s, R))
  BY <1>3, <1>4 DEF TablesUpTo, NoRoute
<1>6. u = [s EXCEPT !.node.timers = timers, !.node.rt = rt, !.node.queue = queue]
  BY DEF GiveUp
<1>7. timers \subseteq Node /\ \A e \in Node \ {d} : e \in s.node.timers => e \in timers
  BY GoodParts
<1> HIDE DEF u, queue, rt, timers
<1>8. /\ u.at = s.at /\ u.out = s.out
      /\ u.node = [s.node EXCEPT !.timers = timers, !.rt = rt, !.queue = queue]
  BY <1>1, <1>6 DEF Steps, NodeState
<1>9. /\ u.node.rt = rt /\ u.node.seqNo = s.node.seqNo /\ u.node.queue = queue
      /\ u.node.timers = timers /\ u.node.delayed = s.node.delayed
  BY <1>1, <1>8 DEF Steps, NodeState
<1>10. u \in Steps
  <2>1. u.node \in NodeState
    BY <1>1, <1>2, <1>4, <1>7, <1>8 DEF Steps, NodeState
  <2>2. u = [s EXCEPT !.node = u.node]
    BY <1>1, <1>6, <1>8 DEF Steps, NodeState
  <2>3. QED
    BY <1>1, <2>1, <2>2 DEF Steps
<1>11. Reached(u, R) = Reached(s, R)
  BY <1>8, <1>9 DEF Reached
<1>12. Waits(u.node, {})
  BY <1>2, <1>4, <1>7, <1>9 DEF GoodBut, Waits, Guarded, NoRoute
<1>13. GoodBut(u, R, {})
  BY <1>2, <1>5, <1>8, <1>9, <1>10, <1>11, <1>12 DEF GoodBut
<1>14. s.node.seqNo <= u.node.seqNo
  BY <1>1, <1>9
<1>15. QED
  BY <1>8, <1>13, <1>14 DEF Leads, Good, u

\* A timer is stopped, or a postponed request is taken from the count: d loses a guard.
LEMMA UnguardedGood ==
  ASSUME NEW R \in Bounds, NEW d \in Node, NEW s, Good(s, R), NEW u \in Steps,
         u.at = s.at, u.out = s.out, u.node.rt = s.node.rt, u.node.queue = s.node.queue,
         s.node.seqNo = u.node.seqNo,
         \A e \in Node \ {d} : /\ e \in s.node.timers => e \in u.node.timers
                               /\ u.node.delayed[e] = s.node.delayed[e]
  PROVE  GoodBut(u, R, {d})
<1>1. Reached(u, R) = Reached(s, R)
  BY DEF Reached
<1>2. Waits(u.node, {d})
  BY DEF Good, GoodBut, Waits, Guarded
<1>3. QED
  BY <1>1, <1>2 DEF Good, GoodBut

LEMMA StopTimerGood ==
  ASSUME NEW R \in Bounds, NEW d \in Node, NEW s, Good(s, R)
  PROVE  LET u == [s EXCEPT !.node.timers = @ \ {d}]
         IN  /\ GoodBut(u, R, {d})
             /\ u.at = s.at /\ u.node.seqNo = s.node.seqNo /\ u.node.rt = s.node.rt
<1> DEFINE u == [s EXCEPT !.node.timers = @ \ {d}]
<1>1. s \in Steps
  BY DEF Good, GoodBut
<1>2. /\ u.at = s.at /\ u.out = s.out /\ u.node.rt = s.node.rt
      /\ u.node.seqNo = s.node.seqNo /\ u.node.queue = s.node.queue
      /\ u.node.timers = s.node.timers \ {d} /\ u.node.delayed = s.node.delayed
  BY <1>1 DEF Steps, NodeState
<1>3. u \in Steps
  BY <1>1 DEF Steps, NodeState
<1> HIDE DEF u
<1>4. GoodBut(u, R, {d})
  BY <1>2, <1>3, UnguardedGood
<1>5. QED
  BY <1>2, <1>4 DEF u

LEMMA RouteRequestTimerExpireGood ==
  ASSUME NEW R \in Bounds, NEW d \in Node, NEW fired, Good(fired, R)
  PROVE  Leads(fired, RouteRequestTimerExpire(fired, d), R)
<1> DEFINE s == [fired EXCEPT !.node.timers = @ \ {d}]
           e == s.node.rt[d]
           t == RouteRequestTimerExpire(fired, d)
<1>1. /\ GoodBut(s, R, {d})
      /\ s.at = fired.at /\ s.node.seqNo = fired.node.seqNo /\ s.node.rt = fired.node.rt
  BY StopTimerGood
<1>2. /\ e.flag = "VALID" => t = SendPacketFromQueue(s, d)
      /\ e.flag = "IN_SEARCH" /\ e.rreqCnt # RreqRetries => t = SendRequest(s, d)
      /\ e.flag # "VALID" /\ ~(e.flag = "IN_SEARCH" /\ e.rreqCnt # RreqRetries) =>
           t = GiveUp(s, d)
  BY DEF RouteRequestTimerExpire
<1>3. e.flag = "VALID" => e.nextHop \in Node
  <2>1. s.node.rt \in Table
    BY <1>1, GoodParts
  <2>2. QED
    BY <2>1, EntryParts
<1> HIDE DEF s, t
<1>4. Leads(s, t, R)
  BY <1>1, <1>2, <1>3, SendPacketFromQueueGood, SendRequestGood, GiveUpGood
<1>5. QED
  BY <1>1, <1>4 DEF Leads, t

-----------------------------------------------------------------------------
(* Errors.                                                                 *)

LEMMA SendRerrMessageGood ==
  ASSUME NEW R \in Bounds, NEW s, Good(s, R), NEW t,
         NEW lost \in SUBSET Node, NEW precursors \in SUBSET Node
  PROVE  Leads(s, SendRerrMessage(s, t, lost, precursors), R)
<1>1. Rerr(lost) \in Bodies /\ Rerr(lost) \notin Datas /\ TrueBody(Rerr(lost), Reached(s, R))
  BY NoNumbers
<1> DEFINE m == CHOOSE m \in precursors : TRUE
           u == SendRerrMessage(s, t, lost, precursors)
<1>2. \/ u = s
      \/ u = SendTo(s, m, 1, Rerr(lost)) /\ precursors # {}
      \/ u = Broadcast(s, 1, Rerr(lost))
  <2>1. CASE \A k \in precursors : ~LookupValidRoute(t, k)
    BY <2>1 DEF SendRerrMessage
  <2>2. CASE \E k \in precursors : LookupValidRoute(t, k) /\ precursors = {k}
    BY <2>2 DEF SendRerrMessage
  <2>3. CASE /\ ~(\A k \in precursors : ~LookupValidRoute(t, k))
             /\ ~(\E k \in precursors : LookupValidRoute(t, k) /\ precursors = {k})
    BY <2>3 DEF SendRerrMessage
  <2>4. QED
    BY <2>1, <2>2, <2>3
<1>3. precursors # {} => m \in Node
  OBVIOUS
<1> HIDE DEF m, u
<1>4. Leads(s, u, R)
  BY <1>1, <1>2, <1>3, LeadsBack, SendToGood, BroadcastGood
<1>5. QED
  BY <1>4 DEF u

LEMMA ReportLostGood ==
  ASSUME NEW R \in Bounds, NEW s, Good(s, R), NEW lost \in SUBSET Node
  PROVE  Leads(s, ReportLost(s, lost), R)
<1> DEFINE t == InvalidateRoutesWithDst(s.node.rt, lost)
           u == WithTable(s, t)
           told == Precursors(s.node.rt, lost)
<1>1. Reached(s, R) \in Bounds /\ s.node.rt \in TablesUpTo(Reached(s, R)) /\ s.node.rt \in Table
  BY GoodParts DEF Good
<1>2. t \in TablesUpTo(Reached(s, R)) /\ Searching(t) \subseteq Searching(s.node.rt)
  BY <1>1, InvalidateFacts
<1>3. told \subseteq Node
  BY <1>1, EntryParts DEF Precursors
<1> HIDE DEF t, told
<1>4. Leads(s, u, R)
  BY <1>2, TableGood
<1> HIDE DEF u
<1>5. Leads(u, SendRerrMessage(u, s.node.rt, lost, told), R)
  BY <1>3, <1>4, SendRerrMessageGood DEF Leads
<1>6. ReportLost(s, lost) = SendRerrMessage(u, s.node.rt, lost, told)
  BY DEF ReportLost, u, t, told
<1>7. QED
  BY <1>4, <1>5, <1>6, LeadsOn

LEMMA CloseNeighborGood ==
  ASSUME NEW R \in Bounds, NEW s, Good(s, R), NEW m \in Node
  PROVE  Leads(s, CloseNeighbor(s, m), R)
<1> DEFINE told == SendRerrWhenBreaksLinkToNextHop(s, m)
           u == CloseNeighbor(s, m)
<1>1. {m} \cup DestinationsVia(s.node.rt, m) \subseteq Node
  BY DEF DestinationsVia
<1>2. Leads(s, told, R)
  BY <1>1, ReportLostGood, LeadsBack DEF SendRerrWhenBreaksLinkToNextHop
<1>3. told \in Steps
  BY <1>2 DEF Leads, Good, GoodBut
<1>4. u = [told EXCEPT !.node.nb = @ \ {m}]
  BY DEF CloseNeighbor
<1> HIDE DEF told, u
<1>5. /\ u.at = told.at /\ u.out = told.out /\ u.node.rt = told.node.rt
      /\ u.node.seqNo = told.node.seqNo /\ u.node.queue = told.node.queue
      /\ u.node.timers = told.node.timers /\ u.node.delayed = told.node.delayed
  BY <1>3, <1>4 DEF Steps, NodeState
<1>6. u \in Steps
  BY <1>3, <1>4 DEF Steps, NodeState
<1>7. told.node.seqNo <= u.node.seqNo
  BY <1>2, <1>5, GoodParts DEF Leads, Good
<1>8. GoodBut(u, R, {})
  BY <1>2, <1>5, <1>6, <1>7, SideGood DEF Leads, Good
<1>9. Leads(told, u, R)
  BY <1>5, <1>7, <1>8 DEF Leads, Good
<1>10. QED
  BY <1>2, <1>9, LeadsOn DEF u

LEMMA SendRerrWhenNoRouteToForwardGood ==
  ASSUME NEW R \in Bounds, NEW s, Good(s, R), NEW d \in Node, NEW origin \in Node
  PROVE  Leads(s, SendRerrWhenNoRouteToForward(s, d, origin), R)
<1>1. Rerr({d}) \in Bodies /\ Rerr({d}) \notin Datas /\ TrueBody(Rerr({d}), Reached(s, R))
  BY NoNumbers
<1>2. LookupValidRoute(s.node.rt, origin) => s.node.rt[origin].nextHop \in Node
  BY GoodParts, EntryParts DEF Good, LookupValidRoute
<1>3. QED
  BY <1>1, <1>2, SendToGood, BroadcastGood DEF SendRerrWhenNoRouteToForward

-----------------------------------------------------------------------------
(* Route requests.                                                         *)

\* After this the table has an entry for the neighbour, with a next hop.
LEMMA UpdateRouteToNeighborGood ==
  ASSUME NEW R \in Bounds, NEW s, Good(s, R), NEW m \in Node
  PROVE  LET u == UpdateRouteToNeighbor(s, m)
         IN  /\ Leads(s, u, R)
             /\ u.node.seqNo = s.node.seqNo
             /\ u.node.rt[m].nextHop \in Node
<1> DEFINE e == s.node.rt[m]
           t == Put(s.node.rt, m, Route(FALSE, 0, 1, m))
           u == UpdateRouteToNeighbor(s, m)
<1>1. /\ Reached(s, R) \in Bounds /\ s.node.rt \in TablesUpTo(Reached(s, R))
      /\ s.node.rt \in Table
  BY GoodParts DEF Good
<1>2. CASE LookupRoute(s.node.rt, m) /\ e.known /\ e.hop = 1
  <2>1. u = s
    BY <1>2 DEF UpdateRouteToNeighbor
  <2>2. e.nextHop \in Node
    BY <1>1, <1>2, EntryParts
  <2>3. QED
    BY <2>1, <2>2, LeadsBack
<1>3. CASE ~(LookupRoute(s.node.rt, m) /\ e.known /\ e.hop = 1)
  <2>1. u = WithTable(s, t)
    BY <1>3 DEF UpdateRouteToNeighbor
  <2> DEFINE r == Route(FALSE, 0, 1, m)
  <2>2. r \in Entry /\ r.flag = "VALID" /\ ~r.known /\ r.nextHop = m
    <3>1. 0 \in Nat /\ 1 \in Nat
      OBVIOUS
    <3>2. QED
      BY NoneAssumption DEF r, Route, NoRoute, Entry, Flags
  <2> HIDE DEF r
  <2>3. /\ Put(s.node.rt, m, r) \in TablesUpTo(Reached(s, R))
        /\ Searching(Put(s.node.rt, m, r)) \subseteq Searching(s.node.rt)
        /\ SameRoute(r, Put(s.node.rt, m, r)[m])
    BY <1>1, <2>2, PutFacts
  <2>4. t = Put(s.node.rt, m, r)
    BY DEF r
  <2> HIDE DEF t
  <2>5. Leads(s, WithTable(s, t), R) /\ WithTable(s, t).node.rt = t
        /\ WithTable(s, t).node.seqNo = s.node.seqNo
    BY <2>3, <2>4, TableGood
  <2>6. t[m].nextHop \in Node
    BY <2>2, <2>3, <2>4 DEF SameRoute
  <2>7. QED
    BY <2>1, <2>5, <2>6
<1>4. QED
  BY <1>2, <1>3

\* A request about whose originator the table knows: where to send the answer, and no
\* number that the originator has not reached, valid or not.
OriginKnown(t, B, rreq) ==
  t[rreq.origin].nextHop \in Node /\ t[rreq.origin].seqNo <= B[rreq.origin]

LEMMA ReverseRouteFacts ==
  ASSUME NEW B \in Bounds, NEW t \in TablesUpTo(B), NEW rreq \in Rreqs, TrueBody(rreq, B),
         NEW src \in Node
  PROVE  LET u == ReverseRoute(t, rreq, src)
         IN  /\ u \in TablesUpTo(B)
             /\ Searching(u) \subseteq Searching(t)
             /\ OriginKnown(u, B, rreq)
<1> DEFINE o == rreq.origin
           e == t[o]
           new == IF e.known /\ e.seqNo > rreq.originSeqNo THEN e.seqNo ELSE rreq.originSeqNo
           old == [e EXCEPT !.seqNo = new, !.known = TRUE, !.nextHop = src, !.hop = rreq.hop + 1]
           r == IF LookupRoute(t, o) THEN old
                ELSE Route(TRUE, rreq.originSeqNo, rreq.hop + 1, src)
           u == ReverseRoute(t, rreq, src)
<1>1. t \in Table /\ \A n \in Node : t[n].known => t[n].seqNo <= B[n]
  BY DEF TablesUpTo
<1>2. /\ o \in Node /\ rreq.originSeqNo \in Nat /\ rreq.hop + 1 \in Nat
      /\ rreq.originSeqNo <= B[o]
  BY DEF Rreqs, TrueBody
<1>3. new \in Nat /\ new <= B[o]
  BY <1>1, <1>2, EntryParts
<1>4. /\ r \in Entry /\ r.seqNo <= B[o] /\ r.nextHop = src
      /\ r.flag = "IN_SEARCH" => t[o].flag = "IN_SEARCH"
  <2>1. CASE LookupRoute(t, o)
    <3>1. e \in Entry
      BY <1>1, <1>2, <2>1, EntryParts
    <3> HIDE DEF e, new
    <3>2. e \in Fields /\ rreq.hop + 1 \in Nat
      BY <1>2, <3>1, FieldsOfEntry
    <3>3. /\ old \in Fields /\ old.seqNo = new /\ old.nextHop = src /\ old.flag = e.flag
      BY <1>3, <3>2 DEF Fields
    <3> HIDE DEF old
    <3>4. old \in Entry
      BY <3>3, NoneAssumption, FieldsOfEntry
    <3>5. QED
      BY <1>3, <2>1, <3>3, <3>4 DEF e
  <2>2. CASE ~LookupRoute(t, o)
    <3>1. r = Route(TRUE, rreq.originSeqNo, rreq.hop + 1, src)
      BY <2>2
    <3> HIDE DEF r
    <3>2. r \in Entry /\ r.flag = "VALID" /\ r.seqNo = rreq.originSeqNo /\ r.nextHop = src
      BY <1>2, <3>1, NoneAssumption DEF Route, NoRoute, Entry, Flags
    <3>3. QED
      BY <1>2, <3>2
  <2>3. QED
    BY <2>1, <2>2
<1>5. u = Put(t, o, r)
  BY UpdateIsPut DEF ReverseRoute
<1> HIDE DEF r, u
<1>6. /\ u \in TablesUpTo(B) /\ Searching(u) \subseteq Searching(t) /\ SameRoute(r, u[o])
  BY <1>2, <1>4, <1>5, PutFacts
<1>7. QED
  BY <1>4, <1>6 DEF SameRoute, OriginKnown, u

LEMMA PreviousHopFacts ==
  ASSUME NEW B \in Bounds, NEW t \in TablesUpTo(B), NEW rreq \in Rreqs, TrueBody(rreq, B),
         NEW src \in Node, OriginKnown(t, B, rreq)
  PROVE  LET u == PreviousHop(t, rreq, src)
         IN  /\ u \in TablesUpTo(B)
             /\ Searching(u) \subseteq Searching(t)
             /\ OriginKnown(u, B, rreq)
<1> DEFINE e == t[src]
           old == [e EXCEPT !.flag = "VALID", !.known = FALSE, !.seqNo = rreq.originSeqNo,
                            !.hop = 1, !.nextHop = src]
           r == IF LookupRoute(t, src) THEN old ELSE Route(FALSE, rreq.originSeqNo, 1, src)
           u == PreviousHop(t, rreq, src)
<1>1. t \in Table
  BY DEF TablesUpTo
<1>2. rreq.origin \in Node /\ rreq.originSeqNo \in Nat /\ rreq.originSeqNo <= B[rreq.origin]
  BY DEF Rreqs, TrueBody
<1>3. /\ r \in Entry /\ r.seqNo = rreq.originSeqNo /\ r.nextHop = src
      /\ r.flag = "VALID" /\ ~r.known
  <2>1. CASE LookupRoute(t, src)
    <3>1. e \in Entry
      BY <1>1, <2>1, EntryParts
    <3> HIDE DEF e
    <3>2. /\ old \in Entry /\ old.seqNo = rreq.originSeqNo /\ old.nextHop = src
          /\ old.flag = "VALID" /\ ~old.known
      <4>1. e \in Fields
        BY <3>1, FieldsOfEntry
      <4>2. /\ old \in Fields /\ old.seqNo = rreq.originSeqNo /\ old.nextHop = src
            /\ old.flag = "VALID" /\ ~old.known
        BY <1>2, <4>1 DEF Fields, Flags
      <4> HIDE DEF old
      <4>3. QED
        BY <4>2, NoneAssumption, FieldsOfEntry
    <3>3. QED
      BY <2>1, <3>2
  <2>2. CASE ~LookupRoute(t, src)
    <3>1. r = Route(FALSE, rreq.originSeqNo, 1, src) /\ 1 \in Nat
      BY <2>2
    <3> HIDE DEF r
    <3>2. QED
      BY <1>2, <3>1, NoneAssumption DEF Route, NoRoute, Entry, Flags
  <2>3. QED
    BY <2>1, <2>2
<1>4. u = Put(t, src, r)
  BY UpdateIsPut DEF PreviousHop
<1> HIDE DEF r, u
<1>5. /\ u \in TablesUpTo(B) /\ Searching(u) \subseteq Searching(t) /\ SameRoute(r, u[src])
      /\ \A n \in Node \ {src} : u[n] = t[n]
  BY <1>3, <1>4, PutFacts
<1>6. CASE rreq.origin = src
  BY <1>2, <1>3, <1>5, <1>6 DEF SameRoute, OriginKnown, u
<1>7. CASE rreq.origin # src
  BY <1>2, <1>5, <1>7 DEF OriginKnown, u
<1>8. QED
  BY <1>6, <1>7

\* The destination answers, with its own number, which it may raise before.
LEMMA SendReplyGood ==
  ASSUME NEW R \in Bounds, NEW s, Good(s, R), NEW rreq \in Rreqs,
         OriginKnown(s.node.rt, Reached(s, R), rreq)
  PROVE  Leads(s, SendReply(s, rreq), R)
<1> DEFINE toOrigin == s.node.rt[rreq.origin]
           seqNo == IF rreq.known /\ rreq.dstSeqNo = s.node.seqNo + 1
                    THEN s.node.seqNo + 1 ELSE s.node.seqNo
           u == [s EXCEPT !.node.seqNo = seqNo]
           b == Rrep(s.at, seqNo, rreq.origin, 0, FALSE)
<1>1. s \in Steps
  BY DEF Good, GoodBut
<1>2. s.node.seqNo \in Nat /\ s.node.rt \in Table /\ s.at \in Node /\ rreq.origin \in Node
  BY GoodParts DEF Good, Rreqs
<1>3. seqNo \in Nat /\ s.node.seqNo <= seqNo
  BY <1>2
<1>4. toOrigin.nextHop \in Node /\ toOrigin.hop \in Nat
  BY <1>2, EntryParts DEF OriginKnown
<1> HIDE DEF seqNo, u, toOrigin, b
<1>5. /\ u.at = s.at /\ u.out = s.out /\ u.node.rt = s.node.rt /\ u.node.seqNo = seqNo
      /\ u.node.queue = s.node.queue
      /\ u.node.timers = s.node.timers /\ u.node.delayed = s.node.delayed
  BY <1>1 DEF Steps, NodeState, u
<1>6. u \in Steps
  BY <1>1, <1>3 DEF Steps, NodeState, u
<1>7. GoodBut(u, R, {})
  BY <1>3, <1>5, <1>6, SideGood DEF Good
<1>8. Leads(s, u, R)
  BY <1>3, <1>5, <1>7 DEF Leads, Good
<1>9. b \in Bodies /\ TrueBody(b, Reached(u, R))
  <2>1. Reached(u, R) \in Bounds /\ Reached(u, R)[s.at] = seqNo
    BY <1>5, <1>7, GoodParts
  <2>2. seqNo <= Reached(u, R)[s.at] /\ 0 \in Nat /\ FALSE \in BOOLEAN
    BY <1>3, <2>1
  <2>3. QED
    BY <1>2, <1>3, <2>1, <2>2 DEF b, Rrep, Bodies, Rreps, Rreqs, TrueBody
<1>10. Leads(u, SendTo(u, toOrigin.nextHop, toOrigin.hop, b), R)
  BY <1>4, <1>7, <1>9, SendToGood DEF Good
<1>11. SendReply(s, rreq) = SendTo(u, toOrigin.nextHop, toOrigin.hop, b)
  BY DEF SendReply, u, toOrigin, b, seqNo
<1>12. QED
  BY <1>8, <1>10, <1>11, LeadsOn

LEMMA SendReplyByIntermediateNodeGood ==
  ASSUME NEW R \in Bounds, NEW s, Good(s, R), NEW d \in Node, NEW origin \in Node,
         s.node.rt[origin].nextHop \in Node,
         s.node.rt[origin].seqNo <= Reached(s, R)[origin],
         s.node.rt[d].flag = "VALID", s.node.rt[d].known
  PROVE  Leads(s, SendReplyByIntermediateNode(s, d, origin), R)
<1> DEFINE B == Reached(s, R)
           t == s.node.rt
           toDst == t[d]
           toOrigin == t[origin]
           t1 == InsertPrecursor(t, d, toOrigin.nextHop)
           t2 == InsertPrecursor(t1, origin, toDst.nextHop)
           u == WithTable(s, t2)
           b == Rrep(d, toDst.seqNo, origin, toDst.hop, toDst.hop = 1)
           replied == SendTo(u, toOrigin.nextHop, toOrigin.hop, b)
           c == Rrep(origin, toOrigin.seqNo, d, toOrigin.hop, FALSE)
           both == SendTo(replied, toDst.nextHop, toDst.hop, c)
<1>1. B \in Bounds /\ t \in TablesUpTo(B) /\ t \in Table
  BY GoodParts DEF Good
<1>2. /\ toDst.nextHop \in Node /\ toDst.hop \in Nat /\ toDst.seqNo \in Nat
      /\ toDst.seqNo <= B[d]
      /\ toOrigin.nextHop \in Node /\ toOrigin.hop \in Nat /\ toOrigin.seqNo \in Nat
      /\ toOrigin.seqNo <= B[origin]
  BY <1>1, EntryParts DEF TablesUpTo
<1>3. t1 \in TablesUpTo(B) /\ Searching(t1) \subseteq Searching(t)
  BY <1>1, <1>2, InsertPrecursorFacts
<1>4. t2 \in TablesUpTo(B) /\ Searching(t2) \subseteq Searching(t)
  BY <1>1, <1>2, <1>3, InsertPrecursorFacts
<1>5. Leads(s, u, R) /\ u.node.seqNo = s.node.seqNo /\ u.at = s.at
  BY <1>4, TableGood
<1>6. b \in Bodies /\ b \notin Datas /\ TrueBody(b, B)
  BY <1>1, <1>2 DEF Rrep, Bodies, Rreps, Rreqs, Datas, TrueBody
<1>7. c \in Bodies /\ c \notin Datas /\ TrueBody(c, B)
  BY <1>1, <1>2 DEF Rrep, Bodies, Rreps, Rreqs, Datas, TrueBody
<1> HIDE DEF t1, t2, u, b, c
<1>8. Reached(u, R) = B
  BY <1>5 DEF Reached
<1>9. Leads(u, replied, R)
  BY <1>2, <1>5, <1>6, <1>8, SendToGood DEF Leads
<1>10. Leads(s, replied, R)
  BY <1>5, <1>9, LeadsOn
<1>11. TrueBody(c, Reached(replied, R))
  BY <1>7, <1>10, StillTrue
<1> HIDE DEF replied
<1>12. Leads(replied, both, R)
  BY <1>2, <1>7, <1>10, <1>11, SendToGood DEF Leads
<1>13. Leads(s, both, R)
  BY <1>10, <1>12, LeadsOn
<1>14. SendReplyByIntermediateNode(s, d, origin) = IF GratuitousReply THEN both ELSE replied
  BY DEF SendReplyByIntermediateNode, t1, t2, u, b, c, replied
<1>15. QED
  BY <1>10, <1>13, <1>14

LEMMA ForwardRequestGood ==
  ASSUME NEW R \in Bounds, NEW s, Good(s, R), NEW ttl \in Nat,
         NEW rreq \in Rreqs, TrueBody(rreq, Reached(s, R))
  PROVE  Leads(s, ForwardRequest(s, ttl, rreq), R)
<1>1. rreq \in Bodies /\ rreq \notin Datas
  BY DEF Bodies, Rreqs, Datas
<1>2. ttl >= 2 => ttl - 1 \in Nat
  OBVIOUS
<1>3. QED
  BY <1>1, <1>2, LeadsBack, BroadcastGood DEF ForwardRequest

\* A request that is taken may be passed on: one hop further, with what it says as true.
LEMMA AnswerRequestGood ==
  ASSUME NEW R \in Bounds, NEW s, Good(s, R), NEW p \in PacketsUpTo(Reached(s, R)),
         p.body \in Rreqs, OriginKnown(s.node.rt, Reached(s, R), p.body)
  PROVE  Leads(s, AnswerRequest(s, p), R)
<1> DEFINE B == Reached(s, R)
           rreq == [p.body EXCEPT !.hop = @ + 1]
           toDst == s.node.rt[rreq.dst]
           newer == [rreq EXCEPT !.known = TRUE, !.dstSeqNo = toDst.seqNo]
           t == AnswerRequest(s, p)
<1>1. B \in Bounds /\ s.node.rt \in TablesUpTo(B) /\ s.node.rt \in Table
  BY GoodParts DEF Good
<1>2. p.ttl \in Nat /\ TrueBody(p.body, B)
  BY DEF PacketsUpTo, Packets
<1>3. /\ rreq \in Rreqs /\ rreq.origin = p.body.origin /\ rreq.dst = p.body.dst
      /\ rreq.originSeqNo = p.body.originSeqNo /\ rreq.known = p.body.known
      /\ rreq.dstSeqNo = p.body.dstSeqNo
  BY DEF Rreqs
<1>4. TrueBody(rreq, B)
  <2>1. rreq \notin Rreps
    BY <1>3 DEF Rreqs, Rreps
  <2>2. QED
    BY <1>2, <1>3, <2>1 DEF TrueBody
<1>5. OriginKnown(s.node.rt, B, rreq)
  BY <1>3 DEF OriginKnown
<1>6. rreq.dst \in Node /\ rreq.origin \in Node
  BY <1>3 DEF Rreqs
<1> HIDE DEF rreq
<1>7. toDst.known => newer \in Rreqs /\ TrueBody(newer, B)
  <2>1. toDst.seqNo \in Nat /\ (toDst.known => toDst.seqNo <= B[rreq.dst])
    BY <1>1, <1>6, EntryParts DEF TablesUpTo
  <2>2. /\ newer \in Rreqs /\ newer \notin Rreps
        /\ newer.origin = rreq.origin /\ newer.dst = rreq.dst
        /\ newer.originSeqNo = rreq.originSeqNo /\ newer.dstSeqNo = toDst.seqNo
    BY <1>3, <2>1 DEF Rreqs, Rreps
  <2> HIDE DEF newer
  <2>3. QED
    BY <1>3, <1>4, <2>1, <2>2 DEF TrueBody
<1>8. \/ t = s
      \/ t = SendReply(s, rreq)
      \/ t = ForwardRequest(s, p.ttl, rreq)
      \/ toDst.known /\ t = ForwardRequest(s, p.ttl, newer)
      \/ /\ toDst.known /\ toDst.flag = "VALID"
         /\ t = SendReplyByIntermediateNode(s, rreq.dst, rreq.origin)
  <2>1. CASE rreq.dst = s.at
    BY <2>1 DEF AnswerRequest, rreq
  <2>2. CASE rreq.dst # s.at /\ ~LookupRoute(s.node.rt, rreq.dst)
    BY <2>2 DEF AnswerRequest, rreq
  <2>3. CASE rreq.dst # s.at /\ LookupRoute(s.node.rt, rreq.dst)
    <3> DEFINE loops == MakesLoop(toDst, p.src)
               knows == KnowsEnough(toDst, rreq)
               valid == toDst.flag = "VALID" /\ ~DestinationOnly
    <3>1. t = CASE loops -> s
                [] ~loops /\ knows /\ toDst.flag = "VALID" /\ ~DestinationOnly ->
                     SendReplyByIntermediateNode(s, rreq.dst, rreq.origin)
                [] ~loops /\ knows /\ (toDst.flag # "VALID" \/ DestinationOnly) ->
                     ForwardRequest(s, p.ttl, newer)
                [] OTHER -> ForwardRequest(s, p.ttl, rreq)
      BY <2>3 DEF AnswerRequest, rreq
    <3>2. knows => toDst.known
      BY DEF KnowsEnough
    <3> HIDE DEF loops, knows, newer, toDst, t
    <3>3. CASE loops
      BY <3>1, <3>3
    <3>4. CASE ~loops /\ knows /\ toDst.flag = "VALID" /\ ~DestinationOnly
      BY <3>1, <3>2, <3>4
    <3>5. CASE ~loops /\ knows /\ (toDst.flag # "VALID" \/ DestinationOnly)
      BY <3>1, <3>2, <3>5
    <3>6. CASE ~loops /\ ~knows
      BY <3>1, <3>6
    <3>7. QED
      BY <3>3, <3>4, <3>5, <3>6
  <2>4. QED
    BY <2>1, <2>2, <2>3
<1> HIDE DEF t, newer
<1>9. Leads(s, SendReply(s, rreq), R)
  BY <1>3, <1>5, SendReplyGood
<1>10. Leads(s, ForwardRequest(s, p.ttl, rreq), R)
  BY <1>2, <1>3, <1>4, ForwardRequestGood
<1>11. toDst.known => Leads(s, ForwardRequest(s, p.ttl, newer), R)
  BY <1>2, <1>7, ForwardRequestGood
<1>12. toDst.known /\ toDst.flag = "VALID" =>
         Leads(s, SendReplyByIntermediateNode(s, rreq.dst, rreq.origin), R)
  BY <1>5, <1>6, SendReplyByIntermediateNodeGood DEF OriginKnown
<1>13. Leads(s, s, R)
  BY LeadsBack
<1>14. Leads(s, t, R)
  BY <1>8, <1>9, <1>10, <1>11, <1>12, <1>13
<1>15. QED
  BY <1>14 DEF t

LEMMA RecvRequestGood ==
  ASSUME NEW R \in Bounds, NEW s, Good(s, R), NEW p \in PacketsUpTo(Reached(s, R)),
         p.body \in Rreqs
  PROVE  Leads(s, RecvRequest(s, p), R)
<1> DEFINE B == Reached(s, R)
           id == <<p.body.origin, p.body.id>>
           noted == [s EXCEPT !.node.seen = @ \cup {id}]
           r == ReverseRoute(s.node.rt, p.body, p.src)
           t == PreviousHop(r, p.body, p.src)
           u == WithTable(noted, t)
           v == Refresh(u, p.src)
<1>1. s \in Steps
  BY DEF Good, GoodBut
<1>2. /\ B \in Bounds /\ s.node.rt \in TablesUpTo(B) /\ s.node.seqNo \in Nat
      /\ s.node.seen \subseteq Node \X Nat
  BY GoodParts DEF Good
<1>3. p.src \in Node /\ TrueBody(p.body, B)
  BY DEF PacketsUpTo, Packets
<1>4. p.body.origin \in Node /\ p.body.id \in Nat
  BY DEF Rreqs
<1>5. /\ r \in TablesUpTo(B) /\ Searching(r) \subseteq Searching(s.node.rt)
      /\ OriginKnown(r, B, p.body)
  BY <1>2, <1>3, ReverseRouteFacts
<1> HIDE DEF r
<1>6. /\ t \in TablesUpTo(B) /\ Searching(t) \subseteq Searching(r)
      /\ OriginKnown(t, B, p.body)
  BY <1>2, <1>3, <1>5, PreviousHopFacts
<1> HIDE DEF t
<1> DEFINE seen == s.node.seen \cup {id}
<1>7. seen \subseteq Node \X Nat /\ noted = [s EXCEPT !.node.seen = seen]
  BY <1>2, <1>4
<1> HIDE DEF noted, seen
<1>8. /\ noted.at = s.at /\ noted.out = s.out /\ noted.node.rt = s.node.rt
      /\ noted.node.seqNo = s.node.seqNo /\ noted.node.queue = s.node.queue
      /\ noted.node.timers = s.node.timers /\ noted.node.delayed = s.node.delayed
      /\ noted \in Steps
  BY <1>1, <1>7 DEF Steps, NodeState
<1>9. s.node.seqNo <= noted.node.seqNo
  BY <1>2, <1>8
<1>10. GoodBut(noted, R, {})
  BY <1>8, <1>9, SideGood DEF Good
<1>11. Reached(noted, R) = B /\ Good(noted, R)
  BY <1>8, <1>10 DEF Reached, Good
<1>12. Leads(s, noted, R)
  BY <1>8, <1>9, <1>11 DEF Leads
<1>13. /\ Leads(noted, u, R) /\ u.node.rt = t
       /\ u.node.seqNo = noted.node.seqNo /\ u.at = noted.at
  BY <1>5, <1>6, <1>8, <1>11, TableGood
<1> HIDE DEF u
<1>14. Leads(u, v, R) /\ v.node.rt = t /\ v.node.seqNo = u.node.seqNo /\ v.at = u.at
  BY <1>3, <1>13, RefreshGood DEF Leads
<1> HIDE DEF v
<1>15. Reached(v, R) = B
  BY <1>8, <1>13, <1>14 DEF Reached
<1>16. Leads(v, AnswerRequest(v, p), R)
  BY <1>6, <1>14, <1>15, AnswerRequestGood DEF Leads
<1>17. Leads(s, AnswerRequest(v, p), R)
  <2>1. Leads(s, u, R)
    BY <1>12, <1>13, LeadsOn
  <2>2. Leads(s, v, R)
    BY <1>14, <2>1, LeadsOn
  <2>3. QED
    BY <1>16, <2>2, LeadsOn
<1>18. RecvRequest(s, p) = IF id \in s.node.seen THEN s ELSE AnswerRequest(v, p)
  BY DEF RecvRequest, v, u, noted, t, r, seen
<1>19. QED
  BY <1>17, <1>18, LeadsBack

-----------------------------------------------------------------------------
(* Route replies and hellos.                                               *)

\* Sending a packet does not change where the routes lead, though one may be searched for.
SameHops(s, t) == \A d \in Node : t.node.rt[d].nextHop = s.node.rt[d].nextHop

LEMMA SendRequestKeepsHops ==
  ASSUME NEW s \in Steps, NEW d \in Node
  PROVE  SameHops(s, SendRequest(s, d))
<1> DEFINE t == SendRequest(s, d)
<1>1. s.node.rt \in Table
  BY DEF Steps, NodeState
<1>2. CASE s.node.rreqCount = RreqRateLimit
  <2>1. t.node.rt = s.node.rt
    BY <1>2 DEF SendRequest, Postpone, Steps, NodeState
  <2>2. QED
    BY <2>1 DEF SameHops
<1>3. CASE s.node.rreqCount # RreqRateLimit
  <2> DEFINE f == Searched(s.node.rt[d], RingTtl(s.node.rt[d]))
  <2>1. t.node.rt = [s.node.rt EXCEPT ![d] = f]
    BY <1>3 DEF SendRequest, Broadcast, Emit, Steps, NodeState
  <2>2. f.nextHop = s.node.rt[d].nextHop
    <3>1. s.node.rt[d] \in Entry \cup {NoRoute}
      BY <1>1 DEF Table
    <3>2. QED
      BY <3>1 DEF Searched, Entry, NoRoute
  <2> HIDE DEF t, f
  <2>3. \A e \in Node : t.node.rt[e].nextHop = s.node.rt[e].nextHop
    BY <1>1, <2>1, <2>2 DEF Table
  <2>4. QED
    BY <2>3 DEF SameHops, t
<1>4. QED
  BY <1>2, <1>3

LEMMA RouteOutputKeepsHops ==
  ASSUME NEW R \in Bounds, NEW s, Good(s, R), NEW p \in Packets, p.dst \in Node
  PROVE  SameHops(s, RouteOutput(s, p))
<1> DEFINE queue == Enqueue(s.node.queue, p)
           u == [s EXCEPT !.node.queue = Enqueue(@, p)]
<1>1. s \in Steps /\ IsFiniteSet(s.node.queue) /\ s.node.queue \subseteq Queued
  BY GoodParts DEF Good, GoodBut
<1>2. queue \subseteq Queued
  BY <1>1, EnqueueFacts
<1>3. u = [s EXCEPT !.node.queue = queue]
  OBVIOUS
<1> HIDE DEF queue, u
<1>4. u \in Steps /\ u.node.rt = s.node.rt
  BY <1>1, <1>2, <1>3 DEF Steps, NodeState
<1>5. SameHops(u, SendRequest(u, p.dst))
  BY <1>4, SendRequestKeepsHops
<1>6. \/ RouteOutput(s, p) = Emit(s, s.node.rt[p.dst].nextHop, p)
      \/ RouteOutput(s, p) = u
      \/ RouteOutput(s, p) = SendRequest(u, p.dst)
  BY DEF RouteOutput, DeferredRouteOutput, u
<1>7. \A to : Emit(s, to, p).node = s.node
  BY <1>1 DEF Emit, Steps
<1>8. QED
  BY <1>4, <1>5, <1>6, <1>7 DEF SameHops

\* The packets leave over the route that the reply has made, or over the one it confirms.
LEMMA CompleteDiscoveryGood ==
  ASSUME NEW R \in Bounds, NEW s, Good(s, R), NEW d \in Node, NEW wasInSearch \in BOOLEAN,
         NEW seqNo \in Nat, NEW hop \in Nat, NEW m \in Node,
         seqNo <= Reached(s, R)[d], s.node.rt[d].nextHop \in Node
  PROVE  Leads(s, CompleteDiscovery(s, d, wasInSearch, Route(TRUE, seqNo, hop, m)), R)
<1> DEFINE B == Reached(s, R)
           new == Route(TRUE, seqNo, hop, m)
           t == CompleteDiscovery(s, d, wasInSearch, new)
<1>1. s \in Steps /\ s.node.seqNo \in Nat /\ s.node.queue \subseteq Queued
  BY GoodParts DEF Good, GoodBut
<1>2. B \in Bounds /\ s.node.rt \in TablesUpTo(B) /\ s.node.rt \in Table
  BY GoodParts DEF Good
<1>3. CASE ~wasInSearch
  <2>1. t = SendPacketFromQueue(s, d)
    BY <1>3 DEF CompleteDiscovery
  <2>2. GoodBut(s, R, {d}) /\ (s.node.rt[d].flag = "IN_SEARCH" => Guarded(s.node, d))
    BY DEF Good, GoodBut, Waits
  <2>3. QED
    BY <2>1, <2>2, SendPacketFromQueueGood
<1>4. CASE wasInSearch
  <2> DEFINE rt == Put(s.node.rt, d, new)
             timers == s.node.timers \ {d}
             u == [s EXCEPT !.node.rt = Update(@, d, new), !.node.timers = @ \ {d}]
  <2>1. t = SendPacketFromQueue(u, d)
    BY <1>4 DEF CompleteDiscovery
  <2>2. LookupRoute(s.node.rt, d)
    BY <1>2, EntryParts, NoneAssumption DEF Table, NoRoute
  <2>3. new \in Entry /\ new.flag = "VALID" /\ new.seqNo = seqNo /\ new.nextHop = m
    BY NoneAssumption DEF Route, NoRoute, Entry, Flags
  <2> HIDE DEF new
  <2>4. /\ rt \in TablesUpTo(B) /\ Searching(rt) \subseteq Searching(s.node.rt)
        /\ SameRoute(new, rt[d]) /\ \A e \in Node \ {d} : rt[e] = s.node.rt[e]
    BY <1>2, <2>3, PutFacts
  <2>5. u = [s EXCEPT !.node.rt = rt, !.node.timers = timers]
    BY <2>2, UpdateIsPut
  <2>6. timers \subseteq Node /\ rt \in Table
    BY <2>4, GoodParts DEF Good, TablesUpTo
  <2> HIDE DEF rt, u, t
  <2>7. /\ u.at = s.at /\ u.out = s.out /\ u.node.rt = rt
        /\ u.node.seqNo = s.node.seqNo /\ u.node.queue = s.node.queue
        /\ u.node.timers = timers /\ u.node.delayed = s.node.delayed
    BY <1>1, <2>5 DEF Steps, NodeState
  <2>8. u \in Steps
    <3>1. u = [s EXCEPT !.node = [s.node EXCEPT !.rt = rt, !.timers = timers]]
      BY <1>1, <2>5 DEF Steps, NodeState
    <3>2. QED
      BY <1>1, <2>6, <3>1 DEF Steps, NodeState
  <2>9. Reached(u, R) = B
    BY <2>7 DEF Reached
  <2>10. Waits(u.node, {d})
    <3>1. \A e \in Node \ {d} : /\ rt[e] = s.node.rt[e]
                                /\ e \in s.node.timers => e \in timers
      BY <2>4
    <3> HIDE DEF timers
    <3>2. Waits(s.node, {})
      BY DEF Good, GoodBut
    <3>3. ASSUME NEW e \in Node \ {d},
                 u.node.rt[e].flag = "IN_SEARCH" \/ ToDestination(u.node.queue, e) # {}
          PROVE  Guarded(u.node, e)
      <4>1. /\ u.node.rt[e] = s.node.rt[e]
            /\ ToDestination(u.node.queue, e) = ToDestination(s.node.queue, e)
        BY <2>7, <3>1
      <4>2. Guarded(s.node, e)
        BY <3>2, <3>3, <4>1 DEF Waits
      <4>3. /\ u.node.timers = timers /\ u.node.delayed = s.node.delayed
            /\ e \in s.node.timers => e \in timers
        BY <2>7, <3>1
      <4>4. QED
        BY <4>2, <4>3 DEF Guarded
    <3>4. QED
      BY <3>3 DEF Waits
  <2>11. GoodBut(u, R, {d})
    BY <2>4, <2>7, <2>8, <2>9, <2>10 DEF Good, GoodBut
  <2>12. u.node.rt[d].nextHop \in Node /\ u.node.rt[d].flag = "VALID"
    BY <2>3, <2>4, <2>7 DEF SameRoute
  <2>13. Leads(u, t, R)
    BY <2>1, <2>11, <2>12, SendPacketFromQueueGood
  <2>14. QED
    BY <2>7, <2>13 DEF Leads, t, new
<1>5. QED
  BY <1>3, <1>4

LEMMA ForwardReplyGood ==
  ASSUME NEW R \in Bounds, NEW s, Good(s, R), NEW p \in Packets,
         NEW rrep \in Rreps, TrueBody(rrep, Reached(s, R)),
         s.node.rt[rrep.origin].flag \notin {"NONE", "IN_SEARCH"}
  PROVE  Leads(s, ForwardReply(s, p, rrep), R)
<1> DEFINE B == Reached(s, R)
           t        == s.node.rt
           toDst    == t[rrep.dst]
           toOrigin == t[rrep.origin]
           t1 == InsertPrecursor(t, rrep.dst, toOrigin.nextHop)
           t2 == InsertPrecursor(t1, toDst.nextHop, toOrigin.nextHop)
           e  == [toOrigin EXCEPT !.precursors = @ \cup {toDst.nextHop}]
           t3 == Update(t2, rrep.origin, e)
           t4 == InsertPrecursor(t3, toOrigin.nextHop, toDst.nextHop)
           linked == IF LookupValidRoute(t, rrep.dst) THEN WithTable(s, t4) ELSE s
<1>1. B \in Bounds /\ t \in TablesUpTo(B) /\ t \in Table
  BY GoodParts DEF Good
<1>2. rrep.origin \in Node /\ rrep.dst \in Node
  BY DEF Rreps
<1>3. /\ toOrigin.nextHop \in Node
      /\ toOrigin \in Entry /\ toOrigin.flag \in Flags
      /\ toOrigin.known => toOrigin.seqNo <= B[rrep.origin]
  BY <1>1, <1>2, EntryParts DEF TablesUpTo, Flags, LookupRoute
<1>4. Leads(s, linked, R) /\ linked.node.seqNo = s.node.seqNo /\ linked.at = s.at
  <2>1. CASE ~LookupValidRoute(t, rrep.dst)
    BY <2>1, LeadsBack
  <2>2. CASE LookupValidRoute(t, rrep.dst)
    <3>1. toDst.nextHop \in Node
      BY <1>1, <1>2, <2>2, EntryParts DEF LookupValidRoute
    <3>2. t1 \in TablesUpTo(B) /\ Searching(t1) \subseteq Searching(t) /\ SameRoutes(t, t1)
      BY <1>1, <1>2, <1>3, InsertPrecursorFacts
    <3> HIDE DEF t1
    <3>3. t2 \in TablesUpTo(B) /\ Searching(t2) \subseteq Searching(t1) /\ SameRoutes(t1, t2)
      BY <1>1, <1>3, <3>1, <3>2, InsertPrecursorFacts
    <3>4. LookupRoute(t2, rrep.origin) /\ t2[rrep.origin].flag = toOrigin.flag
      BY <1>2, <3>2, <3>3 DEF SameRoutes, SameRoute, LookupRoute
    <3> HIDE DEF t2
    <3>5. e \in Entry /\ SameRoute(toOrigin, e)
      BY <1>3, <3>1 DEF Entry, SameRoute
    <3> HIDE DEF e
    <3>6. t3 = Put(t2, rrep.origin, e)
      BY <3>4, UpdateIsPut
    <3> HIDE DEF t3
    <3>7. t3 \in TablesUpTo(B) /\ Searching(t3) \subseteq Searching(t2)
      <4>1. /\ e.known => e.seqNo <= B[rrep.origin]
            /\ e.flag = "IN_SEARCH" => t2[rrep.origin].flag = "IN_SEARCH"
        BY <1>3, <3>4, <3>5 DEF SameRoute
      <4> HIDE DEF toOrigin
      <4>2. QED
        BY <1>1, <1>2, <3>3, <3>5, <3>6, <4>1, PutFacts
    <3>8. t4 \in TablesUpTo(B) /\ Searching(t4) \subseteq Searching(t3)
      BY <1>1, <1>3, <3>1, <3>7, InsertPrecursorFacts
    <3> HIDE DEF t4
    <3>9. Searching(t4) \subseteq Searching(t)
      BY <3>2, <3>3, <3>7, <3>8
    <3>10. /\ Leads(s, WithTable(s, t4), R)
           /\ WithTable(s, t4).node.seqNo = s.node.seqNo /\ WithTable(s, t4).at = s.at
      BY <3>8, <3>9, TableGood
    <3>11. QED
      BY <2>2, <3>10
  <2>3. QED
    BY <2>1, <2>2
<1>5. ForwardReply(s, p, rrep) =
        IF p.ttl < 2 THEN linked ELSE SendTo(linked, toOrigin.nextHop, p.ttl - 1, rrep)
  BY DEF ForwardReply
<1> HIDE DEF linked
<1>6. Reached(linked, R) = B
  BY <1>4 DEF Reached
<1>7. rrep \in Bodies
  BY DEF Bodies
<1>8. ~(p.ttl < 2) => p.ttl - 1 \in Nat
  BY DEF Packets
<1>9. ~(p.ttl < 2) => Leads(linked, SendTo(linked, toOrigin.nextHop, p.ttl - 1, rrep), R)
  BY <1>3, <1>4, <1>6, <1>7, <1>8, SendToGood DEF Leads
<1>10. ~(p.ttl < 2) => Leads(s, SendTo(linked, toOrigin.nextHop, p.ttl - 1, rrep), R)
  BY <1>4, <1>9, LeadsOn
<1>11. QED
  BY <1>4, <1>5, <1>10

LEMMA ProcessHelloGood ==
  ASSUME NEW R \in Bounds, NEW s, Good(s, R), NEW rrep \in Rreps,
         TrueBody(rrep, Reached(s, R))
  PROVE  Leads(s, ProcessHello(s, rrep), R)
<1> DEFINE B == Reached(s, R)
           t == s.node.rt
           d == rrep.dst
           e == t[d]
           old == [e EXCEPT !.flag = "VALID", !.known = TRUE, !.seqNo = rrep.seqNo,
                            !.hop = 1, !.nextHop = d]
           r == IF LookupRoute(t, d) THEN old ELSE Route(TRUE, rrep.seqNo, 1, d)
           heard == Put(t, d, r)
<1>1. B \in Bounds /\ t \in TablesUpTo(B) /\ t \in Table
  BY GoodParts DEF Good
<1>2. d \in Node /\ rrep.seqNo \in Nat /\ rrep.seqNo <= B[d]
  BY DEF Rreps, TrueBody
<1>3. r \in Entry /\ r.seqNo = rrep.seqNo /\ r.flag = "VALID"
  <2>1. CASE LookupRoute(t, d)
    <3>1. e \in Fields
      BY <1>1, <1>2, <2>1, EntryParts, FieldsOfEntry
    <3> HIDE DEF e
    <3>2. /\ old \in Fields /\ old.seqNo = rrep.seqNo /\ old.nextHop = d
          /\ old.flag = "VALID"
      BY <1>2, <3>1 DEF Fields, Flags
    <3> HIDE DEF old
    <3>3. old \in Entry
      BY <1>2, <3>2, NoneAssumption, FieldsOfEntry
    <3>4. QED
      BY <2>1, <3>2, <3>3
  <2>2. CASE ~LookupRoute(t, d)
    <3>1. r = Route(TRUE, rrep.seqNo, 1, d)
      BY <2>2
    <3> HIDE DEF r
    <3>2. QED
      BY <1>2, <3>1, NoneAssumption DEF Route, NoRoute, Entry, Flags
  <2>3. QED
    BY <2>1, <2>2
<1>4. ProcessHello(s, rrep) = Refresh(WithTable(s, heard), d)
  BY UpdateIsPut DEF ProcessHello
<1> HIDE DEF r
<1>5. heard \in TablesUpTo(B) /\ Searching(heard) \subseteq Searching(t)
  BY <1>1, <1>2, <1>3, PutFacts
<1> HIDE DEF heard
<1>6. Leads(s, WithTable(s, heard), R)
  BY <1>5, TableGood
<1>7. Leads(WithTable(s, heard), Refresh(WithTable(s, heard), d), R)
  BY <1>2, <1>6, RefreshGood DEF Leads
<1>8. QED
  BY <1>4, <1>6, <1>7, LeadsOn

LEMMA AcceptReplyGood ==
  ASSUME NEW R \in Bounds, NEW s, Good(s, R), NEW p \in PacketsUpTo(Reached(s, R)),
         p.body \in Rreps
  PROVE  Leads(s, AcceptReply(s, p), R)
<1> DEFINE B == Reached(s, R)
           rrep == [p.body EXCEPT !.hop = @ + 1, !.ackRequired = FALSE]
           d    == rrep.dst
           old  == s.node.rt[d]
           new  == Route(TRUE, rrep.seqNo, rrep.hop, p.src)
           routed == IF Supersedes(rrep, rrep.hop, old)
                     THEN WithTable(s, Put(s.node.rt, d, new)) ELSE s
           acked  == IF p.body.ackRequired THEN SendTo(routed, p.src, 1, ReplyAck)
                                           ELSE routed
           toOrigin == acked.node.rt[rrep.origin]
<1>1. B \in Bounds /\ s.node.rt \in TablesUpTo(B) /\ s.node.rt \in Table /\ s.at \in Node
  BY GoodParts DEF Good
<1>2. p \in Packets /\ p.src \in Node /\ TrueBody(p.body, B)
  BY DEF PacketsUpTo, Packets
<1>3. /\ rrep \in Rreps /\ rrep.dst = p.body.dst /\ rrep.seqNo = p.body.seqNo
      /\ p.body.seqNo <= B[p.body.dst]
  <2>1. p.body.hop + 1 \in Nat /\ p.body.seqNo <= B[p.body.dst]
    BY <1>2 DEF Rreps, TrueBody
  <2>2. /\ rrep \in Rreps /\ rrep.dst = p.body.dst /\ rrep.seqNo = p.body.seqNo
    BY <2>1 DEF Rreps
  <2>3. QED
    BY <2>1, <2>2
<1>4. TrueBody(rrep, B)
  BY <1>3 DEF TrueBody, Rreqs, Rreps
<1> HIDE DEF rrep
<1>5. /\ d \in Node /\ rrep.seqNo \in Nat /\ rrep.hop \in Nat /\ rrep.origin \in Node
      /\ rrep.seqNo <= B[d]
  BY <1>3 DEF Rreps
<1>6. /\ Leads(s, routed, R) /\ routed.at = s.at
      /\ routed.node.rt[d].nextHop \in Node
  <2>1. CASE ~Supersedes(rrep, rrep.hop, old)
    <3>1. old.known
      BY <2>1 DEF Supersedes
    <3>2. old.nextHop \in Node
      BY <1>1, <1>5, <3>1, EntryParts
    <3>3. routed = s
      BY <2>1
    <3>4. QED
      BY <3>2, <3>3, LeadsBack
  <2>2. CASE Supersedes(rrep, rrep.hop, old)
    <3>1. /\ new \in Entry /\ new.flag = "VALID" /\ new.seqNo = rrep.seqNo
          /\ new.nextHop = p.src
      BY <1>2, <1>5, NoneAssumption DEF Route, NoRoute, Entry, Flags
    <3> HIDE DEF new
    <3> DEFINE rt == Put(s.node.rt, d, new)
    <3>2. /\ rt \in TablesUpTo(B) /\ Searching(rt) \subseteq Searching(s.node.rt)
          /\ SameRoute(new, rt[d])
      BY <1>1, <1>5, <3>1, PutFacts
    <3>3. rt[d].nextHop \in Node
      BY <1>2, <3>1, <3>2 DEF SameRoute
    <3>4. routed = WithTable(s, rt)
      BY <2>2
    <3> HIDE DEF rt, routed
    <3>5. QED
      BY <3>2, <3>3, <3>4, TableGood
  <2>3. QED
    BY <2>1, <2>2
<1> HIDE DEF routed
<1>7. /\ Leads(routed, acked, R) /\ acked.node.rt[d].nextHop \in Node
  <2>1. CASE ~p.body.ackRequired
    BY <1>6, <2>1, LeadsBack DEF Leads
  <2>2. CASE p.body.ackRequired
    <3> DEFINE ack == Packet(routed.at, p.src, 1, ReplyAck)
    <3>1. Good(routed, R) /\ 1 \in Nat
      BY <1>6 DEF Leads
    <3>2. acked = RouteOutput(routed, ack)
      BY <2>2 DEF SendTo
    <3>3. ReplyAck \in Bodies /\ TrueBody(ReplyAck, Reached(routed, R))
      BY NoNumbers
    <3>4. ack \in Packets /\ ack.dst \in Node
      BY <1>1, <1>2, <1>6, <3>1, <3>3 DEF Packet, Packets
    <3>5. SameHops(routed, acked)
      BY <3>1, <3>2, <3>4, RouteOutputKeepsHops
    <3>6. Leads(routed, SendTo(routed, p.src, 1, ReplyAck), R)
      BY <1>2, <3>1, <3>3, SendToGood
    <3>7. acked = SendTo(routed, p.src, 1, ReplyAck)
      BY <2>2
    <3> HIDE DEF acked
    <3>8. QED
      BY <1>5, <1>6, <3>5, <3>6, <3>7 DEF SameHops
  <2>3. QED
    BY <2>1, <2>2
<1> HIDE DEF acked
<1>8. Leads(s, acked, R) /\ Good(acked, R)
  BY <1>6, <1>7, LeadsOn DEF Leads
<1>9. rrep \in Bodies
  BY <1>3 DEF Bodies
<1>10. TrueBody(rrep, Reached(acked, R))
  BY <1>4, <1>8, <1>9, StillTrue
<1>11. rrep.seqNo <= Reached(acked, R)[d]
  BY <1>3, <1>10 DEF TrueBody
<1>12. AcceptReply(s, p) =
         CASE rrep.origin = s.at ->
                CompleteDiscovery(acked, d, old.flag = "IN_SEARCH", new)
           [] rrep.origin # s.at /\ toOrigin.flag \in {"NONE", "IN_SEARCH"} -> acked
           [] OTHER -> ForwardReply(acked, p, rrep)
  BY DEF AcceptReply, acked, routed, rrep
<1>13. CASE rrep.origin = s.at
  <2> DEFINE was == old.flag = "IN_SEARCH"
  <2>1. AcceptReply(s, p) = CompleteDiscovery(acked, d, was, new)
    BY <1>12, <1>13
  <2>2. was \in BOOLEAN
    OBVIOUS
  <2> HIDE DEF was
  <2>3. Leads(acked, CompleteDiscovery(acked, d, was, new), R)
    BY <1>2, <1>5, <1>7, <1>8, <1>11, <2>2, CompleteDiscoveryGood
  <2>4. QED
    BY <1>8, <2>1, <2>3, LeadsOn
<1>14. CASE rrep.origin # s.at /\ toOrigin.flag \in {"NONE", "IN_SEARCH"}
  <2>1. AcceptReply(s, p) = acked
    BY <1>12, <1>14
  <2>2. QED
    BY <1>8, <2>1
<1>15. CASE rrep.origin # s.at /\ toOrigin.flag \notin {"NONE", "IN_SEARCH"}
  <2>1. AcceptReply(s, p) = ForwardReply(acked, p, rrep)
    BY <1>12, <1>15
  <2>2. Leads(acked, ForwardReply(acked, p, rrep), R)
    BY <1>2, <1>3, <1>8, <1>10, <1>15, ForwardReplyGood
  <2>3. QED
    BY <1>8, <2>1, <2>2, LeadsOn
<1>16. QED
  BY <1>13, <1>14, <1>15

LEMMA RecvReplyAckGood ==
  ASSUME NEW R \in Bounds, NEW s, Good(s, R), NEW p \in Packets,
         s.node.rt[p.src].nextHop \in Node
  PROVE  Leads(s, RecvReplyAck(s, p), R)
<1> DEFINE B == Reached(s, R)
           t == s.node.rt
           e == t[p.src]
           r == [e EXCEPT !.flag = "VALID"]
           u == Update(t, p.src, r)
<1>1. B \in Bounds /\ t \in TablesUpTo(B) /\ t \in Table /\ p.src \in Node
  BY GoodParts DEF Good, Packets
<1>2. RecvReplyAck(s, p) = WithTable(s, u)
  BY DEF RecvReplyAck
<1>3. CASE ~LookupRoute(t, p.src)
  <2>1. u = t
    BY <1>3, UpdateIsPut
  <2>2. QED
    BY <1>1, <1>2, <2>1, TableGood
<1>4. CASE LookupRoute(t, p.src)
  <2>1. e \in Fields /\ e.nextHop # None /\ (e.known => e.seqNo <= B[p.src])
    BY <1>1, <1>4, EntryParts, FieldsOfEntry, NoneAssumption DEF TablesUpTo
  <2> HIDE DEF e
  <2>2. /\ r \in Fields /\ r.flag = "VALID" /\ r.nextHop = e.nextHop
        /\ r.known = e.known /\ r.seqNo = e.seqNo
    BY <2>1 DEF Fields, Flags
  <2> HIDE DEF r
  <2>3. r \in Entry
    BY <2>1, <2>2, FieldsOfEntry
  <2>4. u = Put(t, p.src, r)
    BY <1>4, UpdateIsPut
  <2> HIDE DEF u
  <2>5. u \in TablesUpTo(B) /\ Searching(u) \subseteq Searching(t)
    BY <1>1, <2>1, <2>2, <2>3, <2>4, PutFacts
  <2>6. QED
    BY <1>2, <2>5, TableGood
<1>5. QED
  BY <1>3, <1>4

-----------------------------------------------------------------------------
(* Packets that arrive.                                                    *)

LEMMA RecvAodvGood ==
  ASSUME NEW R \in Bounds, NEW s, Good(s, R), NEW p \in PacketsUpTo(Reached(s, R)),
         p.body \notin Datas
  PROVE  Leads(s, RecvAodv(s, p), R)
<1> DEFINE known == UpdateRouteToNeighbor(s, p.src)
<1>1. p \in Packets /\ p.src \in Node /\ p.body \in Bodies
  BY DEF PacketsUpTo, Packets
<1>2. /\ Leads(s, known, R) /\ known.node.seqNo = s.node.seqNo
      /\ known.node.rt[p.src].nextHop \in Node
  BY <1>1, UpdateRouteToNeighborGood
<1>3. RecvAodv(s, p) =
        CASE p.body.type = "RREQ"     -> RecvRequest(known, p)
          [] p.body.type = "RREP"     -> RecvReply(known, p)
          [] p.body.type = "RERR"     -> RecvError(known, p)
          [] p.body.type = "RREP_ACK" -> RecvReplyAck(known, p)
  BY DEF RecvAodv
<1> HIDE DEF known
<1>4. Good(known, R) /\ p \in PacketsUpTo(Reached(known, R))
  BY <1>2, StillTrue DEF Leads
<1>5. CASE p.body \in Rreqs
  <2>1. RecvAodv(s, p) = RecvRequest(known, p)
    BY <1>3, <1>5 DEF Rreqs
  <2>2. Leads(known, RecvRequest(known, p), R)
    BY <1>4, <1>5, RecvRequestGood
  <2>3. QED
    BY <1>2, <2>1, <2>2, LeadsOn
<1>6. CASE p.body \in Rreps
  <2>1. RecvAodv(s, p) = RecvReply(known, p)
    BY <1>3, <1>6 DEF Rreps
  <2>2. TrueBody(p.body, Reached(known, R))
    BY <1>4 DEF PacketsUpTo
  <2>3. Leads(known, RecvReply(known, p), R)
    BY <1>4, <1>6, <2>2, ProcessHelloGood, AcceptReplyGood DEF RecvReply
  <2>4. QED
    BY <1>2, <2>1, <2>3, LeadsOn
<1>7. CASE p.body \in Rerrs
  <2>1. RecvAodv(s, p) = RecvError(known, p)
    BY <1>3, <1>7 DEF Rerrs
  <2>2. p.body.lost \cap DestinationsVia(known.node.rt, p.src) \in SUBSET Node
    BY DEF DestinationsVia
  <2>3. Leads(known, RecvError(known, p), R)
    BY <1>4, <2>2, ReportLostGood DEF RecvError
  <2>4. QED
    BY <1>2, <2>1, <2>3, LeadsOn
<1>8. CASE p.body \in Acks
  <2>1. RecvAodv(s, p) = RecvReplyAck(known, p)
    BY <1>3, <1>8 DEF Acks
  <2>2. Leads(known, RecvReplyAck(known, p), R)
    BY <1>1, <1>2, <1>4, RecvReplyAckGood
  <2>3. QED
    BY <1>2, <2>1, <2>2, LeadsOn
<1>9. QED
  BY <1>1, <1>5, <1>6, <1>7, <1>8 DEF Bodies

LEMMA ForwardingGood ==
  ASSUME NEW R \in Bounds, NEW s, Good(s, R), NEW p \in PacketsUpTo(Reached(s, R)),
         p.dst \in Node
  PROVE  Leads(s, Forwarding(s, p), R)
<1> DEFINE e == s.node.rt[p.dst]
           back == s.node.rt[p.src].nextHop
           near == Refresh(s, e.nextHop)
           refreshed == Refresh(near, back)
           less == [p EXCEPT !.ttl = @ - 1]
<1>1. p \in Packets /\ p.src \in Node
  BY DEF PacketsUpTo, Packets
<1>2. s.node.rt \in Table
  BY GoodParts DEF Good
<1>3. /\ e.nextHop \in Node \cup {None} /\ back \in Node \cup {None}
      /\ e.flag = "VALID" => e.nextHop \in Node
  BY <1>1, <1>2, EntryParts
<1>4. Forwarding(s, p) =
        CASE e.flag # "VALID" -> SendRerrWhenNoRouteToForward(s, p.dst, p.src)
          [] e.flag = "VALID" /\ p.ttl < 2 -> refreshed
          [] e.flag = "VALID" /\ p.ttl >= 2 -> Emit(refreshed, e.nextHop, less)
  BY DEF Forwarding
<1> HIDE DEF back
<1>5. Leads(s, near, R)
  BY <1>3, RefreshGood
<1> HIDE DEF near
<1>6. Leads(near, refreshed, R)
  BY <1>3, <1>5, RefreshGood DEF Leads
<1> HIDE DEF refreshed, e
<1>7. Leads(s, refreshed, R)
  BY <1>5, <1>6, LeadsOn
<1>8. CASE e.flag # "VALID"
  <2>1. Forwarding(s, p) = SendRerrWhenNoRouteToForward(s, p.dst, p.src)
    BY <1>4, <1>8
  <2>2. Leads(s, SendRerrWhenNoRouteToForward(s, p.dst, p.src), R)
    BY <1>1, SendRerrWhenNoRouteToForwardGood
  <2>3. QED
    BY <2>1, <2>2
<1>9. CASE e.flag = "VALID" /\ p.ttl < 2
  <2>1. ~(p.ttl >= 2)
    BY <1>1, <1>9 DEF Packets
  <2>2. Forwarding(s, p) = refreshed
    BY <1>4, <1>9, <2>1
  <2>3. QED
    BY <1>7, <2>2
<1>10. CASE e.flag = "VALID" /\ p.ttl >= 2
  <2>1. Forwarding(s, p) = Emit(refreshed, e.nextHop, less)
    BY <1>4, <1>10
  <2>2. p \in PacketsUpTo(Reached(refreshed, R))
    BY <1>7, StillTrue
  <2>3. less \in PacketsUpTo(Reached(refreshed, R))
    <3>1. p.ttl - 1 \in Nat
      BY <1>1, <1>10 DEF Packets
    <3>2. less \in Packets /\ less.body = p.body /\ less.dst = p.dst
      BY <1>1, <3>1 DEF Packets
    <3>3. QED
      BY <2>2, <3>2 DEF PacketsUpTo
  <2>4. Leads(refreshed, Emit(refreshed, e.nextHop, less), R)
    BY <1>3, <1>7, <1>10, <2>3, EmitGood DEF Leads
  <2>5. QED
    BY <1>7, <2>1, <2>4, LeadsOn
<1>11. p.ttl \in Nat
  BY <1>1 DEF Packets
<1>12. QED
  BY <1>8, <1>9, <1>10, <1>11

LEMMA LocalDeliverGood ==
  ASSUME NEW R \in Bounds, NEW s, Good(s, R), NEW p \in PacketsUpTo(Reached(s, R))
  PROVE  Leads(s, LocalDeliver(s, p), R)
<1> DEFINE refreshed == IF LookupValidRoute(s.node.rt, p.src)
                        THEN Refresh(s, s.node.rt[p.src].nextHop) ELSE s
<1>1. p.src \in Node /\ s.node.rt \in Table
  BY GoodParts DEF PacketsUpTo, Packets, Good
<1>2. s.node.rt[p.src].nextHop \in Node \cup {None}
  BY <1>1, EntryParts
<1>3. Leads(s, refreshed, R)
  BY <1>2, RefreshGood, LeadsBack
<1>4. LocalDeliver(s, p) =
        IF p.body.type = "DATA" THEN refreshed ELSE RecvAodv(refreshed, p)
  BY DEF LocalDeliver
<1> HIDE DEF refreshed
<1>5. p.body.type # "DATA" => p.body \notin Datas
  BY DEF Datas
<1>6. p \in PacketsUpTo(Reached(refreshed, R))
  BY <1>3, StillTrue
<1>7. p.body.type # "DATA" => Leads(refreshed, RecvAodv(refreshed, p), R)
  BY <1>3, <1>5, <1>6, RecvAodvGood DEF Leads
<1>8. QED
  BY <1>3, <1>4, <1>7, LeadsOn

LEMMA RouteInputGood ==
  ASSUME NEW R \in Bounds, NEW s, Good(s, R), NEW p \in PacketsUpTo(Reached(s, R))
  PROVE  Leads(s, RouteInput(s, p), R)
<1>1. p.dst \in Node \cup {All} /\ s.at \in Node
  BY GoodParts DEF PacketsUpTo, Packets, Good
<1>2. CASE p.src = s.at
  <2>1. RouteInput(s, p) = s
    BY <1>2 DEF RouteInput
  <2>2. QED
    BY <2>1, LeadsBack
<1>3. CASE p.src # s.at /\ p.dst = All
  <2>1. RouteInput(s, p) = RecvAodv(s, p)
    BY <1>1, <1>3, AllAssumption DEF RouteInput
  <2>2. p.body \notin Datas
    BY <1>3, AllAssumption DEF PacketsUpTo
  <2>3. QED
    BY <2>1, <2>2, RecvAodvGood
<1>4. CASE p.src # s.at /\ p.dst = s.at
  <2>1. RouteInput(s, p) = LocalDeliver(s, p)
    BY <1>1, <1>4, AllAssumption DEF RouteInput
  <2>2. QED
    BY <2>1, LocalDeliverGood
<1>5. CASE p.src # s.at /\ p.dst \notin {All, s.at}
  <2>1. RouteInput(s, p) = Forwarding(s, p)
    BY <1>5 DEF RouteInput
  <2>2. p.dst \in Node
    BY <1>1, <1>5
  <2>3. QED
    BY <2>1, <2>2, ForwardingGood
<1>6. QED
  BY <1>2, <1>3, <1>4, <1>5

-----------------------------------------------------------------------------
(* The network.                                                            *)

\* The numbers that the stations have reached.
Numbers == [n \in Node |-> node[n].seqNo]

\* A station at rest is a step that has not begun.
Sound(n) == Good(Step(n), Numbers)

\* The inductive invariant: besides the stations, the frames in the air tell no number
\* that its owner has not reached, for it may be believed when they arrive.
Stations ==
  /\ node \in [Node -> NodeState]
  /\ air \subseteq [from: Node, to: Node \cup {All}, packet: Packets]
  /\ \A n \in Node : Sound(n)
  /\ \A f \in air : f.packet \in PacketsUpTo(Numbers) /\ Routed(f)

IInv == TypeOK /\ Stations

\* The variables besides keep their types.
Rest ==
  /\ broken' \subseteq Node \X Node
  /\ unsent' \subseteq Message /\ delivered' \subseteq Message
  /\ unheard' \subseteq Node
  /\ faults' \in Nat

\* A state of a station is sound as the state of a step with no frames.
LEMMA SoundParts ==
  ASSUME node \in [Node -> NodeState], NEW n \in Node
  PROVE  /\ Numbers \in Bounds
         /\ Reached(Step(n), Numbers) = Numbers
         /\ Step(n).at = n /\ Step(n).node = node[n] /\ Step(n).out = {}
         /\ Sound(n) <=> /\ IsFiniteSet(node[n].queue)
                         /\ Waits(node[n], {})
                         /\ node[n].rt \in TablesUpTo(Numbers)
                         /\ \A q \in node[n].queue : q.packet \in PacketsUpTo(Numbers)
<1>1. Numbers \in Bounds
  BY DEF Numbers, Bounds, NodeState
<1>2. Step(n).at = n /\ Step(n).node = node[n] /\ Step(n).out = {}
  BY DEF Step, Begin
<1>3. Step(n) \in Steps
  BY DEF Step, Begin, Steps
<1>4. Reached(Step(n), Numbers) = Numbers
  BY <1>2 DEF Reached, Numbers
<1>5. QED
  BY <1>1, <1>2, <1>3, <1>4 DEF Sound, Good, GoodBut

\* The stations have taken steps, each one its own, and their frames are in the air.
LEMMA Progress ==
  ASSUME Stations, NEW t,
         \A n \in Node : Leads(Step(n), t[n], Numbers),
         node' = [n \in Node |-> t[n].node],
         \A f \in air' : f \in air \/ \E n \in Node : f \in Transmitted(t[n])
  PROVE  Stations'
<1>1. /\ Numbers \in Bounds
      /\ \A n \in Node : /\ Step(n).at = n /\ Step(n).node = node[n]
                         /\ t[n].at = n /\ Numbers[n] <= t[n].node.seqNo
                         /\ Good(t[n], Numbers) /\ t[n] \in Steps
  <2>1. node \in [Node -> NodeState]
    BY DEF Stations
  <2>2. ASSUME NEW n \in Node
        PROVE  /\ Step(n).at = n /\ Step(n).node = node[n] /\ Numbers \in Bounds
               /\ Numbers[n] = node[n].seqNo
    BY <2>1, SoundParts DEF Numbers
  <2>3. Numbers \in Bounds
    BY <2>1 DEF Numbers, Bounds, NodeState
  <2>4. ASSUME NEW n \in Node
        PROVE  /\ t[n].at = n /\ Numbers[n] <= t[n].node.seqNo
               /\ Good(t[n], Numbers) /\ t[n] \in Steps
    BY <2>2 DEF Leads, Good, GoodBut
  <2>5. QED
    BY <2>2, <2>3, <2>4
<1>2. node' \in [Node -> NodeState]
  BY <1>1 DEF Steps
<1>3. /\ Numbers' \in Bounds
      /\ \A n \in Node : Numbers'[n] = t[n].node.seqNo
  BY <1>1, <1>2 DEF Numbers, Bounds, NodeState
<1>4. \A n \in Node : Numbers[n] <= Numbers'[n]
  BY <1>1, <1>3
<1>5. PacketsUpTo(Numbers) \subseteq PacketsUpTo(Numbers')
  BY <1>1, <1>3, <1>4, HigherBounds
<1>6. ASSUME NEW n \in Node
      PROVE  /\ PacketsUpTo(Reached(t[n], Numbers)) \subseteq PacketsUpTo(Numbers')
             /\ TablesUpTo(Reached(t[n], Numbers)) \subseteq TablesUpTo(Numbers')
  <2> DEFINE B == Reached(t[n], Numbers)
  <2>1. B \in Bounds
    BY <1>1, ReachedIsBound
  <2>2. \A m \in Node : B[m] \in {Numbers[m], Numbers'[m]} /\ Numbers'[m] \in Nat
    BY <1>1, <1>3 DEF Reached, Bounds
  <2> HIDE DEF B
  <2>3. \A m \in Node : B[m] <= Numbers'[m]
    BY <1>4, <2>2
  <2>4. PacketsUpTo(B) \subseteq PacketsUpTo(Numbers') /\ TablesUpTo(B) \subseteq TablesUpTo(Numbers')
    BY <1>3, <2>1, <2>3, HigherBounds
  <2>5. QED
    BY <2>4 DEF B
<1>7. ASSUME NEW n \in Node PROVE Sound(n)'
  <2>1. node'[n] = t[n].node
    OBVIOUS
  <2>2. GoodBut(t[n], Numbers, {})
    BY <1>1 DEF Good
  <2>3. /\ IsFiniteSet(node'[n].queue) /\ Waits(node'[n], {})
        /\ node'[n].rt \in TablesUpTo(Numbers')
        /\ \A q \in node'[n].queue : q.packet \in PacketsUpTo(Numbers')
    BY <1>6, <2>1, <2>2 DEF GoodBut
  <2>4. Step(n)' \in Steps
    BY <1>2 DEF Step, Begin, Steps
  <2>5. Step(n)'.at = n /\ Step(n)'.node = node'[n] /\ Step(n)'.out = {}
    BY DEF Step, Begin
  <2>6. Reached(Step(n)', Numbers') = Numbers'
    BY <2>5 DEF Reached, Numbers
  <2>7. GoodBut(Step(n)', Numbers', {})
    BY <2>3, <2>4, <2>5, <2>6 DEF GoodBut
  <2>8. QED
    BY <2>7 DEF Sound, Good
<1>8. ASSUME NEW f \in air'
      PROVE  /\ f \in [from: Node, to: Node \cup {All}, packet: Packets]
             /\ f.packet \in PacketsUpTo(Numbers') /\ Routed(f)
  <2>1. CASE f \in air
    BY <1>5, <2>1 DEF Stations
  <2>2. CASE \E n \in Node : f \in Transmitted(t[n])
    <3>1. PICK n \in Node : f \in Transmitted(t[n])
      BY <2>2
    <3>2. PICK o \in t[n].out : f = [from |-> t[n].at, to |-> o.to, packet |-> o.packet]
      BY <3>1 DEF Transmitted
    <3>3. o \in [to: Node \cup {All}, packet: Packets]
      BY <1>1 DEF Steps
    <3>4. o.packet \in PacketsUpTo(Reached(t[n], Numbers)) /\ Routed(o)
      BY <1>1 DEF Good, GoodBut
    <3>5. Routed(f)
      BY <3>2, <3>4 DEF Routed
    <3>6. QED
      BY <1>1, <1>6, <3>2, <3>3, <3>4, <3>5
  <2>3. QED
    BY <2>1, <2>2
<1>9. QED
  BY <1>2, <1>7, <1>8 DEF Stations

\* One station has taken a step.
LEMMA OneTakes ==
  ASSUME Stations, NEW n \in Node, NEW u, Leads(Step(n), u, Numbers),
         NEW base, base \subseteq air,
         node' = [node EXCEPT ![n] = u.node], air' = base \cup Transmitted(u)
  PROVE  Stations'
<1> DEFINE t == [m \in Node |-> IF m = n THEN u ELSE Step(m)]
<1>1. \A m \in Node : /\ Leads(Step(m), Step(m), Numbers) /\ Step(m).node = node[m]
  BY SoundParts, LeadsBack DEF Stations, Sound
<1>2. \A m \in Node : Leads(Step(m), t[m], Numbers)
  BY <1>1
<1>3. t[n] = u /\ \A m \in Node : t[m].node = IF m = n THEN u.node ELSE node[m]
  BY <1>1
<1> HIDE DEF t
<1>4. node' = [m \in Node |-> t[m].node]
  BY <1>3 DEF Stations
<1>5. \A f \in air' : f \in air \/ \E m \in Node : f \in Transmitted(t[m])
  BY <1>3
<1>6. QED
  BY <1>2, <1>4, <1>5, Progress

\* One station has taken a step of the handlers.
LEMMA TakeKeeps ==
  ASSUME Stations, NEW n \in Node, NEW u, Leads(Step(n), u, Numbers),
         NEW base, base \subseteq air, Take(u, base)
  PROVE  Stations'
<1>1. u.at = n
  BY SoundParts DEF Leads, Stations
<1>2. QED
  BY <1>1, OneTakes DEF Take

\* The state of one station has changed, and nothing was sent.
LEMMA ChangeKeeps ==
  ASSUME Stations, NEW n \in Node, NEW state \in NodeState, state.seqNo = node[n].seqNo,
         IsFiniteSet(state.queue), Waits(state, {}), state.rt \in TablesUpTo(Numbers),
         \A q \in state.queue : q.packet \in PacketsUpTo(Numbers),
         node' = [node EXCEPT ![n] = state], air' = air
  PROVE  Stations'
<1> DEFINE u == [at |-> n, node |-> state, out |-> {}]
<1>1. u.at = n /\ u.node = state /\ u.out = {} /\ u \in Steps
  BY DEF Steps
<1> HIDE DEF u
<1>2. Step(n).at = n /\ Step(n).node = node[n]
  BY SoundParts DEF Stations
<1>3. Reached(u, Numbers) = Numbers
  BY <1>1 DEF Reached, Numbers
<1>4. Good(u, Numbers)
  BY <1>1, <1>3 DEF Good, GoodBut
<1>5. state.seqNo <= state.seqNo
  BY DEF NodeState
<1>6. Leads(Step(n), u, Numbers)
  BY <1>1, <1>2, <1>4, <1>5 DEF Leads
<1>7. air \cup Transmitted(u) = air
  BY <1>1 DEF Transmitted
<1>8. QED
  BY <1>1, <1>6, <1>7, OneTakes

-----------------------------------------------------------------------------
(* The invariant holds at first and every action keeps it.                 *)

LEMMA InitIInv == Init => IInv
<1> SUFFICES ASSUME Init PROVE IInv
  OBVIOUS
<1>1. /\ EmptyTable \in Table
      /\ \A d \in Node : EmptyTable[d].flag = "NONE" /\ ~EmptyTable[d].known
  BY DEF EmptyTable, Table, NoRoute
<1>2. NewNode \in NodeState
  BY <1>1 DEF NewNode, NodeState
<1>3. node \in [Node -> NodeState] /\ \A n \in Node : node[n] = NewNode
  BY <1>2 DEF Init
<1>4. TypeOK
  BY <1>3, NetworkAssumption DEF Init, TypeOK
<1>5. /\ IsFiniteSet(NewNode.queue) /\ NewNode.queue = {}
      /\ Waits(NewNode, {})
  BY <1>1, FS_EmptySet DEF NewNode, Waits, ToDestination
<1>6. NewNode.rt \in TablesUpTo(Numbers)
  BY <1>1 DEF NewNode, TablesUpTo
<1>7. \A n \in Node : Sound(n)
  BY <1>3, <1>5, <1>6, SoundParts
<1>8. QED
  BY <1>3, <1>4, <1>7 DEF IInv, Stations, Init

LEMMA SendDataKeeps ==
  ASSUME IInv, NEW m \in Message, SendData(m)
  PROVE  Stations'
<1> DEFINE n == source[m]
           p == Packet(n, target[m], DefaultTtl, Data(m))
           u == RouteOutput(Step(n), p)
<1>1. n \in Node /\ target[m] \in Node /\ DefaultTtl \in Nat
  BY NetworkAssumption, AodvAttributes
<1>2. Good(Step(n), Numbers) /\ Numbers \in Bounds /\ Stations
  BY <1>1, SoundParts DEF IInv, Stations, Sound
<1>3. Data(m) \in Bodies /\ TrueBody(Data(m), Reached(Step(n), Numbers))
  BY NoNumbers
<1>4. p \in PacketsUpTo(Reached(Step(n), Numbers)) /\ p.dst \in Node
  BY <1>1, <1>3 DEF Packet, PacketsUpTo, Packets
<1>5. Take(u, air)
  BY DEF SendData
<1> HIDE DEF p
<1>6. Leads(Step(n), u, Numbers)
  BY <1>2, <1>4, RouteOutputGood
<1> HIDE DEF n, u
<1>7. QED
  BY <1>1, <1>2, <1>5, <1>6, TakeKeeps

LEMMA SendHelloKeeps ==
  ASSUME IInv, NEW n \in Node, SendHello(n)
  PROVE  Stations'
<1> DEFINE b == Rrep(n, node[n].seqNo, n, 0, FALSE)
           u == Broadcast(Step(n), 1, b)
<1>1. /\ Good(Step(n), Numbers) /\ Numbers \in Bounds /\ Stations
      /\ Reached(Step(n), Numbers) = Numbers
  BY SoundParts DEF IInv, Stations, Sound
<1>2. b \in Rreps /\ b.dst = n /\ b.seqNo = node[n].seqNo
  BY DEF Rrep, Rreps, IInv, Stations, NodeState
<1>3. Numbers[n] = node[n].seqNo /\ Numbers[n] <= Numbers[n]
  BY <1>1 DEF Numbers, Bounds
<1>4. b \in Bodies /\ b \notin Datas /\ TrueBody(b, Reached(Step(n), Numbers))
  BY <1>1, <1>2, <1>3 DEF Bodies, Rreps, Rreqs, Datas, TrueBody
<1>5. Take(u, air)
  BY DEF SendHello
<1> HIDE DEF b
<1>6. Leads(Step(n), u, Numbers)
  BY <1>1, <1>4, BroadcastGood
<1> HIDE DEF u
<1>7. QED
  BY <1>1, <1>5, <1>6, TakeKeeps

LEMMA ReceiveKeeps ==
  ASSUME IInv, NEW f \in air, NEW lost, Receive(f, lost)
  PROVE  Stations'
<1> DEFINE hears == Receivers(f) \ lost
           Input(n) == RouteInput(Step(n), f.packet)
           t == [n \in Node |-> IF n \in hears THEN Input(n) ELSE Step(n)]
<1>1. Stations
  BY DEF IInv
<1>2. ASSUME NEW n \in Node PROVE Leads(Step(n), t[n], Numbers)
  <2>1. /\ Good(Step(n), Numbers) /\ Numbers \in Bounds
        /\ Reached(Step(n), Numbers) = Numbers
    BY <1>1, SoundParts DEF Stations, Sound
  <2>2. f.packet \in PacketsUpTo(Reached(Step(n), Numbers))
    BY <1>1, <2>1 DEF Stations
  <2>3. Leads(Step(n), Input(n), Numbers)
    BY <2>1, <2>2, RouteInputGood
  <2>4. Leads(Step(n), Step(n), Numbers)
    BY <2>1, LeadsBack
  <2>5. QED
    BY <2>3, <2>4
<1>3. node' = [n \in Node |-> IF n \in hears THEN Input(n).node ELSE node[n]]
  BY DEF Receive
<1>4. air' = (air \ {f}) \cup UNION {Transmitted(Input(n)) : n \in hears}
  BY DEF Receive
<1>5. hears \subseteq Node
  BY <1>1 DEF Receivers, Near, Stations
<1> HIDE DEF hears, Input
<1>6. \A n \in Node : /\ n \in hears => t[n] = Input(n)
                      /\ n \notin hears => t[n] = Step(n)
  OBVIOUS
<1> HIDE DEF t
<1>7. \A n \in Node : Step(n).node = node[n]
  BY <1>1, SoundParts DEF Stations
<1>8. node' = [n \in Node |-> t[n].node]
  BY <1>3, <1>6, <1>7
<1>9. \A g \in air' : g \in air \/ \E n \in Node : g \in Transmitted(t[n])
  BY <1>4, <1>5, <1>6
<1>10. QED
  BY <1>1, <1>2, <1>8, <1>9, Progress

LEMMA TxErrorKeeps ==
  ASSUME IInv, NEW f \in air, TxError(f)
  PROVE  Stations'
<1> DEFINE u == CloseNeighbor(Step(f.from), f.to)
<1>1. f.from \in Node
  BY DEF IInv, Stations
<1>2. Good(Step(f.from), Numbers) /\ Numbers \in Bounds /\ Stations
  BY <1>1, SoundParts DEF IInv, Stations, Sound
<1>3. f.to \in Node
  BY <1>1 DEF TxError, IInv, Stations, NodeState
<1>4. Leads(Step(f.from), u, Numbers)
  BY <1>2, <1>3, CloseNeighborGood
<1>5. Take(u, air \ {f})
  BY DEF TxError
<1> HIDE DEF u
<1>6. air \ {f} \subseteq air
  OBVIOUS
<1>7. QED
  BY <1>1, <1>2, <1>4, <1>5, <1>6, TakeKeeps

LEMMA NeighborTimeoutKeeps ==
  ASSUME IInv, NEW n \in Node, NEW m \in Node, NeighborTimeout(n, m)
  PROVE  Stations'
<1> DEFINE u == CloseNeighbor(Step(n), m)
<1>1. Good(Step(n), Numbers) /\ Numbers \in Bounds /\ Stations
  BY SoundParts DEF IInv, Stations, Sound
<1>2. Leads(Step(n), u, Numbers)
  BY <1>1, CloseNeighborGood
<1>3. Take(u, air)
  BY DEF NeighborTimeout
<1> HIDE DEF u
<1>4. QED
  BY <1>1, <1>2, <1>3, TakeKeeps

LEMMA RetryTimerKeeps ==
  ASSUME IInv, NEW n \in Node, NEW d \in Node, RetryTimer(n, d)
  PROVE  Stations'
<1> DEFINE u == RouteRequestTimerExpire(Step(n), d)
<1>1. Good(Step(n), Numbers) /\ Numbers \in Bounds /\ Stations
  BY SoundParts DEF IInv, Stations, Sound
<1>2. Leads(Step(n), u, Numbers)
  BY <1>1, RouteRequestTimerExpireGood
<1>3. Take(u, air)
  BY DEF RetryTimer
<1> HIDE DEF u
<1>4. QED
  BY <1>1, <1>2, <1>3, TakeKeeps

\* The postponed request that guarded d is taken away, and SendRequest guards it again.
LEMMA DelayedRequestKeeps ==
  ASSUME IInv, NEW n \in Node, NEW d \in Node, DelayedRequest(n, d)
  PROVE  Stations'
<1> DEFINE delayed == [node[n].delayed EXCEPT ![d] = @ - 1]
           s == Step(n)
           u == [s EXCEPT !.node.delayed[d] = @ - 1]
           v == SendRequest(u, d)
<1>1. /\ Good(s, Numbers) /\ Numbers \in Bounds /\ Stations
      /\ s.node = node[n] /\ s.at = n
  BY SoundParts DEF IInv, Stations, Sound
<1>2. s \in Steps /\ s.node.delayed \in [Node -> Nat]
  BY <1>1 DEF Good, GoodBut, Steps, NodeState
<1>3. Take(v, air) /\ node[n].delayed[d] > 0
  BY DEF DelayedRequest
<1>4. u = [s EXCEPT !.node.delayed = delayed]
  BY <1>1, <1>2 DEF Steps, NodeState
<1>5. delayed \in [Node -> Nat] /\ \A e \in Node \ {d} : delayed[e] = s.node.delayed[e]
  BY <1>1, <1>2, <1>3
<1> HIDE DEF delayed, u, v, s
<1>6. /\ u.at = s.at /\ u.out = s.out /\ u.node.rt = s.node.rt
      /\ u.node.seqNo = s.node.seqNo /\ u.node.queue = s.node.queue
      /\ u.node.timers = s.node.timers /\ u.node.delayed = delayed
  BY <1>2, <1>4 DEF Steps, NodeState
<1>7. u \in Steps
  BY <1>2, <1>4, <1>5 DEF Steps, NodeState
<1>8. GoodBut(u, Numbers, {d})
  BY <1>1, <1>5, <1>6, <1>7, UnguardedGood
<1>9. Leads(u, v, Numbers)
  BY <1>1, <1>8, SendRequestGood DEF v
<1>10. Leads(s, v, Numbers)
  BY <1>6, <1>9 DEF Leads
<1>11. QED
  BY <1>1, <1>3, <1>10, TakeKeeps DEF s

LEMMA RateLimitTimerKeeps ==
  ASSUME IInv, NEW n \in Node, RateLimitTimer(n)
  PROVE  Stations'
<1> DEFINE state == [node[n] EXCEPT !.rreqCount = 0]
<1>1. Stations /\ node \in [Node -> NodeState] /\ node[n] \in NodeState
  BY DEF IInv, Stations
<1>2. /\ state \in NodeState /\ state.seqNo = node[n].seqNo
      /\ state.queue = node[n].queue /\ state.rt = node[n].rt
      /\ state.timers = node[n].timers /\ state.delayed = node[n].delayed
  BY <1>1 DEF NodeState
<1>3. node' = [node EXCEPT ![n] = state] /\ air' = air
  BY DEF RateLimitTimer
<1> HIDE DEF state
<1>4. /\ IsFiniteSet(state.queue) /\ state.rt \in TablesUpTo(Numbers)
      /\ \A q \in state.queue : q.packet \in PacketsUpTo(Numbers)
      /\ Waits(node[n], {})
  BY <1>1, <1>2, SoundParts DEF Stations
<1>5. Waits(state, {})
  BY <1>2, <1>4 DEF Waits, Guarded
<1>6. QED
  BY <1>1, <1>2, <1>3, <1>4, <1>5, ChangeKeeps

LEMMA RouteExpiresKeeps ==
  ASSUME IInv, NEW n \in Node, NEW d \in Node, RouteExpires(n, d)
  PROVE  Stations'
<1> DEFINE rt == Expire(node[n].rt, d)
           state == [node[n] EXCEPT !.rt = rt]
<1>1. Stations /\ node \in [Node -> NodeState] /\ node[n] \in NodeState
  BY DEF IInv, Stations
<1>2. /\ IsFiniteSet(node[n].queue) /\ node[n].rt \in TablesUpTo(Numbers)
      /\ \A q \in node[n].queue : q.packet \in PacketsUpTo(Numbers)
      /\ Waits(node[n], {}) /\ Numbers \in Bounds
  BY <1>1, SoundParts DEF Stations
<1>3. rt \in TablesUpTo(Numbers) /\ Searching(rt) \subseteq Searching(node[n].rt)
  BY <1>2, ExpireFacts
<1>4. node' = [node EXCEPT ![n] = state] /\ air' = air
  BY DEF RouteExpires
<1> HIDE DEF rt
<1>5. rt \in Table
  BY <1>3 DEF TablesUpTo
<1>6. /\ state \in NodeState /\ state.seqNo = node[n].seqNo
      /\ state.queue = node[n].queue /\ state.rt = rt
      /\ state.timers = node[n].timers /\ state.delayed = node[n].delayed
  BY <1>1, <1>5 DEF NodeState
<1> HIDE DEF state
<1>7. \A e \in Node : rt[e].flag = "IN_SEARCH" => node[n].rt[e].flag = "IN_SEARCH"
  BY <1>3 DEF Searching
<1>8. Waits(state, {})
  BY <1>2, <1>6, <1>7 DEF Waits, Guarded
<1>9. QED
  BY <1>1, <1>2, <1>3, <1>4, <1>6, <1>8, ChangeKeeps

LEMMA QueueTimeoutKeeps ==
  ASSUME IInv, NEW n \in Node, QueueTimeout(n)
  PROVE  Stations'
<1> DEFINE queue == node[n].queue \ {Oldest(node[n].queue)}
           state == [node[n] EXCEPT !.queue = queue]
<1>1. Stations /\ node \in [Node -> NodeState] /\ node[n] \in NodeState
  BY DEF IInv, Stations
<1>2. /\ IsFiniteSet(node[n].queue) /\ node[n].rt \in TablesUpTo(Numbers)
      /\ \A q \in node[n].queue : q.packet \in PacketsUpTo(Numbers)
      /\ Waits(node[n], {}) /\ Numbers \in Bounds
  BY <1>1, SoundParts DEF Stations
<1>3. queue \subseteq node[n].queue
  OBVIOUS
<1>4. IsFiniteSet(queue) /\ queue \subseteq Queued
  BY <1>1, <1>2, <1>3, FS_Subset DEF NodeState
<1>5. node' = [node EXCEPT ![n] = state] /\ air' = air
  BY DEF QueueTimeout
<1> HIDE DEF queue
<1>6. /\ state \in NodeState /\ state.seqNo = node[n].seqNo
      /\ state.queue = queue /\ state.rt = node[n].rt
      /\ state.timers = node[n].timers /\ state.delayed = node[n].delayed
  BY <1>1, <1>4 DEF NodeState
<1> HIDE DEF state
<1>7. \A e : ToDestination(queue, e) \subseteq ToDestination(node[n].queue, e)
  BY <1>3 DEF ToDestination
<1>8. Waits(state, {})
  BY <1>2, <1>6, <1>7 DEF Waits, Guarded
<1>9. QED
  BY <1>1, <1>2, <1>3, <1>4, <1>5, <1>6, <1>8, ChangeKeeps

\* Nothing changes about the stations and the frames.
LEMMA UnchangedKeeps ==
  ASSUME Stations, node' = node, air' = air
  PROVE  Stations'
BY DEF Stations, Sound, Step, Numbers

LEMMA LossesAreCounted ==
  ASSUME TypeOK, NEW f \in air, NEW lost, Receive(f, lost)
  PROVE  faults' \in Nat
<1>1. lost \subseteq Node /\ IsFiniteSet(Node)
  BY NetworkAssumption DEF Receive, Receivers, Near, TypeOK
<1>2. Cardinality(lost) \in Nat
  BY <1>1, FS_Subset, FS_CardinalityType
<1>3. QED
  BY <1>2 DEF Receive, TypeOK

LEMMA NextIInv == IInv /\ [Next]_vars => IInv'
<1> SUFFICES ASSUME IInv, [Next]_vars PROVE IInv'
  OBVIOUS
<1>1. TypeOK /\ Stations /\ faults \in Nat
  BY DEF IInv, TypeOK
<1>2. Stations' /\ Rest => IInv'
  BY DEF IInv, TypeOK, Stations, Rest
<1>3. ASSUME NEW m \in Message, SendData(m) PROVE IInv'
  <2>1. Rest
    BY <1>1, <1>3 DEF SendData, TypeOK, Rest
  <2>2. QED
    BY <1>2, <1>3, <2>1, SendDataKeeps
<1>4. ASSUME NEW f \in air, TxError(f) PROVE IInv'
  <2>1. Rest
    BY <1>1, <1>4 DEF TxError, Fault, TypeOK, Rest
  <2>2. QED
    BY <1>2, <1>4, <2>1, TxErrorKeeps
<1>5. ASSUME NEW f \in air, NEW lost \in SUBSET Node, Receive(f, lost) PROVE IInv'
  <2>1. faults' \in Nat
    BY <1>1, <1>5, LossesAreCounted
  <2>2. Rest
    BY <1>1, <1>5, <2>1 DEF Receive, TypeOK, Rest
  <2>3. QED
    BY <1>2, <1>5, <2>2, ReceiveKeeps
<1>6. ASSUME NEW n \in Node, SendHello(n) PROVE IInv'
  <2>1. Rest
    BY <1>1, <1>6 DEF SendHello, TypeOK, Rest
  <2>2. QED
    BY <1>2, <1>6, <2>1, SendHelloKeeps
<1>7. ASSUME NEW n \in Node, RateLimitTimer(n) PROVE IInv'
  <2>1. Rest
    BY <1>1, <1>7 DEF RateLimitTimer, TypeOK, Rest, Fault
  <2>2. QED
    BY <1>2, <1>7, <2>1, RateLimitTimerKeeps
<1>8. ASSUME NEW n \in Node, QueueTimeout(n) PROVE IInv'
  <2>1. Rest
    BY <1>1, <1>8 DEF QueueTimeout, Fault, TypeOK, Rest
  <2>2. QED
    BY <1>2, <1>8, <2>1, QueueTimeoutKeeps
<1>9. ASSUME NEW n \in Node, NEW d \in Node, RetryTimer(n, d) PROVE IInv'
  <2>1. Rest
    BY <1>1, <1>9 DEF RetryTimer, Fault, TypeOK, Rest
  <2>2. QED
    BY <1>2, <1>9, <2>1, RetryTimerKeeps
<1>10. ASSUME NEW n \in Node, NEW d \in Node, DelayedRequest(n, d) PROVE IInv'
  <2>1. Rest
    BY <1>1, <1>10 DEF DelayedRequest, TypeOK, Rest
  <2>2. QED
    BY <1>2, <1>10, <2>1, DelayedRequestKeeps
<1>11. ASSUME NEW n \in Node, NEW d \in Node, RouteExpires(n, d) PROVE IInv'
  <2>1. Rest
    BY <1>1, <1>11 DEF RouteExpires, Fault, TypeOK, Rest
  <2>2. QED
    BY <1>2, <1>11, <2>1, RouteExpiresKeeps
<1>12. ASSUME NEW n \in Node, NEW m \in Node, LinkBreaks(n, m) PROVE IInv'
  <2>1. Rest
    BY <1>1, <1>12 DEF LinkBreaks, Fault, TypeOK, Rest
  <2>2. Stations'
    BY <1>1, <1>12, UnchangedKeeps DEF LinkBreaks
  <2>3. QED
    BY <1>2, <2>1, <2>2
<1>13. ASSUME NEW n \in Node, NEW m \in Node, NeighborTimeout(n, m) PROVE IInv'
  <2>1. Rest
    BY <1>1, <1>13 DEF NeighborTimeout, Fault, TypeOK, Rest
  <2>2. QED
    BY <1>2, <1>13, <2>1, NeighborTimeoutKeeps
<1>14. CASE UNCHANGED vars
  <2>1. Rest
    BY <1>1, <1>14 DEF vars, TypeOK, Rest
  <2>2. Stations'
    BY <1>1, <1>14, UnchangedKeeps DEF vars
  <2>3. QED
    BY <1>2, <2>1, <2>2
<1>15. QED
  BY <1>3, <1>4, <1>5, <1>6, <1>7, <1>8, <1>9, <1>10, <1>11, <1>12, <1>13, <1>14 DEF Next

LEMMA Inductive == Spec => []IInv
BY InitIInv, NextIInv, PTL DEF Spec

-----------------------------------------------------------------------------
(* What holds of every network.                                            *)

\* The state keeps its types; in particular every route that can be used has a next hop
\* when SendPacketFromQueue follows it.
THEOREM TypeCorrect == Spec => []TypeOK
<1>1. IInv => TypeOK
  BY DEF IInv
<1>2. QED
  BY <1>1, Inductive, PTL

\* Whatever frames are lost, repeated by retries or overtaken, and whatever routes expire,
\* no station believes a sequence number of another one that this one has not reached.
THEOREM NumbersOwned == Spec => []SeqNoOwned
<1>1. IInv => SeqNoOwned
  <2> SUFFICES ASSUME IInv, NEW n \in Node, NEW d \in Node, node[n].rt[d].known
               PROVE  node[n].rt[d].seqNo <= node[d].seqNo
    BY DEF SeqNoOwned
  <2>1. node[n].rt \in TablesUpTo(Numbers)
    BY SoundParts DEF IInv, Stations
  <2>2. QED
    BY <2>1 DEF TablesUpTo, Numbers
<1>2. QED
  BY <1>1, Inductive, PTL

\* A packet in the queue is never forgotten: a retry timer runs or a postponed request
\* stands for its destination, until one of them has sent or dropped it.
THEOREM NoPacketForgotten == Spec => []PacketsWait
<1>1. IInv => PacketsWait
  <2> SUFFICES ASSUME IInv, NEW n \in Node, NEW q \in node[n].queue
               PROVE  Guarded(node[n], q.packet.dst)
    BY DEF PacketsWait
  <2>1. Waits(node[n], {})
    BY SoundParts DEF IInv, Stations
  <2>2. q.packet.dst \in Node /\ q \in ToDestination(node[n].queue, q.packet.dst)
    BY DEF IInv, Stations, NodeState, Queued, ToDestination
  <2>3. QED
    BY <2>1, <2>2 DEF Waits
<1>2. QED
  BY <1>1, Inductive, PTL

\* A search is never forgotten: no entry stays in search with nothing that will send the
\* next request or give it up, which would block the destination for good.
THEOREM NoSearchForgotten == Spec => []SearchesWait
<1>1. IInv => SearchesWait
  <2>1. IInv => \A n \in Node : Waits(node[n], {})
    BY SoundParts DEF IInv, Stations
  <2>2. QED
    BY <2>1 DEF SearchesWait, Waits
<1>2. QED
  BY <1>1, Inductive, PTL

-----------------------------------------------------------------------------
(* What the handlers do to the packets of a message.                       *)

\* A step has the fields of a step; of what types they are does not matter here.
IsStep(s) ==
  s \in [at: {s.at}, out: {s.out},
         node: [rt: {s.node.rt}, seqNo: {s.node.seqNo}, requestId: {s.node.requestId},
                seen: {s.node.seen}, queue: {s.node.queue}, timers: {s.node.timers},
                delayed: {s.node.delayed}, rreqCount: {s.node.rreqCount}, nb: {s.node.nb}]]

\* The copies of message m in a set of queued packets or of frames.
Of(S, m) == {x \in S : x.packet.body = Data(m)}

\* One copy at most, in the queue or in a frame.
Alone(s, m) ==
  /\ AtMostOne(Of(s.node.queue, m)) /\ AtMostOne(Of(s.out, m))
  /\ Of(s.node.queue, m) = {} \/ Of(s.out, m) = {}

\* The handler that took s to t has at most passed on or dropped what waited of message m,
\* as it was.
Kept(s, t, m) ==
  /\ IsStep(t) /\ t.at = s.at
  /\ Of(t.node.queue, m) \subseteq Of(s.node.queue, m)
  /\ \A o \in Of(t.out, m) :
       o \in Of(s.out, m) \/ \E q \in Of(s.node.queue, m) : o.packet = q.packet
  /\ Alone(s, m) => Alone(t, m)

LEMMA KeptBack ==
  ASSUME NEW s, NEW m, IsStep(s)
  PROVE  Kept(s, s, m)
BY DEF Kept

LEMMA KeptOn ==
  ASSUME NEW s, NEW t, NEW u, NEW m, Kept(s, t, m), Kept(t, u, m)
  PROVE  Kept(s, u, m)
BY DEF Kept

\* Nothing new waits and nothing was sent.
LEMMA SideKept ==
  ASSUME NEW s, NEW t, NEW m, IsStep(t), t.at = s.at, t.out = s.out,
         t.node.queue \subseteq s.node.queue
  PROVE  Kept(s, t, m)
BY DEF Kept, Alone, Of, AtMostOne

LEMMA EmitKept ==
  ASSUME NEW s, NEW to, NEW p, NEW m, IsStep(s), p.body # Data(m)
  PROVE  Kept(s, Emit(s, to, p), m)
<1> DEFINE t == Emit(s, to, p)
<1>1. t.at = s.at /\ t.node = s.node /\ t.out = s.out \cup {[to |-> to, packet |-> p]}
  BY DEF Emit, IsStep
<1>2. IsStep(t)
  BY <1>1 DEF Emit, IsStep
<1> HIDE DEF t
<1>3. Of(t.out, m) = Of(s.out, m)
  BY <1>1 DEF Of
<1>4. Kept(s, t, m)
  BY <1>1, <1>2, <1>3 DEF Kept, Alone
<1>5. QED
  BY <1>4 DEF t

LEMMA TableKept ==
  ASSUME NEW s, NEW t, NEW m, IsStep(s)
  PROVE  Kept(s, WithTable(s, t), m) /\ WithTable(s, t).node.rt = t
<1> DEFINE u == WithTable(s, t)
<1>1. /\ u.at = s.at /\ u.out = s.out /\ u.node.queue = s.node.queue
      /\ IsStep(u) /\ u.node.rt = t
  BY DEF WithTable, IsStep
<1> HIDE DEF u
<1>2. Kept(s, u, m)
  BY <1>1, SideKept
<1>3. QED
  BY <1>1, <1>2 DEF u

LEMMA RefreshKept ==
  ASSUME NEW s, NEW k, NEW m, IsStep(s)
  PROVE  Kept(s, Refresh(s, k), m)
<1> DEFINE u == Refresh(s, k)
<1>1. u = [s EXCEPT !.node = [@ EXCEPT !.nb = s.node.nb \cup ({k} \ {None})]]
  BY DEF Refresh
<1>2. u.at = s.at /\ u.out = s.out /\ u.node = [s.node EXCEPT !.nb = s.node.nb \cup ({k} \ {None})]
  BY <1>1 DEF IsStep
<1>3. u.node.queue = s.node.queue /\ IsStep(u)
  BY <1>1, <1>2 DEF IsStep
<1> HIDE DEF u
<1>4. Kept(s, u, m)
  BY <1>2, <1>3, SideKept
<1>5. QED
  BY <1>4 DEF u

LEMMA SendRequestKept ==
  ASSUME NEW s, NEW d, NEW m, IsStep(s)
  PROVE  Kept(s, SendRequest(s, d), m)
<1> DEFINE old == s.node.rt[d]
           ttl == RingTtl(old)
           id == s.node.requestId + 1
           rreq == [type |-> "RREQ", origin |-> s.at, id |-> id,
                    originSeqNo |-> s.node.seqNo + 1, dst |-> d,
                    known |-> old.known, dstSeqNo |-> IF old.known THEN old.seqNo ELSE 0,
                    hop |-> 0]
           u == [s EXCEPT !.node.rreqCount = @ + 1, !.node.rt[d] = Searched(old, ttl),
                          !.node.seqNo = @ + 1, !.node.requestId = id,
                          !.node.seen = @ \cup {<<s.at, id>>},
                          !.node.timers = @ \cup {d}]
<1>1. CASE s.node.rreqCount = RreqRateLimit
  <2> DEFINE w == Postpone(s, d)
  <2> DEFINE delayed == [s.node.delayed EXCEPT ![d] = @ + 1]
  <2>1. w = [s EXCEPT !.node.delayed = delayed]
    BY DEF Postpone
  <2> HIDE DEF delayed
  <2>2. w.at = s.at /\ w.out = s.out /\ w.node.queue = s.node.queue /\ IsStep(w)
    BY <2>1 DEF IsStep
  <2>3. SendRequest(s, d) = w
    BY <1>1 DEF SendRequest
  <2> HIDE DEF w
  <2>4. QED
    BY <2>2, <2>3, SideKept
<1>2. CASE s.node.rreqCount # RreqRateLimit
  <2> DEFINE rt == [s.node.rt EXCEPT ![d] = Searched(old, ttl)]
  <2>1. u.at = s.at /\ u.out = s.out /\ u.node.queue = s.node.queue /\ IsStep(u)
    <3> DEFINE A == {s.at}   O == {s.out}   T == {s.node.rt}   Q == {s.node.seqNo}
               I == {s.node.requestId}   S == {s.node.seen}   P == {s.node.queue}
               M == {s.node.timers}   D == {s.node.delayed}   C == {s.node.rreqCount}
               B == {s.node.nb}
               new == [s.node EXCEPT !.rreqCount = s.node.rreqCount + 1, !.rt = rt,
                                     !.seqNo = s.node.seqNo + 1, !.requestId = id,
                                     !.seen = s.node.seen \cup {<<s.at, id>>},
                                     !.timers = s.node.timers \cup {d}]
    <3>1. s \in [at: A, out: O,
                 node: [rt: T, seqNo: Q, requestId: I, seen: S, queue: P, timers: M,
                        delayed: D, rreqCount: C, nb: B]]
      BY DEF IsStep
    <3> HIDE DEF old, ttl, id, A, O, T, Q, I, S, P, M, D, C, B
    <3>2. rt = [s.node.rt EXCEPT ![d] = Searched(old, ttl)]
      OBVIOUS
    <3> HIDE DEF rt
    <3>3. u.at = s.at /\ u.out = s.out /\ u.node = new
      BY <3>1, <3>2
    <3>4. u \in [at: {u.at}, node: {u.node}, out: {u.out}]
      <4> DEFINE node1 == [s.node EXCEPT !.rreqCount = @ + 1, !.rt[d] = Searched(old, ttl),
                                         !.seqNo = @ + 1, !.requestId = id,
                                         !.seen = @ \cup {<<s.at, id>>},
                                         !.timers = @ \cup {d}]
      <4>1. u = [s EXCEPT !.node = node1]
        BY <3>1, <3>2
      <4> HIDE DEF node1, u
      <4>2. QED
        BY <3>1, <4>1
    <3> HIDE DEF u
    <3>5. /\ new.queue = s.node.queue
          /\ new \in [rt: {new.rt}, seqNo: {new.seqNo}, requestId: {new.requestId},
                      seen: {new.seen}, queue: {new.queue}, timers: {new.timers},
                      delayed: {new.delayed}, rreqCount: {new.rreqCount}, nb: {new.nb}]
      BY <3>1
    <3> HIDE DEF new
    <3>6. QED
      BY <3>3, <3>4, <3>5 DEF IsStep
  <2> HIDE DEF ttl, old, id
  <2>2. SendRequest(s, d) = Broadcast(u, ttl, rreq)
    BY <1>2 DEF SendRequest, ttl, old, id
  <2>3. rreq # Data(m)
    BY DEF Data
  <2> HIDE DEF u, rreq
  <2>4. Kept(s, u, m)
    BY <2>1, SideKept
  <2>5. Kept(u, Emit(u, All, Packet(u.at, All, ttl, rreq)), m)
    <3>1. Packet(u.at, All, ttl, rreq).body # Data(m)
      BY <2>3 DEF Packet
    <3>2. QED
      BY <2>1, <3>1, EmitKept
  <2>6. QED
    BY <2>2, <2>4, <2>5, KeptOn DEF Broadcast
<1>3. QED
  BY <1>1, <1>2

\* A packet of another message may wait or leave.
LEMMA RouteOutputKept ==
  ASSUME NEW s, NEW p, NEW m, IsStep(s), p.body # Data(m)
  PROVE  Kept(s, RouteOutput(s, p), m)
<1> DEFINE u == [s EXCEPT !.node.queue = Enqueue(@, p)]
<1>1. Kept(s, u, m) /\ IsStep(u)
  <2> DEFINE queue == Enqueue(s.node.queue, p)
  <2>1. Of(queue, m) \subseteq Of(s.node.queue, m)
    BY DEF Of, Enqueue
  <2> HIDE DEF queue
  <2>2. u = [s EXCEPT !.node.queue = queue]
    BY DEF queue
  <2>3. u.at = s.at /\ u.out = s.out /\ u.node.queue = queue /\ IsStep(u)
    BY <2>2 DEF IsStep
  <2> HIDE DEF u
  <2>4. QED
    BY <2>1, <2>3 DEF Kept, Alone, AtMostOne
<1>2. CASE LookupValidRoute(s.node.rt, p.dst)
  BY <1>2, EmitKept DEF RouteOutput
<1>3. CASE ~LookupValidRoute(s.node.rt, p.dst)
  <2>1. RouteOutput(s, p) \in {u, SendRequest(u, p.dst)}
    BY <1>3 DEF RouteOutput, DeferredRouteOutput
  <2> HIDE DEF u
  <2>2. Kept(u, SendRequest(u, p.dst), m)
    BY <1>1, SendRequestKept
  <2>3. QED
    BY <1>1, <2>1, <2>2, KeptOn
<1>4. QED
  BY <1>2, <1>3

LEMMA SendToKept ==
  ASSUME NEW s, NEW k, NEW ttl, NEW body, NEW m, IsStep(s), body # Data(m)
  PROVE  Kept(s, SendTo(s, k, ttl, body), m)
<1>1. Packet(s.at, k, ttl, body).body # Data(m)
  BY DEF Packet
<1>2. QED
  BY <1>1, RouteOutputKept DEF SendTo

LEMMA BroadcastKept ==
  ASSUME NEW s, NEW ttl, NEW body, NEW m, IsStep(s), body # Data(m)
  PROVE  Kept(s, Broadcast(s, ttl, body), m)
<1>1. Packet(s.at, All, ttl, body).body # Data(m)
  BY DEF Packet
<1>2. QED
  BY <1>1, EmitKept DEF Broadcast

\* What waits for a destination leaves, once; what waits for others stays.
LEMMA SendPacketFromQueueKept ==
  ASSUME NEW s, NEW d, NEW m, IsStep(s)
  PROVE  Kept(s, SendPacketFromQueue(s, d), m)
<1> DEFINE t == SendPacketFromQueue(s, d)
           queue == DropPacketWithDst(s.node.queue, d)
           to == s.node.rt[d].nextHop
           frames == {[to |-> to, packet |-> q.packet] : q \in ToDestination(s.node.queue, d)}
<1>1. t = [s EXCEPT !.node.queue = queue, !.out = s.out \cup frames]
  BY DEF SendPacketFromQueue
<1> HIDE DEF t, queue, frames
<1>2. t.at = s.at /\ t.node.queue = queue /\ t.out = s.out \cup frames /\ IsStep(t)
  BY <1>1 DEF IsStep
<1>3. Of(queue, m) = {q \in Of(s.node.queue, m) : q.packet.dst # d}
  BY DEF Of, queue, DropPacketWithDst
<1>4. \A o : o \in Of(frames, m) <=>
               \E q \in Of(s.node.queue, m) :
                 q.packet.dst = d /\ o = [to |-> to, packet |-> q.packet]
  BY DEF Of, frames, ToDestination
<1>5. \A o \in Of(frames, m) :
        \E q \in Of(s.node.queue, m) : q.packet.dst = d /\ o.packet = q.packet
  BY <1>4
<1>6. Of(t.out, m) = Of(s.out, m) \cup Of(frames, m)
  BY <1>2 DEF Of
<1>7. Alone(s, m) => Alone(t, m)
  <2> SUFFICES ASSUME Alone(s, m) PROVE Alone(t, m)
    OBVIOUS
  <2>1. CASE Of(s.node.queue, m) = {}
    BY <1>2, <1>3, <1>5, <1>6, <2>1 DEF Alone, AtMostOne
  <2>2. CASE Of(s.node.queue, m) # {}
    <3>1. PICK q \in Of(s.node.queue, m) : \A r \in Of(s.node.queue, m) : r = q
      BY <2>2 DEF Alone, AtMostOne
    <3>2. Of(s.out, m) = {}
      BY <2>2 DEF Alone
    <3>3. AtMostOne(Of(frames, m))
      BY <1>4, <3>1 DEF AtMostOne
    <3>4. AtMostOne(Of(queue, m))
      BY <1>3, <3>1 DEF AtMostOne
    <3>5. Of(queue, m) = {} \/ Of(frames, m) = {}
      BY <1>3, <1>5, <3>1
    <3>6. QED
      BY <1>2, <1>6, <3>2, <3>3, <3>4, <3>5 DEF Alone
  <2>3. QED
    BY <2>1, <2>2
<1>8. Kept(s, t, m)
  BY <1>2, <1>3, <1>5, <1>6, <1>7 DEF Kept
<1>9. QED
  BY <1>8 DEF t

LEMMA GiveUpKept ==
  ASSUME NEW s, NEW d, NEW m, IsStep(s)
  PROVE  Kept(s, GiveUp(s, d), m)
<1> DEFINE t == GiveUp(s, d)
           queue == DropPacketWithDst(s.node.queue, d)
           timers == s.node.timers \ {d}
           rt == DeleteRoute(s.node.rt, d)
<1>1. t = [s EXCEPT !.node.timers = timers, !.node.rt = rt, !.node.queue = queue]
  BY DEF GiveUp
<1>2. queue \subseteq s.node.queue
  BY DEF DropPacketWithDst
<1> HIDE DEF t, queue, timers, rt
<1>3. t.at = s.at /\ t.node.queue = queue /\ t.out = s.out /\ IsStep(t)
  BY <1>1 DEF IsStep
<1>4. Kept(s, t, m)
  BY <1>2, <1>3, SideKept
<1>5. QED
  BY <1>4 DEF t

LEMMA RouteRequestTimerExpireKept ==
  ASSUME NEW s, NEW d, NEW m, IsStep(s)
  PROVE  Kept(s, RouteRequestTimerExpire(s, d), m)
<1> DEFINE u == [s EXCEPT !.node.timers = @ \ {d}]
           timers == s.node.timers \ {d}
<1>1. u = [s EXCEPT !.node.timers = timers]
  OBVIOUS
<1>2. RouteRequestTimerExpire(s, d) \in
        {SendPacketFromQueue(u, d), SendRequest(u, d), GiveUp(u, d)}
  BY DEF RouteRequestTimerExpire
<1> HIDE DEF u, timers
<1>3. u.at = s.at /\ u.out = s.out /\ u.node.queue = s.node.queue /\ IsStep(u)
  BY <1>1 DEF IsStep
<1>4. Kept(s, u, m)
  BY <1>3, SideKept
<1>5. /\ Kept(u, SendPacketFromQueue(u, d), m)
      /\ Kept(u, SendRequest(u, d), m) /\ Kept(u, GiveUp(u, d), m)
  BY <1>3, SendPacketFromQueueKept, SendRequestKept, GiveUpKept
<1>6. QED
  BY <1>2, <1>4, <1>5, KeptOn

LEMMA KeptStep ==
  ASSUME NEW s, NEW t, NEW m, Kept(s, t, m)
  PROVE  IsStep(t)
BY DEF Kept

LEMMA ReportLostKept ==
  ASSUME NEW s, NEW lost, NEW m, IsStep(s)
  PROVE  Kept(s, ReportLost(s, lost), m)
<1> DEFINE u == WithTable(s, InvalidateRoutesWithDst(s.node.rt, lost))
           t == s.node.rt
           ps == Precursors(t, lost)
           p == CHOOSE k \in ps : TRUE
<1>1. Kept(s, u, m) /\ IsStep(u)
  BY TableKept, KeptStep
<1>2. Rerr(lost) # Data(m)
  BY DEF Rerr, Data
<1> HIDE DEF u
<1>3. SendRerrMessage(u, t, lost, ps) \in
        {u, SendTo(u, p, 1, Rerr(lost)), Broadcast(u, 1, Rerr(lost))}
  BY DEF SendRerrMessage
<1>4. Kept(u, u, m) /\ Kept(u, SendTo(u, p, 1, Rerr(lost)), m)
        /\ Kept(u, Broadcast(u, 1, Rerr(lost)), m)
  BY <1>1, <1>2, SendToKept, BroadcastKept, KeptBack
<1>5. ReportLost(s, lost) = SendRerrMessage(u, t, lost, ps)
  BY DEF ReportLost, u
<1> HIDE DEF t, ps, p
<1>6. QED
  BY <1>1, <1>3, <1>4, <1>5, KeptOn

LEMMA CloseNeighborKept ==
  ASSUME NEW s, NEW k, NEW m, IsStep(s)
  PROVE  Kept(s, CloseNeighbor(s, k), m)
<1> DEFINE u == SendRerrWhenBreaksLinkToNextHop(s, k)
           nb == u.node.nb \ {k}
           t == CloseNeighbor(s, k)
<1>1. Kept(s, u, m) /\ IsStep(u)
  BY ReportLostKept, KeptBack, KeptStep DEF SendRerrWhenBreaksLinkToNextHop
<1>2. t = [u EXCEPT !.node.nb = nb]
  BY DEF CloseNeighbor
<1> HIDE DEF u, nb, t
<1>3. t.at = u.at /\ t.out = u.out /\ t.node.queue = u.node.queue /\ IsStep(t)
  BY <1>1, <1>2 DEF IsStep
<1>4. Kept(u, t, m)
  BY <1>3, SideKept
<1>5. Kept(s, t, m)
  BY <1>1, <1>4, KeptOn
<1>6. QED
  BY <1>5 DEF t

LEMMA SendRerrWhenNoRouteToForwardKept ==
  ASSUME NEW s, NEW d, NEW origin, NEW m, IsStep(s)
  PROVE  Kept(s, SendRerrWhenNoRouteToForward(s, d, origin), m)
<1>1. Rerr({d}) # Data(m)
  BY DEF Rerr, Data
<1>2. QED
  BY <1>1, SendToKept, BroadcastKept DEF SendRerrWhenNoRouteToForward

-----------------------------------------------------------------------------
(* The messages of AODV, with their handlers.                              *)

LEMMA ForwardRequestKept ==
  ASSUME NEW s, NEW ttl, NEW rreq, NEW m, IsStep(s), rreq # Data(m)
  PROVE  Kept(s, ForwardRequest(s, ttl, rreq), m)
BY BroadcastKept, KeptBack DEF ForwardRequest



LEMMA SendReplyKept ==
  ASSUME NEW s, NEW rreq, NEW m, IsStep(s)
  PROVE  Kept(s, SendReply(s, rreq), m)
<1> DEFINE toOrigin == s.node.rt[rreq.origin]
           seqNo == IF rreq.known /\ rreq.dstSeqNo = s.node.seqNo + 1
                    THEN s.node.seqNo + 1 ELSE s.node.seqNo
           u == [s EXCEPT !.node.seqNo = seqNo]
           b == Rrep(s.at, seqNo, rreq.origin, 0, FALSE)
<1>1. SendReply(s, rreq) = SendTo(u, toOrigin.nextHop, toOrigin.hop, b)
  BY DEF SendReply
<1> HIDE DEF seqNo
<1>2. b # Data(m)
  BY DEF Rrep, Data
<1> HIDE DEF b
<1>3. u.at = s.at /\ u.out = s.out /\ u.node.queue = s.node.queue /\ IsStep(u)
  BY DEF IsStep
<1> HIDE DEF u, toOrigin
<1>4. Kept(s, u, m)
  BY <1>3, SideKept
<1>5. Kept(u, SendTo(u, toOrigin.nextHop, toOrigin.hop, b), m)
  BY <1>2, <1>3, SendToKept
<1>6. QED
  BY <1>1, <1>4, <1>5, KeptOn

LEMMA SendReplyByIntermediateNodeKept ==
  ASSUME NEW s, NEW d, NEW origin, NEW m, IsStep(s)
  PROVE  Kept(s, SendReplyByIntermediateNode(s, d, origin), m)
<1> DEFINE toDst == s.node.rt[d]
           toOrigin == s.node.rt[origin]
           linked == InsertPrecursor(InsertPrecursor(s.node.rt, d, toOrigin.nextHop),
                                     origin, toDst.nextHop)
           u == WithTable(s, linked)
           b == Rrep(d, toDst.seqNo, origin, toDst.hop, toDst.hop = 1)
           c == Rrep(origin, toOrigin.seqNo, d, toOrigin.hop, FALSE)
           v == SendTo(u, toOrigin.nextHop, toOrigin.hop, b)
           w == SendTo(v, toDst.nextHop, toDst.hop, c)
<1>1. b # Data(m) /\ c # Data(m)
  <2> HIDE DEF toDst, toOrigin
  <2>1. QED
    BY DEF Rrep, Data
<1>2. SendReplyByIntermediateNode(s, d, origin) \in {v, w}
  BY DEF SendReplyByIntermediateNode
<1> HIDE DEF linked, b, c, toDst, toOrigin
<1>3. Kept(s, u, m) /\ IsStep(u)
  BY TableKept, KeptStep
<1> HIDE DEF u
<1>4. Kept(u, v, m) /\ IsStep(v)
  BY <1>1, <1>3, SendToKept, KeptStep
<1> HIDE DEF v
<1>5. Kept(v, w, m)
  BY <1>1, <1>4, SendToKept
<1> HIDE DEF w
<1>6. Kept(s, v, m) /\ Kept(s, w, m)
  BY <1>3, <1>4, <1>5, KeptOn
<1>7. QED
  BY <1>2, <1>6

LEMMA RecvRequestKept ==
  ASSUME NEW s, NEW p, NEW m, IsStep(s), p.body \in Rreqs
  PROVE  Kept(s, RecvRequest(s, p), m)
<1> DEFINE id == <<p.body.origin, p.body.id>>
           t == PreviousHop(ReverseRoute(s.node.rt, p.body, p.src), p.body, p.src)
           seen == s.node.seen \cup {id}
           noted == [s EXCEPT !.node.seen = seen]
           u == WithTable(noted, t)
           v == Refresh(u, p.src)
           rreq == [p.body EXCEPT !.hop = @ + 1]
           toDst == v.node.rt[rreq.dst]
           more == [rreq EXCEPT !.known = TRUE, !.dstSeqNo = toDst.seqNo]
           w == AnswerRequest(v, p)
<1>1. RecvRequest(s, p) \in {s, w}
  BY DEF RecvRequest
<1>2. rreq # Data(m) /\ more # Data(m)
  BY DEF Rreqs, Data
<1>3. w \in {v, SendReply(v, rreq), ForwardRequest(v, p.ttl, rreq),
             SendReplyByIntermediateNode(v, rreq.dst, rreq.origin),
             ForwardRequest(v, p.ttl, more)}
  <2> HIDE DEF v
  <2>1. QED
    BY DEF AnswerRequest
<1> HIDE DEF id, t, seen, rreq, more, w
<1>4. Kept(s, noted, m) /\ IsStep(noted)
  <2>1. noted.at = s.at /\ noted.out = s.out /\ noted.node.queue = s.node.queue
          /\ IsStep(noted)
    BY DEF IsStep
  <2> HIDE DEF noted
  <2>2. QED
    BY <2>1, SideKept
<1> HIDE DEF noted
<1>5. Kept(noted, u, m) /\ IsStep(u)
  BY <1>4, TableKept, KeptStep
<1> HIDE DEF u
<1>6. Kept(u, v, m) /\ IsStep(v)
  BY <1>5, RefreshKept, KeptStep
<1> HIDE DEF v
<1>7. Kept(v, w, m)
  BY <1>2, <1>3, <1>6, KeptBack, SendReplyKept, ForwardRequestKept,
     SendReplyByIntermediateNodeKept
<1>8. Kept(s, w, m)
  BY <1>4, <1>5, <1>6, <1>7, KeptOn
<1>9. QED
  BY <1>1, <1>8, KeptBack

LEMMA ForwardReplyKept ==
  ASSUME NEW s, NEW p, NEW rrep, NEW m, IsStep(s), rrep # Data(m)
  PROVE  Kept(s, ForwardReply(s, p, rrep), m)
<1> DEFINE t == s.node.rt
           toDst == t[rrep.dst]
           toOrigin == t[rrep.origin]
           t1 == InsertPrecursor(t, rrep.dst, toOrigin.nextHop)
           t2 == InsertPrecursor(t1, toDst.nextHop, toOrigin.nextHop)
           t3 == Update(t2, rrep.origin,
                        [toOrigin EXCEPT !.precursors = @ \cup {toDst.nextHop}])
           t4 == InsertPrecursor(t3, toOrigin.nextHop, toDst.nextHop)
           linked == IF LookupValidRoute(t, rrep.dst) THEN WithTable(s, t4) ELSE s
           u == SendTo(linked, toOrigin.nextHop, p.ttl - 1, rrep)
<1>1. ForwardReply(s, p, rrep) \in {linked, u}
  BY DEF ForwardReply
<1> HIDE DEF t4
<1>2. Kept(s, linked, m) /\ IsStep(linked)
  BY TableKept, KeptBack, KeptStep
<1> HIDE DEF linked
<1>3. Kept(linked, u, m)
  BY <1>2, SendToKept
<1> HIDE DEF u
<1>4. QED
  BY <1>1, <1>2, <1>3, KeptOn

LEMMA CompleteDiscoveryKept ==
  ASSUME NEW s, NEW d, NEW wasInSearch, NEW new, NEW m, IsStep(s)
  PROVE  Kept(s, CompleteDiscovery(s, d, wasInSearch, new), m)
<1> DEFINE rt == Update(s.node.rt, d, new)
           timers == s.node.timers \ {d}
           found == [s EXCEPT !.node.rt = rt, !.node.timers = timers]
           u == IF wasInSearch THEN found ELSE s
<1>1. CompleteDiscovery(s, d, wasInSearch, new) = SendPacketFromQueue(u, d)
  BY DEF CompleteDiscovery
<1> HIDE DEF rt, timers
<1>2. found.at = s.at /\ found.out = s.out /\ found.node.queue = s.node.queue /\ IsStep(found)
  BY DEF IsStep
<1> HIDE DEF found
<1>3. Kept(s, found, m) /\ Kept(s, s, m)
  BY <1>2, SideKept, KeptBack
<1>4. Kept(s, u, m) /\ IsStep(u)
  BY <1>3, KeptStep
<1> HIDE DEF u
<1>5. QED
  BY <1>1, <1>4, SendPacketFromQueueKept, KeptOn

LEMMA ProcessHelloKept ==
  ASSUME NEW s, NEW rrep, NEW m, IsStep(s)
  PROVE  Kept(s, ProcessHello(s, rrep), m)
<1> DEFINE t == s.node.rt
           heard == IF LookupRoute(t, rrep.dst)
                    THEN Update(t, rrep.dst,
                           [t[rrep.dst] EXCEPT !.flag = "VALID", !.known = TRUE,
                              !.seqNo = rrep.seqNo, !.hop = 1, !.nextHop = rrep.dst])
                    ELSE AddRoute(t, rrep.dst, Route(TRUE, rrep.seqNo, 1, rrep.dst))
           u == WithTable(s, heard)
<1>1. ProcessHello(s, rrep) = Refresh(u, rrep.dst)
  BY DEF ProcessHello
<1> HIDE DEF heard
<1>2. Kept(s, u, m) /\ IsStep(u)
  BY TableKept, KeptStep
<1> HIDE DEF u
<1>3. QED
  BY <1>1, <1>2, RefreshKept, KeptOn

LEMMA AcceptReplyKept ==
  ASSUME NEW s, NEW p, NEW m, IsStep(s), p.body \in Rreps
  PROVE  Kept(s, AcceptReply(s, p), m)
<1> DEFINE rrep == [p.body EXCEPT !.hop = @ + 1, !.ackRequired = FALSE]
           d == rrep.dst
           old == s.node.rt[d]
           new == Route(TRUE, rrep.seqNo, rrep.hop, p.src)
           put == WithTable(s, Put(s.node.rt, d, new))
           routed == IF Supersedes(rrep, rrep.hop, old) THEN put ELSE s
           answered == SendTo(routed, p.src, 1, ReplyAck)
           acked == IF p.body.ackRequired THEN answered ELSE routed
           w == CompleteDiscovery(acked, d, old.flag = "IN_SEARCH", new)
<1>1. rrep # Data(m) /\ ReplyAck # Data(m)
  BY DEF Rreps, Data, ReplyAck
<1>2. AcceptReply(s, p) \in {w, acked, ForwardReply(acked, p, rrep)}
  <2> HIDE DEF routed, new, answered
  <2>1. QED
    BY DEF AcceptReply, routed, new, answered
<1> HIDE DEF rrep, d, old, new
<1>3. Kept(s, put, m) /\ Kept(s, s, m)
  BY TableKept, KeptBack
<1>4. Kept(s, routed, m) /\ IsStep(routed)
  <2> HIDE DEF put
  <2>1. QED
    BY <1>3, KeptStep
<1> HIDE DEF put, routed
<1>5. Kept(routed, answered, m) /\ Kept(routed, routed, m)
  BY <1>1, <1>4, SendToKept, KeptBack
<1> HIDE DEF answered
<1>6. Kept(s, acked, m) /\ IsStep(acked)
  BY <1>4, <1>5, KeptOn, KeptStep
<1> HIDE DEF acked
<1>7. Kept(acked, w, m) /\ Kept(acked, ForwardReply(acked, p, rrep), m)
  BY <1>1, <1>6, CompleteDiscoveryKept, ForwardReplyKept
<1> HIDE DEF w
<1>8. QED
  BY <1>2, <1>6, <1>7, KeptOn

LEMMA RecvAodvKept ==
  ASSUME NEW s, NEW p, NEW m, IsStep(s), p.body \in Bodies \ Datas
  PROVE  Kept(s, RecvAodv(s, p), m)
<1> DEFINE u == UpdateRouteToNeighbor(s, p.src)
           lost == p.body.lost \cap DestinationsVia(u.node.rt, p.src)
           rt == Update(u.node.rt, p.src, [u.node.rt[p.src] EXCEPT !.flag = "VALID"])
<1>1. Kept(s, u, m) /\ IsStep(u)
  BY TableKept, KeptBack, KeptStep DEF UpdateRouteToNeighbor
<1> HIDE DEF u, lost, rt
<1>2. CASE p.body \in Rreqs
  <2>1. RecvAodv(s, p) = RecvRequest(u, p)
    BY <1>2 DEF Rreqs, RecvAodv, u
  <2>2. QED
    BY <1>1, <1>2, <2>1, RecvRequestKept, KeptOn
<1>3. CASE p.body \in Rreps
  <2>1. RecvAodv(s, p) \in {ProcessHello(u, p.body), AcceptReply(u, p)}
    BY <1>3 DEF Rreps, RecvAodv, RecvReply, u
  <2>2. QED
    BY <1>1, <1>3, <2>1, ProcessHelloKept, AcceptReplyKept, KeptOn
<1>4. CASE p.body \in Rerrs
  <2>1. RecvAodv(s, p) = ReportLost(u, lost)
    BY <1>4 DEF Rerrs, RecvAodv, RecvError, u, lost
  <2>2. QED
    BY <1>1, <2>1, ReportLostKept, KeptOn
<1>5. CASE p.body \in Acks
  <2>1. RecvAodv(s, p) = WithTable(u, rt)
    BY <1>5 DEF Acks, RecvAodv, RecvReplyAck, u, rt
  <2>2. QED
    BY <1>1, <2>1, TableKept, KeptOn
<1>6. QED
  BY <1>2, <1>3, <1>4, <1>5 DEF Bodies

\* A packet that does not carry message m leaves what waits of it as it is.
LEMMA RouteInputKept ==
  ASSUME NEW s, NEW p \in Packets, NEW m, IsStep(s), p.body # Data(m),
         p.body \in Datas => p.dst # All
  PROVE  Kept(s, RouteInput(s, p), m)
<1> DEFINE e == s.node.rt[p.dst]
           heard == Refresh(s, s.node.rt[p.src].nextHop)
           near == IF LookupValidRoute(s.node.rt, p.src) THEN heard ELSE s
           once == Refresh(s, e.nextHop)
           twice == Refresh(once, s.node.rt[p.src].nextHop)
           next == [p EXCEPT !.ttl = @ - 1]
<1>1. p.body \in Bodies /\ next.body = p.body /\ p.ttl \in Nat
  BY DEF Packets
<1>2. p.body.type # "DATA" => p.body \in Bodies \ Datas
  <2>1. p.body \in Datas => p.body.type = "DATA"
    BY DEF Datas
  <2>2. QED
    BY <1>1, <2>1
<1>3. p.dst = All => p.body \in Bodies \ Datas
  BY <1>1
<1>4. Kept(s, near, m) /\ IsStep(near) /\ Kept(s, s, m)
  BY RefreshKept, KeptBack, KeptStep
<1>5. Kept(s, once, m) /\ IsStep(once)
  BY RefreshKept, KeptStep
<1> HIDE DEF once
<1>6. Kept(s, twice, m) /\ IsStep(twice)
  BY <1>5, RefreshKept, KeptOn, KeptStep
<1>7. Kept(s, LocalDeliver(s, p), m)
  <2>1. LocalDeliver(s, p) = IF p.body.type = "DATA" THEN near ELSE RecvAodv(near, p)
    BY DEF LocalDeliver
  <2> HIDE DEF near
  <2>2. QED
    BY <1>2, <1>4, <2>1, RecvAodvKept, KeptOn
<1>8. Kept(s, Forwarding(s, p), m)
  <2>1. Forwarding(s, p) \in {SendRerrWhenNoRouteToForward(s, p.dst, p.src), twice,
                              Emit(twice, e.nextHop, next)}
    BY <1>1 DEF Forwarding, once
  <2> HIDE DEF twice, next, e
  <2>2. Kept(twice, Emit(twice, e.nextHop, next), m)
    BY <1>1, <1>6, EmitKept
  <2>3. QED
    BY <1>6, <2>1, <2>2, SendRerrWhenNoRouteToForwardKept, KeptOn
<1>9. p.dst = All => Kept(s, RecvAodv(s, p), m)
  BY <1>3, RecvAodvKept
<1>10. \/ RouteInput(s, p) \in {s, LocalDeliver(s, p), Forwarding(s, p)}
       \/ p.dst = All /\ RouteInput(s, p) = RecvAodv(s, p)
  BY DEF RouteInput
<1>11. QED
  BY <1>4, <1>7, <1>8, <1>9, <1>10

-----------------------------------------------------------------------------
(* A handler that gets a packet of the message itself.                     *)

\* Nothing of message m is here.
Absent(s, m) == Of(s.node.queue, m) = {} /\ Of(s.out, m) = {}

\* A packet of the application leaves, or waits, or both not; but it is not doubled.
LEMMA RouteOutputTakes ==
  ASSUME NEW s, NEW m, NEW p, IsStep(s), Absent(s, m)
  PROVE  LET t == RouteOutput(s, p)
         IN  /\ IsStep(t) /\ t.at = s.at /\ Alone(t, m)
             /\ \A x \in Of(t.node.queue, m) \cup Of(t.out, m) : x.packet = p
<1> DEFINE t == RouteOutput(s, p)
           u == [s EXCEPT !.node.queue = Enqueue(@, p)]
           Takes(v) == /\ IsStep(v) /\ v.at = s.at /\ Alone(v, m)
                       /\ \A x \in Of(v.node.queue, m) \cup Of(v.out, m) : x.packet = p
<1>1. Takes(u)
  <2> DEFINE queue == Enqueue(s.node.queue, p)
             new == [no |-> NextNo(s.node.queue), packet |-> p]
  <2>1. Of(queue, m) \subseteq {new}
    BY DEF Of, Enqueue, Absent
  <2>2. u = [s EXCEPT !.node.queue = queue]
    OBVIOUS
  <2>3. new.packet = p
    OBVIOUS
  <2> HIDE DEF queue, new
  <2>4. u.at = s.at /\ u.out = s.out /\ u.node.queue = queue /\ IsStep(u)
    BY <2>2 DEF IsStep
  <2> HIDE DEF u
  <2>5. QED
    BY <2>1, <2>3, <2>4 DEF Absent, Alone, AtMostOne
<1>2. CASE LookupValidRoute(s.node.rt, p.dst)
  <2> DEFINE to == s.node.rt[p.dst].nextHop
             o == [to |-> to, packet |-> p]
             e == Emit(s, to, p)
  <2>1. e.at = s.at /\ e.node = s.node /\ e.out = s.out \cup {o} /\ IsStep(e)
    BY DEF Emit, IsStep
  <2>2. t = e /\ o.packet = p
    BY <1>2 DEF RouteOutput
  <2> HIDE DEF e, o, t
  <2>3. Of(e.out, m) \subseteq {o} /\ Of(e.node.queue, m) = {}
    BY <2>1 DEF Absent, Of
  <2>4. Takes(e)
    BY <2>1, <2>2, <2>3 DEF Alone, AtMostOne
  <2>5. QED
    BY <2>2, <2>4 DEF t
<1>3. CASE ~LookupValidRoute(s.node.rt, p.dst)
  <2> DEFINE v == SendRequest(u, p.dst)
  <2>1. t \in {u, v}
    BY <1>3 DEF RouteOutput, DeferredRouteOutput
  <2>2. u.out = s.out
    BY DEF IsStep
  <2> HIDE DEF u
  <2>3. Kept(u, v, m)
    BY <1>1, SendRequestKept
  <2> HIDE DEF v, t
  <2>4. Takes(v)
    BY <1>1, <2>2, <2>3 DEF Kept, Absent
  <2>5. QED
    BY <1>1, <2>1, <2>4 DEF t
<1>4. QED
  BY <1>2, <1>3

\* A packet that arrives is kept by nobody; it leaves once and with one hop less, or not at
\* all, and not from its target.
LEMMA RouteInputPasses ==
  ASSUME NEW s, NEW m \in Message, NEW p \in Packets, IsStep(s), Absent(s, m),
         p.body = Data(m), p.dst \in Node
  PROVE  LET t == RouteInput(s, p)
         IN  /\ IsStep(t) /\ t.at = s.at /\ Of(t.node.queue, m) = {}
             /\ AtMostOne(Of(t.out, m))
             /\ \A o \in Of(t.out, m) :
                  /\ s.at # p.dst /\ p.ttl >= 2
                  /\ o.packet = [p EXCEPT !.ttl = @ - 1]
<1> DEFINE e == s.node.rt[p.dst]
           back == s.node.rt[p.src].nextHop
           heard == Refresh(s, back)
           once == Refresh(s, e.nextHop)
           twice == Refresh(once, back)
           next == [p EXCEPT !.ttl = @ - 1]
           sent == Emit(twice, e.nextHop, next)
           told == SendRerrWhenNoRouteToForward(s, p.dst, p.src)
           o == [to |-> e.nextHop, packet |-> next]
           t == RouteInput(s, p)
<1>1. p.ttl \in Nat /\ p.dst # All
  BY AllAssumption DEF Packets
<1>2. LocalDeliver(s, p) \in {s, heard}
  BY DEF LocalDeliver, Data
<1>3. /\ Forwarding(s, p) \in {told, twice, sent}
      /\ Forwarding(s, p) \in {told, twice} \/ p.ttl >= 2
  BY <1>1 DEF Forwarding
<1>4. /\ t \in {s, LocalDeliver(s, p), Forwarding(s, p)}
      /\ s.at = p.dst => t \in {s, LocalDeliver(s, p)}
  BY <1>1 DEF RouteInput
<1>5. \A u : Kept(s, u, m) => /\ IsStep(u) /\ u.at = s.at
                             /\ Of(u.node.queue, m) = {} /\ Of(u.out, m) = {}
  BY DEF Kept, Absent
<1>6. Kept(s, s, m) /\ Kept(s, heard, m) /\ Kept(s, told, m)
  BY KeptBack, RefreshKept, SendRerrWhenNoRouteToForwardKept
<1>7. Kept(s, once, m) /\ IsStep(once)
  BY RefreshKept, KeptStep
<1> HIDE DEF once
<1>8. Kept(s, twice, m)
  BY <1>7, RefreshKept, KeptOn
<1> HIDE DEF twice, told, heard
<1>9. /\ IsStep(sent) /\ sent.at = twice.at /\ sent.node = twice.node
      /\ sent.out = twice.out \cup {o}
  <2>1. IsStep(twice)
    BY <1>8, KeptStep
  <2> HIDE DEF next, e
  <2>2. QED
    BY <2>1 DEF Emit, IsStep
<1> HIDE DEF sent
<1>10. Of(sent.out, m) \subseteq {o} /\ Of(sent.node.queue, m) = {} /\ sent.at = s.at
  BY <1>5, <1>8, <1>9 DEF Of
<1>11. o.packet = next
  OBVIOUS
<1> HIDE DEF o, next, t
<1>12. CASE t \in {s, heard, told, twice}
  BY <1>5, <1>6, <1>8, <1>12 DEF t, AtMostOne
<1>13. CASE t = sent /\ s.at # p.dst /\ p.ttl >= 2
  BY <1>9, <1>10, <1>11, <1>13 DEF t, AtMostOne, next
<1>14. t \in {s, heard, told, twice} \/ (t = sent /\ s.at # p.dst /\ p.ttl >= 2)
  BY <1>2, <1>3, <1>4
<1>15. QED
  BY <1>12, <1>13, <1>14

-----------------------------------------------------------------------------
(* The copies of a message in the network.                                 *)

Single(m) ==
  /\ AtMostOne(Waiting(m)) /\ AtMostOne(Flying(m))
  /\ Waiting(m) = {} \/ Flying(m) = {}

OneCopyOf(m) ==
  /\ Single(m)
  /\ m \notin unsent \cap delivered
  /\ m \in unsent \cup delivered => Copies(m) = {}
  /\ \A c \in Copies(m) : /\ c.packet.src = source[m] /\ c.packet.dst = target[m]
                          /\ c.packet.ttl \in 1..DefaultTtl

\* The same of given stations and frames: at each station and in the air.
IsCopy(stations, frames, m, c) ==
  \/ \E n \in Node : \E q \in Of(stations[n].queue, m) : c = [at |-> n, packet |-> q.packet]
  \/ \E f \in Of(frames, m) : c = [at |-> f.from, packet |-> f.packet]

IsSingle(stations, frames, m) ==
  /\ \A n, k \in Node : \A q \in Of(stations[n].queue, m), r \in Of(stations[k].queue, m) :
       n = k /\ q = r
  /\ AtMostOne(Of(frames, m))
  /\ (\A n \in Node : Of(stations[n].queue, m) = {}) \/ Of(frames, m) = {}

\* Stations g with their queues, and what waits of message m in them.
LEMMA PairsAre ==
  ASSUME NEW g, NEW m
  PROVE  LET W == {x \in UNION {{n} \X g[n].queue : n \in Node} : x[2].packet.body = Data(m)}
         IN  /\ \A x : x \in W <=> \E n \in Node : \E q \in Of(g[n].queue, m) : x = <<n, q>>
             /\ AtMostOne(W) <=>
                  \A n, k \in Node : \A q \in Of(g[n].queue, m), r \in Of(g[k].queue, m) :
                    n = k /\ q = r
<1> DEFINE U == UNION {{n} \X g[n].queue : n \in Node}
           W == {x \in U : x[2].packet.body = Data(m)}
<1>1. ASSUME NEW x, x \in U PROVE \E n \in Node : \E q \in g[n].queue : x = <<n, q>>
  <2>1. PICK n \in Node : x \in {n} \X g[n].queue
    BY <1>1
  <2>2. \E q \in g[n].queue : x = <<n, q>>
    BY <2>1
  <2>3. QED
    BY <2>2
<1>2. ASSUME NEW n \in Node, NEW q \in g[n].queue PROVE <<n, q>> \in U
  <2>1. <<n, q>> \in {n} \X g[n].queue
    OBVIOUS
  <2>2. QED
    BY <2>1
<1> HIDE DEF U
<1>3. \A x : x \in W <=> \E n \in Node : \E q \in Of(g[n].queue, m) : x = <<n, q>>
  <2>1. ASSUME NEW x \in W PROVE \E n \in Node : \E q \in Of(g[n].queue, m) : x = <<n, q>>
    <3>1. PICK n \in Node : \E q \in g[n].queue : x = <<n, q>>
      BY <1>1
    <3>2. PICK q \in g[n].queue : x = <<n, q>>
      BY <3>1
    <3>3. q \in Of(g[n].queue, m)
      BY <3>2 DEF Of
    <3>4. QED
      BY <3>2, <3>3
  <2>2. ASSUME NEW n \in Node, NEW q \in Of(g[n].queue, m) PROVE <<n, q>> \in W
    BY <1>2 DEF Of
  <2>3. QED
    BY <2>1, <2>2
<1> HIDE DEF W
<1>4. AtMostOne(W) <=>
        \A n, k \in Node : \A q \in Of(g[n].queue, m), r \in Of(g[k].queue, m) :
          n = k /\ q = r
  <2>1. ASSUME AtMostOne(W), NEW n \in Node, NEW k \in Node, NEW q \in Of(g[n].queue, m),
               NEW r \in Of(g[k].queue, m)
        PROVE  n = k /\ q = r
    <3>1. <<n, q>> = <<k, r>>
      BY <1>3, <2>1 DEF AtMostOne
    <3>2. QED
      BY <3>1
  <2>2. ASSUME \A n, k \in Node : \A q \in Of(g[n].queue, m), r \in Of(g[k].queue, m) :
                 n = k /\ q = r
        PROVE  AtMostOne(W)
    BY <1>3, <2>2 DEF AtMostOne
  <2>3. QED
    BY <2>1, <2>2
<1>5. QED
  BY <1>3, <1>4 DEF W, U

\* The places and packets of the waiting entries W, and what it is to be one.
Placed(W) == {[at |-> x[1], packet |-> x[2].packet] : x \in W}

IsWaiting(g, m, c) ==
  \E n \in Node : \E q \in Of(g[n].queue, m) : c = [at |-> n, packet |-> q.packet]

Entries(g, m, W) ==
  \A x : x \in W <=> \E n \in Node : \E q \in Of(g[n].queue, m) : x = <<n, q>>

LEMMA PlacesAre ==
  ASSUME NEW g, NEW m, NEW W, Entries(g, m, W)
  PROVE  \A c : c \in Placed(W) <=> IsWaiting(g, m, c)
<1> USE DEF Placed, Entries, IsWaiting
<1> DEFINE C == {[at |-> x[1], packet |-> x[2].packet] : x \in W}
<1>1. ASSUME NEW c \in C
      PROVE  \E n \in Node : \E q \in Of(g[n].queue, m) : c = [at |-> n, packet |-> q.packet]
  <2>1. PICK x \in W : c = [at |-> x[1], packet |-> x[2].packet]
    OBVIOUS
  <2>2. PICK n \in Node : \E q \in Of(g[n].queue, m) : x = <<n, q>>
    OBVIOUS
  <2>3. PICK q \in Of(g[n].queue, m) : x = <<n, q>>
    BY <2>2
  <2>4. x[1] = n /\ x[2] = q
    BY <2>3
  <2>5. c = [at |-> n, packet |-> q.packet]
    BY <2>1, <2>4
  <2>6. QED
    BY <2>5
<1>2. ASSUME NEW n \in Node, NEW q \in Of(g[n].queue, m)
      PROVE  [at |-> n, packet |-> q.packet] \in C
  <2> DEFINE x == <<n, q>>
  <2>1. x \in W /\ x[1] = n /\ x[2] = q
    OBVIOUS
  <2> HIDE DEF x
  <2>2. [at |-> x[1], packet |-> x[2].packet] \in C
    BY <2>1
  <2>3. QED
    BY <2>1, <2>2
<1> HIDE DEF C
<1>3. QED
  BY <1>1, <1>2 DEF C

LEMMA CopiesAre ==
  ASSUME NEW m
  PROVE  /\ \A c : c \in Copies(m) <=> IsCopy(node, air, m, c)
         /\ \A c : c \in Copies(m)' <=> IsCopy(node', air', m, c)
         /\ Single(m) <=> IsSingle(node, air, m)
         /\ Single(m)' <=> IsSingle(node', air', m)
<1>1. /\ \A x : x \in Waiting(m) <=> \E n \in Node : \E q \in Of(node[n].queue, m) : x = <<n, q>>
      /\ Flying(m) = Of(air, m)
  BY PairsAre DEF Waiting, Flying, Of
<1>2. /\ \A x : x \in Waiting(m)' <=> \E n \in Node : \E q \in Of(node'[n].queue, m) : x = <<n, q>>
      /\ Flying(m)' = Of(air', m)
  BY PairsAre DEF Waiting, Flying, Of
<1>3. \A c : c \in Copies(m) <=> IsCopy(node, air, m, c)
  <2> DEFINE W == Waiting(m)
  <2> HIDE DEF W
  <2>1. Entries(node, m, W)
    BY <1>1 DEF Entries, W
  <2>2. \A c : c \in Placed(W) <=> IsWaiting(node, m, c)
    BY <2>1, PlacesAre
  <2> DEFINE B == {[at |-> f.from, packet |-> f.packet] : f \in Of(air, m)}
  <2>3. Copies(m) = Placed(W) \cup B
    BY <1>1 DEF Copies, Placed, W
  <2>4. \A c : c \in B <=> \E f \in Of(air, m) : c = [at |-> f.from, packet |-> f.packet]
    OBVIOUS
  <2> HIDE DEF B
  <2>5. QED
    BY <2>2, <2>3, <2>4 DEF IsCopy, IsWaiting
<1>4. \A c : c \in Copies(m)' <=> IsCopy(node', air', m, c)
  <2> DEFINE W == Waiting(m)'
  <2> HIDE DEF W
  <2>1. Entries(node', m, W)
    BY <1>2 DEF Entries, W
  <2>2. \A c : c \in Placed(W) <=> IsWaiting(node', m, c)
    BY <2>1, PlacesAre
  <2> DEFINE B == {[at |-> f.from, packet |-> f.packet] : f \in Of(air', m)}
  <2>3. Copies(m)' = Placed(W) \cup B
    BY <1>2 DEF Copies, Placed, W
  <2>4. \A c : c \in B <=> \E f \in Of(air', m) : c = [at |-> f.from, packet |-> f.packet]
    OBVIOUS
  <2> HIDE DEF B
  <2>5. QED
    BY <2>2, <2>3, <2>4 DEF IsCopy, IsWaiting
<1>5. AtMostOne(Waiting(m)) <=>
        \A n, k \in Node : \A q \in Of(node[n].queue, m), r \in Of(node[k].queue, m) :
          n = k /\ q = r
  BY PairsAre DEF Waiting
<1>6. AtMostOne(Waiting(m))' <=>
        \A n, k \in Node : \A q \in Of(node'[n].queue, m), r \in Of(node'[k].queue, m) :
          n = k /\ q = r
  <2>1. AtMostOne(Waiting(m)') <=> 
          \A n, k \in Node : \A q \in Of(node'[n].queue, m), r \in Of(node'[k].queue, m) :
            n = k /\ q = r
    BY PairsAre DEF Waiting
  <2>2. QED
    BY <2>1 DEF AtMostOne
<1>7. Waiting(m) = {} <=> \A n \in Node : Of(node[n].queue, m) = {}
  BY <1>1
<1>8. Waiting(m)' = {} <=> \A n \in Node : Of(node'[n].queue, m) = {}
  BY <1>2
<1>9. Single(m) <=> IsSingle(node, air, m)
  BY <1>1, <1>5, <1>7 DEF Single, IsSingle
<1>10. Single(m)' <=> IsSingle(node', air', m)
  BY <1>2, <1>6, <1>8 DEF Single, IsSingle, AtMostOne
<1>11. QED
  BY <1>3, <1>4, <1>9, <1>10

\* All stations have kept what they had, and only what they sent is new in the air.
LEMMA StationsKeep ==
  ASSUME NEW m, NEW t, \A n \in Node : Kept(Step(n), t[n], m),
         \A n \in Node : node'[n] = t[n].node,
         \A f \in air' : f \in air \/ \E n \in Node : f \in Transmitted(t[n])
  PROVE  Copies(m)' \subseteq Copies(m) /\ (Single(m) => Single(m)')
<1>1. \A n \in Node : Step(n).at = n /\ Step(n).node = node[n] /\ Step(n).out = {}
  BY DEF Step, Begin
<1>2. \A n \in Node : /\ Of(node'[n].queue, m) \subseteq Of(node[n].queue, m)
                      /\ t[n].at = n
                      /\ \A o \in Of(t[n].out, m) :
                           \E q \in Of(node[n].queue, m) : o.packet = q.packet
                      /\ Alone(Step(n), m) => Alone(t[n], m)
  BY <1>1 DEF Kept, Of
<1>3. \A f \in Of(air', m) :
        f \in Of(air, m)
          \/ \E n \in Node : \E o \in Of(t[n].out, m) :
               f = [from |-> n, to |-> o.to, packet |-> o.packet]
  <2> SUFFICES ASSUME NEW f \in Of(air', m), f \notin Of(air, m)
               PROVE  \E n \in Node : \E o \in Of(t[n].out, m) :
                        f = [from |-> n, to |-> o.to, packet |-> o.packet]
    OBVIOUS
  <2>1. PICK n \in Node : f \in Transmitted(t[n])
    BY DEF Of
  <2>2. PICK o \in t[n].out : f = [from |-> n, to |-> o.to, packet |-> o.packet]
    BY <1>2, <2>1 DEF Transmitted
  <2>3. o \in Of(t[n].out, m)
    BY <2>2 DEF Of
  <2>4. QED
    BY <2>2, <2>3
<1>4. ASSUME NEW c, IsCopy(node', air', m, c) PROVE IsCopy(node, air, m, c)
  <2>1. CASE \E n \in Node : \E q \in Of(node'[n].queue, m) : c = [at |-> n, packet |-> q.packet]
    BY <1>2, <2>1 DEF IsCopy
  <2>2. CASE \E f \in Of(air', m) : c = [at |-> f.from, packet |-> f.packet]
    <3>1. PICK f \in Of(air', m) : c = [at |-> f.from, packet |-> f.packet]
      BY <2>2
    <3>2. CASE f \in Of(air, m)
      BY <3>1, <3>2 DEF IsCopy
    <3>3. CASE f \notin Of(air, m)
      <4>1. PICK n \in Node : \E o \in Of(t[n].out, m) :
              f = [from |-> n, to |-> o.to, packet |-> o.packet]
        BY <1>3, <3>3
      <4>2. PICK o \in Of(t[n].out, m) : f = [from |-> n, to |-> o.to, packet |-> o.packet]
        BY <4>1
      <4>3. PICK q \in Of(node[n].queue, m) : o.packet = q.packet
        BY <1>2, <4>2
      <4>4. c = [at |-> n, packet |-> q.packet]
        BY <3>1, <4>2, <4>3
      <4>5. QED
        BY <4>4 DEF IsCopy
    <3>4. QED
      BY <3>2, <3>3
  <2>3. QED
    BY <1>4, <2>1, <2>2 DEF IsCopy
<1>5. ASSUME IsSingle(node, air, m) PROVE IsSingle(node', air', m)
  <2>1. CASE \A n \in Node : Of(node[n].queue, m) = {}
    <3>1. \A n \in Node : Of(node'[n].queue, m) = {} /\ Of(t[n].out, m) = {}
      BY <1>2, <2>1
    <3>2. Of(air', m) \subseteq Of(air, m)
      BY <1>3, <3>1
    <3>3. QED
      BY <1>5, <3>1, <3>2 DEF IsSingle, AtMostOne
  <2>2. CASE \E n \in Node : Of(node[n].queue, m) # {}
    <3>1. PICK n \in Node : Of(node[n].queue, m) # {}
      BY <2>2
    <3>2. Of(air, m) = {}
      BY <1>5, <3>1 DEF IsSingle
    <3>3. \A k \in Node : k # n => Of(node[k].queue, m) = {}
      BY <1>5, <3>1 DEF IsSingle
    <3>4. \A k \in Node : k # n => Of(node'[k].queue, m) = {} /\ Of(t[k].out, m) = {}
      BY <1>2, <3>3
    <3>5. \A x, y \in Of(node[n].queue, m) : x = y
      BY <1>5 DEF IsSingle
    <3>6. Alone(Step(n), m)
      BY <1>1, <3>5 DEF Alone, AtMostOne, Of
    <3>7. Alone(t[n], m)
      BY <1>2, <3>6
    <3>8. \A f \in Of(air', m) : \E o \in Of(t[n].out, m) :
               f = [from |-> n, to |-> o.to, packet |-> o.packet]
      BY <1>3, <3>2, <3>4
    <3>9. AtMostOne(Of(air', m))
      BY <3>7, <3>8 DEF Alone, AtMostOne
    <3>10. Of(node'[n].queue, m) = {} \/ Of(air', m) = {}
      BY <3>7, <3>8 DEF Alone
    <3>11. QED
      BY <3>4, <3>7, <3>9, <3>10 DEF IsSingle, Alone, AtMostOne
  <2>3. QED
    BY <2>1, <2>2
<1>6. QED
  BY <1>4, <1>5, CopiesAre

-----------------------------------------------------------------------------
(* What a step of the network does to a message.                           *)

\* What the service of Delivery allows for one message.
Moved(m) ==
  \/ /\ Phase(m) = "unsent" /\ Phase(m)' \in {"moving", "lost"}
     /\ Phase(m)' = "moving" => Copy(m)' = Copy(m)
  \/ /\ Phase(m) = "moving" /\ Phase(m)' = "moving"
     /\ Copy(m).left > 1 /\ Copy(m)'.left = Copy(m).left - 1
     /\ Copy(m)'.at \in Node /\ <<Copy(m).at, Copy(m)'.at>> \in Links
  \/ Phase(m) = "moving" /\ Phase(m)' = "delivered" /\ <<Copy(m).at, target[m]>> \in Links
  \/ Phase(m) = "moving" /\ Phase(m)' = "lost"
  \/ Phase(m)' = Phase(m) /\ Copy(m)' = Copy(m)

\* The step is right by message m.
Right(m) == OneCopyOf(m)' /\ Moved(m)

LEMMA BeginIsStep ==
  ASSUME NEW n, NEW state \in NodeState
  PROVE  IsStep(Begin(n, state))
BY DEF Begin, IsStep, NodeState

LEMMA StartIsStep ==
  ASSUME Stations, NEW n \in Node
  PROVE  IsStep(Step(n)) /\ Step(n).at = n /\ Step(n).node = node[n] /\ Step(n).out = {}
<1>1. node[n] \in NodeState
  BY DEF Stations
<1>2. Step(n).at = n /\ Step(n).node = node[n] /\ Step(n).out = {}
  BY DEF Step, Begin
<1>3. IsStep(Step(n))
  BY <1>1, BeginIsStep DEF Step
<1>4. QED
  BY <1>2, <1>3

\* A single copy is the one.
LEMMA OneCopyAtMost ==
  ASSUME NEW m, Single(m)
  PROVE  AtMostOne(Copies(m))
<1>1. IsSingle(node, air, m) /\ \A c : c \in Copies(m) <=> IsCopy(node, air, m, c)
  BY CopiesAre
<1>2. CASE Of(air, m) = {}
  BY <1>1, <1>2 DEF IsSingle, IsCopy, AtMostOne
<1>3. CASE \A n \in Node : Of(node[n].queue, m) = {}
  BY <1>1, <1>3 DEF IsSingle, IsCopy, AtMostOne
<1>4. QED
  BY <1>1, <1>2, <1>3 DEF IsSingle

\* Where a message is, in terms of its copies.
LEMMA PhaseIs ==
  ASSUME NEW m, OneCopyOf(m)
  PROVE  /\ m \in unsent => Phase(m) = "unsent"
         /\ m \in delivered => Phase(m) = "delivered"
         /\ m \notin unsent \cup delivered /\ Copies(m) = {} => Phase(m) = "lost"
         /\ Copies(m) # {} => Phase(m) = "moving"
         /\ Copies(m) = {} => Phase(m) # "moving"
         /\ \A c \in Copies(m) : Copy(m) = [at |-> c.at, left |-> c.packet.ttl]
         /\ Phase(m) # "moving" => Copy(m) = [at |-> source[m], left |-> DefaultTtl]
<1>1. Copies(m) # {} => m \notin unsent \cup delivered
  BY DEF OneCopyOf
<1>2. /\ m \in unsent => Phase(m) = "unsent"
      /\ m \in delivered => Phase(m) = "delivered"
      /\ m \notin unsent \cup delivered => Phase(m) = IF Copies(m) = {} THEN "lost" ELSE "moving"
  BY <1>1 DEF Phase, OneCopyOf
<1>3. ASSUME NEW c \in Copies(m) PROVE Copy(m) = [at |-> c.at, left |-> c.packet.ttl]
  <2>1. AtMostOne(Copies(m))
    BY OneCopyAtMost DEF OneCopyOf
  <2>2. (CHOOSE x \in Copies(m) : TRUE) = c
    BY <2>1 DEF AtMostOne
  <2>3. Phase(m) = "moving"
    BY <1>1, <1>2
  <2>4. QED
    BY <2>2, <2>3 DEF Copy
<1>4. Phase(m) # "moving" => Copy(m) = [at |-> source[m], left |-> DefaultTtl]
  BY DEF Copy
<1>5. QED
  BY <1>1, <1>2, <1>3, <1>4

\* What is not passed on is lost or stays.
LEMMA KeptIsRight ==
  ASSUME NEW m \in Message, OneCopyOf(m), Copies(m)' \subseteq Copies(m),
         Single(m) => Single(m)', m \in unsent' <=> m \in unsent,
         m \in delivered' <=> m \in delivered
  PROVE  Right(m)
<1>1. OneCopyOf(m)'
  BY DEF OneCopyOf
<1>2. AtMostOne(Copies(m))
  BY OneCopyAtMost DEF OneCopyOf
<1>3. CASE Copies(m) # {} /\ Copies(m)' # {}
  <2>1. Copies(m)' = Copies(m)
    BY <1>2, <1>3 DEF AtMostOne
  <2>2. Phase(m)' = Phase(m)
    BY <2>1 DEF Phase
  <2>3. Copy(m)' = Copy(m)
    BY <2>1, <2>2 DEF Copy
  <2>4. QED
    BY <1>1, <2>2, <2>3 DEF Right, Moved
<1>4. CASE Copies(m) # {} /\ Copies(m)' = {}
  <2>1. Phase(m) = "moving" /\ m \notin unsent \cup delivered
    BY <1>4, PhaseIs DEF OneCopyOf
  <2>2. Phase(m)' = "lost"
    BY <1>4, <2>1 DEF Phase
  <2>3. QED
    BY <1>1, <2>1, <2>2 DEF Right, Moved
<1>5. CASE Copies(m) = {}
  <2>1. Copies(m)' = {}
    BY <1>5
  <2>2. Phase(m)' = Phase(m) /\ Phase(m) # "moving"
    BY <1>5, <2>1 DEF Phase
  <2>3. Copy(m)' = Copy(m)
    BY <2>2 DEF Copy
  <2>4. QED
    BY <1>1, <2>2, <2>3 DEF Right, Moved
<1>6. QED
  BY <1>3, <1>4, <1>5

\* A station has taken a step in which the message stays what it was.
LEMMA TakeIsRight ==
  ASSUME Stations, NEW m \in Message, OneCopyOf(m), NEW n \in Node, NEW u,
         Kept(Step(n), u, m), NEW base, base \subseteq air, Take(u, base),
         m \in unsent' <=> m \in unsent, m \in delivered' <=> m \in delivered
  PROVE  Right(m)
<1> DEFINE t == [k \in Node |-> IF k = n THEN u ELSE Step(k)]
<1>1. u.at = n
  BY StartIsStep DEF Kept
<1>2. node' = [node EXCEPT ![n] = u.node] /\ air' = base \cup Transmitted(u)
  BY <1>1 DEF Take
<1>3. \A k \in Node : /\ Kept(Step(k), Step(k), m) /\ Step(k).node = node[k]
  BY StartIsStep, KeptBack
<1>4. \A k \in Node : Kept(Step(k), t[k], m)
  BY <1>3
<1>5. t[n] = u /\ \A k \in Node : k # n => t[k] = Step(k)
  OBVIOUS
<1> HIDE DEF t
<1>6. \A k \in Node : node'[k] = t[k].node
  BY <1>2, <1>3, <1>5 DEF Stations
<1>7. \A f \in air' : f \in air \/ \E k \in Node : f \in Transmitted(t[k])
  BY <1>2, <1>5
<1>8. Copies(m)' \subseteq Copies(m) /\ (Single(m) => Single(m)')
  BY <1>4, <1>6, <1>7, StationsKeep
<1>9. QED
  BY <1>8, KeptIsRight

\* Queues shrink, and nothing is sent.
LEMMA ShrinkIsRight ==
  ASSUME Stations, Stations', NEW m \in Message, OneCopyOf(m),
         \A n \in Node : node'[n].queue \subseteq node[n].queue, air' \subseteq air,
         m \in unsent' <=> m \in unsent, m \in delivered' <=> m \in delivered
  PROVE  Right(m)
<1> DEFINE t == [n \in Node |-> Begin(n, node'[n])]
<1>1. ASSUME NEW n \in Node PROVE Kept(Step(n), t[n], m) /\ t[n].node = node'[n]
  <2> DEFINE u == Begin(n, node'[n])
  <2>1. node'[n] \in NodeState
    BY DEF Stations
  <2>2. IsStep(u)
    BY <2>1, BeginIsStep
  <2>3. u.at = n /\ u.node = node'[n] /\ u.out = {}
    BY DEF Begin
  <2>4. t[n] = u
    OBVIOUS
  <2> HIDE DEF u, t
  <2>5. Step(n).at = n /\ Step(n).node = node[n] /\ Step(n).out = {}
    BY StartIsStep
  <2>6. u.at = Step(n).at /\ u.out = Step(n).out /\ u.node.queue \subseteq Step(n).node.queue
    BY <2>3, <2>5
  <2>7. Kept(Step(n), u, m)
    BY <2>2, <2>6, SideKept
  <2>8. QED
    BY <2>3, <2>4, <2>7
<1> HIDE DEF t
<1>2. Copies(m)' \subseteq Copies(m) /\ (Single(m) => Single(m)')
  BY <1>1, StationsKeep
<1>3. QED
  BY <1>2, KeptIsRight

LEMMA DataIsOf ==
  ASSUME NEW m, NEW k
  PROVE  Data(m) = Data(k) <=> m = k
<1>1. Data(m).id = m /\ Data(k).id = k
  BY DEF Data
<1>2. QED
  BY <1>1

-----------------------------------------------------------------------------
(* An application sends.                                                   *)

LEMMA SendDataIsRight ==
  ASSUME IInv, NEW k \in Message, SendData(k), NEW m \in Message, OneCopyOf(m)
  PROVE  Right(m)
<1> DEFINE n == source[k]
           p == Packet(n, target[k], DefaultTtl, Data(k))
           u == RouteOutput(Step(n), p)
<1>1. n \in Node /\ Stations
  BY NetworkAssumption DEF IInv
<1>2. p.body = Data(k) /\ p.src = n /\ p.dst = target[k] /\ p.ttl = DefaultTtl
  BY DEF Packet
<1>3. Take(u, air) /\ k \in unsent /\ unsent' = unsent \ {k} /\ delivered' = delivered
  BY DEF SendData
<1> HIDE DEF p
<1>4. IsStep(Step(n)) /\ Step(n).at = n /\ Step(n).node = node[n] /\ Step(n).out = {}
  BY <1>1, StartIsStep
<1>5. CASE m # k
  <2>1. Kept(Step(n), u, m)
    BY <1>2, <1>4, <1>5, DataIsOf, RouteOutputKept
  <2> HIDE DEF n, u
  <2>2. air \subseteq air /\ (m \in unsent' <=> m \in unsent) /\ (m \in delivered' <=> m \in delivered)
    BY <1>3, <1>5
  <2>3. QED
    BY <1>1, <1>3, <2>1, <2>2, TakeIsRight
<1>6. CASE m = k
  <2>1. Copies(m) = {} /\ Phase(m) = "unsent"
    BY <1>3, <1>6, PhaseIs DEF OneCopyOf
  <2>2. Of(air, m) = {} /\ \A j \in Node : Of(node[j].queue, m) = {}
    <3>1. \A c : ~IsCopy(node, air, m, c)
      BY <2>1, CopiesAre
    <3>2. QED
      BY <3>1 DEF IsCopy
  <2>3. Absent(Step(n), m)
    BY <1>1, <1>4, <2>2 DEF Absent, Of
  <2>4. /\ IsStep(u) /\ u.at = n /\ Alone(u, m)
        /\ \A x \in Of(u.node.queue, m) \cup Of(u.out, m) : x.packet = p
    BY <1>4, <2>3, RouteOutputTakes
  <2> HIDE DEF u, n
  <2>5. node' = [node EXCEPT ![n] = u.node] /\ air' = air \cup Transmitted(u)
    BY <1>3, <2>4 DEF Take
  <2>6. node'[n] = u.node /\ \A j \in Node : j # n => Of(node'[j].queue, m) = {}
    BY <1>1, <2>2, <2>5 DEF Stations
  <2>7. \A f \in Of(air', m) : \E o \in Of(u.out, m) :
          f = [from |-> n, to |-> o.to, packet |-> o.packet]
    <3>1. ASSUME NEW f \in Of(air', m)
          PROVE  \E o \in Of(u.out, m) : f = [from |-> n, to |-> o.to, packet |-> o.packet]
      <4>1. f \in Transmitted(u)
        BY <2>2, <2>5 DEF Of
      <4>2. PICK o \in u.out : f = [from |-> n, to |-> o.to, packet |-> o.packet]
        BY <2>4, <4>1 DEF Transmitted
      <4>3. QED
        BY <4>2 DEF Of
    <3>2. QED
      BY <3>1
  <2>8. IsSingle(node', air', m)
    <3>1. AtMostOne(Of(air', m))
      BY <2>4, <2>7 DEF Alone, AtMostOne
    <3>2. (\A j \in Node : Of(node'[j].queue, m) = {}) \/ Of(air', m) = {}
      BY <2>4, <2>6, <2>7 DEF Alone
    <3>3. QED
      BY <2>4, <2>6, <3>1, <3>2 DEF IsSingle, Alone, AtMostOne
  <2>9. \A c \in Copies(m)' : c.at = n /\ c.packet = p
    <3>1. ASSUME NEW c, IsCopy(node', air', m, c) PROVE c.at = n /\ c.packet = p
      <4>1. CASE \E j \in Node : \E q \in Of(node'[j].queue, m) :
                   c = [at |-> j, packet |-> q.packet]
        BY <2>4, <2>6, <4>1
      <4>2. CASE \E f \in Of(air', m) : c = [at |-> f.from, packet |-> f.packet]
        BY <2>4, <2>7, <4>2
      <4>3. QED
        BY <3>1, <4>1, <4>2 DEF IsCopy
    <3>2. QED
      BY <3>1, CopiesAre
  <2>10. OneCopyOf(m)'
    <3>1. DefaultTtl \in 1..DefaultTtl
      BY AodvAttributes
    <3>2. m \notin unsent' \cup delivered'
      BY <1>3, <1>6 DEF OneCopyOf
    <3>3. QED
      BY <1>2, <1>6, <2>8, <2>9, <3>1, <3>2, CopiesAre DEF OneCopyOf, n
  <2>11. m \notin unsent' \cup delivered'
    BY <1>3, <1>6 DEF OneCopyOf
  <2>12. CASE Copies(m)' = {}
    <3>1. Phase(m)' = "lost"
      BY <2>11, <2>12 DEF Phase
    <3>2. QED
      BY <2>1, <2>10, <3>1 DEF Right, Moved
  <2>13. CASE Copies(m)' # {}
    <3>1. Phase(m)' = "moving"
      BY <2>11, <2>13 DEF Phase
    <3>2. Copy(m) = [at |-> source[m], left |-> DefaultTtl]
      BY <2>1, PhaseIs
    <3>3. (CHOOSE c \in Copies(m)' : TRUE) \in Copies(m)'
      BY <2>13
    <3>4. Copy(m)' = [at |-> n, left |-> p.ttl]
      BY <2>9, <3>1, <3>3 DEF Copy
    <3>5. QED
      BY <1>2, <1>6, <2>1, <2>10, <3>1, <3>2, <3>4 DEF Right, Moved, n
  <2>14. QED
    BY <2>12, <2>13
<1>7. QED
  BY <1>5, <1>6

-----------------------------------------------------------------------------
(* A frame arrives.                                                        *)

\* Those that hear the frame take their steps.
LEMMA ReceiveParts ==
  ASSUME IInv, NEW f \in air, NEW lost, Receive(f, lost),
         NEW hears, hears = Receivers(f) \ lost
  PROVE  /\ hears \subseteq Node /\ hears \subseteq Near(f.from)
         /\ f.packet.body \in Datas => hears \subseteq {f.to} /\ f.to \in Node
         /\ f.packet \in Packets /\ f.packet.dst \in Node \cup {All}
         /\ f.packet.body \in Datas => f.packet.dst \in Node
         /\ node' = [n \in Node |-> IF n \in hears THEN RouteInput(Step(n), f.packet).node
                                                   ELSE node[n]]
         /\ air' = (air \ {f}) \cup UNION {Transmitted(RouteInput(Step(n), f.packet)) : n \in hears}
         /\ unsent' = unsent
         /\ delivered' = delivered \cup
                           {m \in Message : f.packet.body = Data(m) /\ f.packet.dst \in hears}
<1>1. hears \subseteq Node /\ hears \subseteq Near(f.from)
  BY DEF Receivers, Near
<1>2. /\ f.packet \in Packets /\ f.packet.body \in Datas => f.packet.dst \in Node
      /\ f.packet.body \in Datas => f.to \in Node
  BY DEF IInv, Stations, Routed, PacketsUpTo
<1>3. f.packet.body \in Datas => hears \subseteq {f.to}
  BY <1>2, AllAssumption DEF Receivers
<1>4. f.packet.dst \in Node \cup {All}
  BY DEF IInv, Stations, Packets
<1>5. f.packet \in Packets
  BY DEF IInv, Stations
<1>6. /\ node' = [n \in Node |-> IF n \in hears THEN RouteInput(Step(n), f.packet).node
                                                ELSE node[n]]
      /\ air' = (air \ {f}) \cup UNION {Transmitted(RouteInput(Step(n), f.packet)) : n \in hears}
      /\ unsent' = unsent
      /\ delivered' = delivered \cup
                        {m \in Message : f.packet.body = Data(m) /\ f.packet.dst \in hears}
  BY DEF Receive
<1>7. QED
  BY <1>1, <1>2, <1>3, <1>4, <1>5, <1>6

\* The frame carries something else.
LEMMA ReceiveOtherIsRight ==
  ASSUME IInv, NEW f \in air, NEW lost, Receive(f, lost), NEW m \in Message, OneCopyOf(m),
         f.packet.body # Data(m)
  PROVE  Right(m)
<1> DEFINE hears == Receivers(f) \ lost
           p == f.packet
           t == [n \in Node |-> IF n \in hears THEN RouteInput(Step(n), p) ELSE Step(n)]
<1>1. Stations
  BY DEF IInv
<1>2. hears = Receivers(f) \ lost
  OBVIOUS
<1> HIDE DEF hears
<1>3. /\ hears \subseteq Node /\ p \in Packets /\ (p.body \in Datas => p.dst # All)
      /\ node' = [n \in Node |-> IF n \in hears THEN RouteInput(Step(n), p).node ELSE node[n]]
      /\ air' = (air \ {f}) \cup UNION {Transmitted(RouteInput(Step(n), p)) : n \in hears}
      /\ unsent' = unsent
      /\ m \in delivered' <=> m \in delivered
  <2>1. All \notin Node
    BY AllAssumption
  <2>2. /\ hears \subseteq Node /\ p \in Packets /\ (p.body \in Datas => p.dst \in Node)
        /\ delivered' = delivered \cup {k \in Message : p.body = Data(k) /\ p.dst \in hears}
    BY <1>2, ReceiveParts
  <2>3. m \in delivered' <=> m \in delivered
    BY <2>2
  <2>4. /\ node' = [n \in Node |-> IF n \in hears THEN RouteInput(Step(n), p).node ELSE node[n]]
        /\ air' = (air \ {f}) \cup UNION {Transmitted(RouteInput(Step(n), p)) : n \in hears}
        /\ unsent' = unsent
    BY <1>2, ReceiveParts
  <2> HIDE DEF p
  <2>5. QED
    BY <2>1, <2>2, <2>3, <2>4
<1> HIDE DEF p
<1>4. p.body # Data(m)
  BY DEF p
<1>5. ASSUME NEW n \in Node
      PROVE  Kept(Step(n), t[n], m) /\ node'[n] = t[n].node
  <2>1. IsStep(Step(n)) /\ Step(n).node = node[n]
    BY <1>1, StartIsStep
  <2>2. Kept(Step(n), Step(n), m) /\ Kept(Step(n), RouteInput(Step(n), p), m)
    BY <1>3, <1>4, <2>1, KeptBack, RouteInputKept
  <2>3. QED
    BY <1>3, <2>1, <2>2
<1>6. \A n \in hears : n \in Node /\ t[n] = RouteInput(Step(n), p)
  BY <1>3
<1> HIDE DEF t
<1>7. \A g \in air' : g \in air \/ \E n \in Node : g \in Transmitted(t[n])
  BY <1>3, <1>6
<1>8. Copies(m)' \subseteq Copies(m) /\ (Single(m) => Single(m)')
  BY <1>5, <1>7, StationsKeep
<1>9. QED
  BY <1>3, <1>8, KeptIsRight

\* A frame with a packet of the message: it is the only copy.
LEMMA ReceiveOwnIsRight ==
  ASSUME IInv, NEW f \in air, NEW lost, Receive(f, lost), NEW m \in Message, OneCopyOf(m),
         f.packet.body = Data(m)
  PROVE  Right(m)
<1> DEFINE hears == Receivers(f) \ lost
           p == f.packet
           c == [at |-> f.from, packet |-> p]
           next == [p EXCEPT !.ttl = @ - 1]
<1>1. Stations
  BY DEF IInv
<1>2. Of(air, m) = {f} /\ \A n \in Node : Of(node[n].queue, m) = {}
  <2>1. f \in Of(air, m)
    BY DEF Of
  <2>2. IsSingle(node, air, m)
    BY CopiesAre DEF OneCopyOf
  <2>3. QED
    BY <2>1, <2>2 DEF IsSingle, AtMostOne
<1>3. c \in Copies(m)
  <2>1. IsCopy(node, air, m, c)
    BY <1>2 DEF IsCopy
  <2>2. QED
    BY <2>1, CopiesAre
<1>4. /\ p.src = source[m] /\ p.dst = target[m] /\ p.ttl \in 1..DefaultTtl
      /\ m \notin unsent /\ m \notin delivered
      /\ Phase(m) = "moving" /\ Copy(m) = [at |-> f.from, left |-> p.ttl]
  BY <1>3, PhaseIs DEF OneCopyOf
<1>5. Data(m) \in Datas
  BY DEF Data, Datas
<1>6. hears = Receivers(f) \ lost
  OBVIOUS
<1> HIDE DEF hears
<1>7. /\ hears \subseteq Node /\ hears \subseteq Near(f.from) /\ hears \subseteq {f.to}
      /\ f.to \in Node /\ p \in Packets /\ p.dst \in Node
      /\ node' = [n \in Node |-> IF n \in hears THEN RouteInput(Step(n), p).node ELSE node[n]]
      /\ air' = (air \ {f}) \cup UNION {Transmitted(RouteInput(Step(n), p)) : n \in hears}
      /\ unsent' = unsent
      /\ delivered' = delivered \cup {k \in Message : p.body = Data(k) /\ p.dst \in hears}
  <2>1. f.packet.body \in Datas
    BY <1>5
  <2>2. /\ hears \subseteq Node /\ hears \subseteq Near(f.from) /\ hears \subseteq {f.to}
        /\ f.to \in Node /\ p \in Packets /\ p.dst \in Node
    BY <1>6, <2>1, ReceiveParts
  <2>3. /\ node' = [n \in Node |-> IF n \in hears THEN RouteInput(Step(n), p).node ELSE node[n]]
        /\ air' = (air \ {f}) \cup UNION {Transmitted(RouteInput(Step(n), p)) : n \in hears}
        /\ unsent' = unsent
        /\ delivered' = delivered \cup {k \in Message : p.body = Data(k) /\ p.dst \in hears}
    BY <1>6, ReceiveParts
  <2> HIDE DEF p
  <2>4. QED
    BY <2>2, <2>3
<1>8. p.body = Data(m)
  OBVIOUS
<1>9. /\ m \in delivered' <=> p.dst \in hears
      /\ m \notin unsent'
  BY <1>4, <1>7, <1>8
<1>10. \A n \in Near(f.from) : <<f.from, n>> \in Links
  BY DEF Near
<1> HIDE DEF c, p
<1>11. CASE hears = {}
  <2>1. \A n \in Node : node'[n] = node[n]
    BY <1>7, <1>11
  <2>2. air' = air \ {f}
    BY <1>7, <1>11
  <2>3. Of(air', m) = {} /\ \A n \in Node : Of(node'[n].queue, m) = {}
    BY <1>2, <2>1, <2>2 DEF Of
  <2>4. \A x : ~IsCopy(node', air', m, x)
    BY <2>3 DEF IsCopy
  <2>5. IsSingle(node', air', m)
    BY <2>3 DEF IsSingle, AtMostOne
  <2>6. Copies(m)' = {} /\ Single(m)'
    BY <2>4, <2>5, CopiesAre
  <2>7. OneCopyOf(m)'
    BY <1>9, <2>6 DEF OneCopyOf
  <2>8. Phase(m)' = "lost"
    BY <1>9, <1>11, <2>6 DEF Phase
  <2>9. QED
    BY <1>4, <2>7, <2>8 DEF Right, Moved
<1>12. CASE hears # {}
  <2> DEFINE k == f.to
             t == RouteInput(Step(k), p)
  <2>1. hears = {k} /\ k \in Node
    BY <1>7, <1>12
  <2>2. IsStep(Step(k)) /\ Step(k).at = k /\ Step(k).node = node[k] /\ Step(k).out = {}
    BY <1>1, <2>1, StartIsStep
  <2>3. Absent(Step(k), m)
    BY <1>2, <2>1, <2>2 DEF Absent, Of
  <2>4. /\ t.at = k /\ Of(t.node.queue, m) = {} /\ AtMostOne(Of(t.out, m))
        /\ \A o \in Of(t.out, m) : k # p.dst /\ p.ttl >= 2 /\ o.packet = next
    BY <1>7, <1>8, <2>2, <2>3, RouteInputPasses
  <2>5. /\ \A n \in Node : node'[n] = IF n = k THEN t.node ELSE node[n]
        /\ air' = (air \ {f}) \cup Transmitted(t)
    BY <1>7, <2>1
  <2>6. <<f.from, k>> \in Links
    BY <1>7, <1>10, <2>1
  <2>7. next.src = p.src /\ next.dst = p.dst /\ next.ttl = p.ttl - 1
    BY <1>7 DEF Packets
  <2> HIDE DEF k, t, next
  <2>8. \A n \in Node : Of(node'[n].queue, m) = {}
    BY <1>2, <2>4, <2>5
  <2>9. \A g \in Of(air', m) : \E o \in Of(t.out, m) :
          g = [from |-> k, to |-> o.to, packet |-> o.packet]
    <3>1. ASSUME NEW g \in Of(air', m)
          PROVE  \E o \in Of(t.out, m) : g = [from |-> k, to |-> o.to, packet |-> o.packet]
      <4>1. g \in Transmitted(t)
        BY <1>2, <2>5 DEF Of
      <4>2. PICK o \in t.out : g = [from |-> k, to |-> o.to, packet |-> o.packet]
        BY <2>4, <4>1 DEF Transmitted
      <4>3. QED
        BY <4>2 DEF Of
    <3>2. QED
      BY <3>1
  <2>10. IsSingle(node', air', m)
    <3>1. AtMostOne(Of(air', m))
      BY <2>4, <2>9 DEF AtMostOne
    <3>2. QED
      BY <2>8, <3>1 DEF IsSingle
  <2>11. \A x \in Copies(m)' : /\ x.at = k /\ x.packet = next
                               /\ k # p.dst /\ p.ttl >= 2
    <3>1. ASSUME NEW x, IsCopy(node', air', m, x)
          PROVE  x.at = k /\ x.packet = next /\ k # p.dst /\ p.ttl >= 2
      <4>1. PICK g \in Of(air', m) : x = [at |-> g.from, packet |-> g.packet]
        BY <2>8, <3>1 DEF IsCopy
      <4>2. PICK o \in Of(t.out, m) : g = [from |-> k, to |-> o.to, packet |-> o.packet]
        BY <2>9
      <4>3. QED
        BY <2>4, <4>1, <4>2
    <3>2. QED
      BY <3>1, CopiesAre
  <2>12. m \in delivered' <=> p.dst = k
    BY <1>9, <2>1
  <2>13. p.ttl >= 2 => next.ttl \in 1..DefaultTtl
    BY <1>4, <2>7, AodvAttributes
  <2>14. OneCopyOf(m)'
    BY <1>4, <1>9, <2>7, <2>10, <2>11, <2>12, <2>13, CopiesAre DEF OneCopyOf
  <2>15. CASE p.dst = k
    <3>1. Phase(m)' = "delivered"
      BY <1>9, <2>12, <2>15 DEF Phase
    <3>2. <<Copy(m).at, target[m]>> \in Links
      BY <1>4, <2>6, <2>15
    <3>3. QED
      BY <1>4, <2>14, <3>1, <3>2 DEF Right, Moved
  <2>16. CASE p.dst # k /\ Copies(m)' = {}
    <3>1. Phase(m)' = "lost"
      BY <1>9, <2>12, <2>16 DEF Phase
    <3>2. QED
      BY <1>4, <2>14, <3>1 DEF Right, Moved
  <2>17. CASE p.dst # k /\ Copies(m)' # {}
    <3>1. Phase(m)' = "moving"
      BY <1>9, <2>12, <2>17 DEF Phase
    <3>2. (CHOOSE x \in Copies(m)' : TRUE) \in Copies(m)'
      BY <2>17
    <3>3. Copy(m)' = [at |-> k, left |-> next.ttl]
      BY <2>11, <3>1, <3>2 DEF Copy
    <3>4. p.ttl >= 2 /\ p.ttl \in Nat
      BY <1>4, <2>11, <2>17
    <3>5. Copy(m).left > 1 /\ Copy(m)'.left = Copy(m).left - 1
      BY <1>4, <2>7, <3>3, <3>4
    <3>6. Copy(m)'.at \in Node /\ <<Copy(m).at, Copy(m)'.at>> \in Links
      BY <1>4, <2>1, <2>6, <3>3
    <3>7. QED
      BY <1>4, <2>14, <3>1, <3>5, <3>6 DEF Right, Moved
  <2>18. QED
    BY <2>15, <2>16, <2>17
<1>13. QED
  BY <1>11, <1>12

-----------------------------------------------------------------------------
(* Every step.                                                             *)

AllOne == \A m \in Message : OneCopyOf(m)

LEMMA NextIsRight ==
  ASSUME IInv, IInv', [Next]_vars, NEW m \in Message, OneCopyOf(m)
  PROVE  Right(m)
<1>1. Stations /\ Stations' /\ TypeOK
  BY DEF IInv
<1>2. ASSUME NEW k \in Message, SendData(k) PROVE Right(m)
  BY <1>2, SendDataIsRight
<1>3. ASSUME NEW f \in air, TxError(f) PROVE Right(m)
  <2> DEFINE n == f.from
             u == CloseNeighbor(Step(n), f.to)
  <2>1. n \in Node
    BY <1>1 DEF Stations
  <2>2. /\ Take(u, air \ {f}) /\ air \ {f} \subseteq air
        /\ unsent' = unsent /\ delivered' = delivered
    BY <1>3 DEF TxError
  <2>3. Kept(Step(n), u, m)
    BY <1>1, <2>1, StartIsStep, CloseNeighborKept
  <2> HIDE DEF n, u
  <2>4. QED
    BY <1>1, <2>1, <2>2, <2>3, TakeIsRight
<1>4. ASSUME NEW f \in air, NEW lost \in SUBSET Node, Receive(f, lost) PROVE Right(m)
  <2>1. CASE f.packet.body = Data(m)
    BY <1>4, <2>1, ReceiveOwnIsRight
  <2>2. CASE f.packet.body # Data(m)
    BY <1>4, <2>2, ReceiveOtherIsRight
  <2>3. QED
    BY <2>1, <2>2
<1>5. ASSUME NEW n \in Node, SendHello(n) PROVE Right(m)
  <2> DEFINE b == Rrep(n, node[n].seqNo, n, 0, FALSE)
             u == Broadcast(Step(n), 1, b)
  <2>1. Take(u, air) /\ air \subseteq air /\ unsent' = unsent /\ delivered' = delivered
    BY <1>5 DEF SendHello
  <2>2. b # Data(m)
    BY DEF Rrep, Data
  <2> HIDE DEF b
  <2>3. Kept(Step(n), u, m)
    BY <1>1, <2>2, StartIsStep, BroadcastKept
  <2> HIDE DEF u
  <2>4. QED
    BY <1>1, <2>1, <2>3, TakeIsRight
<1>6. ASSUME NEW n \in Node, RateLimitTimer(n) PROVE Right(m)
  <2>1. \A k \in Node : node'[k].queue \subseteq node[k].queue
    BY <1>1, <1>6 DEF RateLimitTimer, Stations, NodeState
  <2>2. air' \subseteq air /\ unsent' = unsent /\ delivered' = delivered
    BY <1>6 DEF RateLimitTimer
  <2>3. QED
    BY <1>1, <2>1, <2>2, ShrinkIsRight
<1>7. ASSUME NEW n \in Node, QueueTimeout(n) PROVE Right(m)
  <2>1. \A k \in Node : node'[k].queue \subseteq node[k].queue
    BY <1>1, <1>7 DEF QueueTimeout, Stations, NodeState
  <2>2. air' \subseteq air /\ unsent' = unsent /\ delivered' = delivered
    BY <1>7 DEF QueueTimeout
  <2>3. QED
    BY <1>1, <2>1, <2>2, ShrinkIsRight
<1>8. ASSUME NEW n \in Node, NEW d \in Node, RetryTimer(n, d) PROVE Right(m)
  <2> DEFINE u == RouteRequestTimerExpire(Step(n), d)
  <2>1. Take(u, air) /\ air \subseteq air /\ unsent' = unsent /\ delivered' = delivered
    BY <1>8 DEF RetryTimer
  <2>2. Kept(Step(n), u, m)
    BY <1>1, StartIsStep, RouteRequestTimerExpireKept
  <2> HIDE DEF u
  <2>3. QED
    BY <1>1, <2>1, <2>2, TakeIsRight
<1>9. ASSUME NEW n \in Node, NEW d \in Node, DelayedRequest(n, d) PROVE Right(m)
  <2> DEFINE s == Step(n)
             delayed == [s.node.delayed EXCEPT ![d] = @ - 1]
             v == [Step(n) EXCEPT !.node.delayed[d] = @ - 1]
             u == SendRequest(v, d)
  <2>1. Take(u, air) /\ air \subseteq air /\ unsent' = unsent /\ delivered' = delivered
    BY <1>9 DEF DelayedRequest
  <2>2. v = [s EXCEPT !.node.delayed = delayed]
    OBVIOUS
  <2> HIDE DEF delayed, v
  <2>3. IsStep(s)
    BY <1>1, StartIsStep
  <2> HIDE DEF s
  <2>4. v.at = s.at /\ v.out = s.out /\ v.node.queue = s.node.queue /\ IsStep(v)
    BY <2>2, <2>3 DEF IsStep
  <2>5. Kept(s, v, m) /\ Kept(v, u, m)
    BY <2>4, SideKept, SendRequestKept
  <2> HIDE DEF u
  <2>6. Kept(Step(n), u, m)
    BY <2>5, KeptOn DEF s
  <2>7. QED
    BY <1>1, <2>1, <2>6, TakeIsRight
<1>10. ASSUME NEW n \in Node, NEW d \in Node, RouteExpires(n, d) PROVE Right(m)
  <2>1. \A k \in Node : node'[k].queue \subseteq node[k].queue
    BY <1>1, <1>10 DEF RouteExpires, Stations, NodeState
  <2>2. air' \subseteq air /\ unsent' = unsent /\ delivered' = delivered
    BY <1>10 DEF RouteExpires
  <2>3. QED
    BY <1>1, <2>1, <2>2, ShrinkIsRight
<1>11. ASSUME NEW n \in Node, NEW d \in Node, LinkBreaks(n, d) PROVE Right(m)
  <2>1. \A k \in Node : node'[k].queue \subseteq node[k].queue
    BY <1>11 DEF LinkBreaks
  <2>2. air' \subseteq air /\ unsent' = unsent /\ delivered' = delivered
    BY <1>11 DEF LinkBreaks
  <2>3. QED
    BY <1>1, <2>1, <2>2, ShrinkIsRight
<1>12. ASSUME NEW n \in Node, NEW d \in Node, NeighborTimeout(n, d) PROVE Right(m)
  <2> DEFINE u == CloseNeighbor(Step(n), d)
  <2>1. Take(u, air) /\ air \subseteq air /\ unsent' = unsent /\ delivered' = delivered
    BY <1>12 DEF NeighborTimeout
  <2>2. Kept(Step(n), u, m)
    BY <1>1, StartIsStep, CloseNeighborKept
  <2> HIDE DEF u
  <2>3. QED
    BY <1>1, <2>1, <2>2, TakeIsRight
<1>13. CASE UNCHANGED vars
  <2>1. \A k \in Node : node'[k].queue \subseteq node[k].queue
    BY <1>13 DEF vars
  <2>2. air' \subseteq air /\ unsent' = unsent /\ delivered' = delivered
    BY <1>13 DEF vars
  <2>3. QED
    BY <1>1, <2>1, <2>2, ShrinkIsRight
<1>14. QED
  BY <1>2, <1>3, <1>4, <1>5, <1>6, <1>7, <1>8, <1>9, <1>10, <1>11, <1>12, <1>13 DEF Next

-----------------------------------------------------------------------------
(* The service.                                                            *)

LEMMA InitAllOne == Init => AllOne
<1> SUFFICES ASSUME Init, NEW m \in Message PROVE OneCopyOf(m)
  BY DEF AllOne
<1>1. \A n \in Node : node[n].queue = {}
  BY DEF Init, NewNode
<1>2. \A c : ~IsCopy(node, air, m, c)
  BY <1>1 DEF IsCopy, Of, Init
<1>3. IsSingle(node, air, m)
  BY <1>1 DEF IsSingle, Of, Init, AtMostOne
<1>4. Copies(m) = {} /\ Single(m)
  BY <1>2, <1>3, CopiesAre
<1>5. QED
  BY <1>4 DEF OneCopyOf, Init

LEMMA NextAllOne == IInv /\ IInv' /\ AllOne /\ [Next]_vars => AllOne'
<1> SUFFICES ASSUME IInv, IInv', AllOne, [Next]_vars, NEW m \in Message
             PROVE  OneCopyOf(m)'
  BY DEF AllOne
<1>1. OneCopyOf(m)
  BY DEF AllOne
<1>2. QED
  BY <1>1, NextIsRight DEF Right

LEMMA InductiveAllOne == Spec => []AllOne
BY InitAllOne, NextAllOne, Inductive, PTL DEF Spec

\* No packet is ever doubled or comes back: at any time it is in one queue or in one frame,
\* the way its source gave it away but for the hops it has left, or nowhere.
THEOREM PacketsAreNotDoubled == Spec => []OneCopy
<1>1. AllOne => OneCopy
  BY DEF AllOne, OneCopyOf, Single, OneCopy
<1>2. QED
  BY <1>1, InductiveAllOne, PTL

LEMMA InitService == Init => Service!Init
<1> SUFFICES ASSUME Init PROVE Service!Init
  OBVIOUS
<1>1. ASSUME NEW m \in Message
      PROVE  Phase(m) = "unsent" /\ Copy(m) = [at |-> source[m], left |-> DefaultTtl]
  <2>1. OneCopyOf(m) /\ m \in unsent
    BY InitAllOne DEF AllOne, Init
  <2>2. QED
    BY <2>1, PhaseIs
<1>2. QED
  BY <1>1 DEF Service!Init

LEMMA NextService ==
  IInv /\ IInv' /\ AllOne /\ [Next]_vars => [Service!Next]_Service!vars
<1> SUFFICES ASSUME IInv, IInv', AllOne, [Next]_vars PROVE Service!Next
  OBVIOUS
<1>1. ASSUME NEW m \in Message PROVE Moved(m)
  <2>1. OneCopyOf(m)
    BY DEF AllOne
  <2>2. QED
    BY <2>1, NextIsRight DEF Right
<1>2. ASSUME NEW m \in Message
      PROVE  Service!Send(m) \/ Service!Forward(m) \/ Service!Deliver(m) \/ Service!Lose(m)
               \/ Service!Rests(m)
  BY <1>1 DEF Moved, Service!Send, Service!Forward, Service!Deliver, Service!Lose,
              Service!Rests, Service!Moves, Service!Stays
<1>3. QED
  BY <1>2 DEF Service!Next

\* A network of AODV stations is a delivery service. Whatever is lost, late or given up and
\* wherever the routes lead, even in a circle, a packet passes from one neighbour to the
\* next, at most DefaultTtl times, and reaches its own target at most once.
THEOREM NetworkDelivers == Spec => ImplementsDelivery
BY InitService, NextService, Inductive, InductiveAllOne, PTL DEF Spec, ImplementsDelivery, Service!Spec
=============================================================================
