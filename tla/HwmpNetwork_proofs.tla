------------------------- MODULE HwmpNetwork_proofs -------------------------
(***************************************************************************)
(* Proofs about HwmpNetwork, for every mesh, every set of messages, every  *)
(* setting of the attributes and any number of faults.                     *)
(*                                                                         *)
(* A handler maps a step to a step. What holds of a step before a handler  *)
(* holds after it (Good), given the links of the step's own mesh point; so *)
(* each handler has a lemma that says this of it, and cites those of the   *)
(* handlers that it calls. A second set of lemmas (Kept) says what a       *)
(* handler does to the copies of a message, and leads to the theorem that  *)
(* the mesh implements Delivery.                                           *)
(***************************************************************************)
EXTENDS HwmpNetwork, SequenceTheorems, FiniteSetTheorems, WellFoundedInduction, TLAPS

\* Only requests go to all.
Sent == [to: Node, packet: Packets] \cup [to: {All}, packet: PreqFrames]

Steps == [at: Node, node: NodeState, out: SUBSET Sent]

\* The paths of n lead over links; an active one leads somewhere, and the root is known.
Leading(t, n, links) ==
  /\ \A d \in Node : /\ t.paths[d].active => t.paths[d].next # None
                     /\ t.paths[d].next # None => <<n, t.paths[d].next>> \in links
  /\ t.root.active => t.root.next # None
  /\ t.root.next # None => t.root.root # None /\ <<n, t.root.next>> \in links

\* No active path of t reaches d.
Unreached(t, d) == ~t.paths[d].active /\ ~t.root.active

\* What waits in the queue has a timer and no path.
Waits(state) ==
  \A p \in state.queue : state.timers[p.dst] # 0 /\ Unreached(state.rt, p.dst)

Good(s, links) ==
  /\ s \in Steps
  /\ Leading(s.node.rt, s.at, links)
  /\ Waits(s.node)

\* The handler has taken s to t.
Leads(s, t, links) == t.at = s.at /\ Good(t, links)

\* Nothing has changed that Good speaks of.
Beside(s, t) ==
  /\ t \in Steps /\ t.at = s.at
  /\ t.node.rt = s.node.rt /\ t.node.queue = s.node.queue /\ t.node.timers = s.node.timers

-----------------------------------------------------------------------------
(* Steps that change neither the table nor what waits.                     *)

LEMMA BesideGood ==
  ASSUME NEW links, NEW s, NEW t, Good(s, links), Beside(s, t)
  PROVE  Leads(s, t, links)
BY DEF Good, Beside, Leads, Waits

LEMMA BesideOn ==
  ASSUME NEW s, NEW t, NEW u, Beside(s, t), Beside(t, u)
  PROVE  Beside(s, u)
BY DEF Beside

LEMMA BesideBack ==
  ASSUME NEW s \in Steps
  PROVE  Beside(s, s)
BY DEF Beside

\* Frames leave.
LEMMA OutFacts ==
  ASSUME NEW s \in Steps, NEW frames \in SUBSET Sent
  PROVE  Beside(s, [s EXCEPT !.out = @ \cup frames])
BY DEF Beside, Steps

LEMMA EmitFacts ==
  ASSUME NEW s \in Steps, NEW to \in Node, NEW p \in Packets
  PROVE  Beside(s, Emit(s, to, p))
<1>1. {[to |-> to, packet |-> p]} \in SUBSET Sent
  BY DEF Sent
<1>2. QED
  BY <1>1, OutFacts DEF Emit

LEMMA NextSeqNoFacts ==
  ASSUME NEW s \in Steps
  PROVE  Beside(s, NextSeqNo(s)) /\ NextSeqNo(s).node.seqNo \in Nat
<1> DEFINE u == NextSeqNo(s)
<1>1. /\ u.at = s.at /\ u.node.rt = s.node.rt /\ u.node.queue = s.node.queue
      /\ u.node.timers = s.node.timers /\ u.node.seqNo = s.node.seqNo + 1
  BY DEF NextSeqNo, Steps, NodeState
<1>2. s.node.seqNo + 1 \in Nat
  BY DEF Steps, NodeState
<1>3. u \in Steps
  BY <1>2 DEF NextSeqNo, Steps, NodeState
<1> HIDE DEF u
<1>4. QED
  BY <1>1, <1>2, <1>3 DEF Beside, u

\* The number and the metric that were heard of a mesh point.
LEMMA HeardFacts ==
  ASSUME NEW s \in Steps, NEW d \in Node, NEW seqNo \in Nat, NEW metric \in Nat
  PROVE  Beside(s, [s EXCEPT !.node.heard[d] = [seqNo |-> seqNo, metric |-> metric]])
<1> DEFINE h == [s.node.heard EXCEPT ![d] = [seqNo |-> seqNo, metric |-> metric]]
           u == [s EXCEPT !.node.heard = h]
<1>1. h \in [Node -> [seqNo: Nat, metric: Nat]]
  BY DEF Steps, NodeState
<1>2. [s EXCEPT !.node.heard[d] = [seqNo |-> seqNo, metric |-> metric]] = u
  BY DEF Steps, NodeState
<1> HIDE DEF h
<1>3. u \in Steps
  BY <1>1 DEF Steps, NodeState
<1>4. /\ u.at = s.at /\ u.node.rt = s.node.rt /\ u.node.queue = s.node.queue
      /\ u.node.timers = s.node.timers
  BY DEF Steps, NodeState
<1> HIDE DEF u
<1>5. QED
  BY <1>2, <1>3, <1>4 DEF Beside

-----------------------------------------------------------------------------
(* Requests and errors wait for their rate limits.                         *)

LEMMA SendPreqFacts ==
  ASSUME NEW s \in Steps, NEW list \in Seq(Requests)
  PROVE  Beside(s, SendPreq(s, list))
<1>1. Preqs(list) \in PreqFrames
  BY DEF Preqs, PreqFrames
<1>2. {[to |-> All, packet |-> Preqs(list)]} \in SUBSET Sent
  BY <1>1 DEF Sent
<1>3. QED
  BY <1>2, OutFacts DEF SendPreq, Emit

LEMMA SendMyPreqFacts ==
  ASSUME NEW s \in Steps
  PROVE  Beside(s, SendMyPreq(s))
<1> DEFINE u == [s EXCEPT !.node.preqTimer = TRUE, !.node.myPreq = <<>>]
<1>1. CASE s.node.preqTimer \/ s.node.myPreq = <<>>
  BY <1>1, BesideBack DEF SendMyPreq
<1>2. CASE ~(s.node.preqTimer \/ s.node.myPreq = <<>>)
  <2>1. SendMyPreq(s) = SendPreq(u, s.node.myPreq)
    BY <1>2 DEF SendMyPreq
  <2>2. s.node.myPreq \in Seq(Requests) /\ <<>> \in Seq(Requests)
    BY DEF Steps, NodeState
  <2>3. u = [s EXCEPT !.node = [s.node EXCEPT !.preqTimer = TRUE, !.myPreq = <<>>]]
    BY DEF Steps, NodeState
  <2>4. u \in Steps
    BY <2>2, <2>3 DEF Steps, NodeState
  <2>5. /\ u.at = s.at /\ u.node.rt = s.node.rt /\ u.node.queue = s.node.queue
        /\ u.node.timers = s.node.timers
    BY DEF Steps, NodeState
  <2> HIDE DEF u
  <2>6. Beside(s, u)
    BY <2>4, <2>5 DEF Beside
  <2>7. Beside(u, SendPreq(u, s.node.myPreq))
    BY <2>2, <2>4, SendPreqFacts
  <2>8. QED
    BY <2>1, <2>6, <2>7, BesideOn
<1>3. QED
  BY <1>1, <1>2

\* A destination of a request has its type, whatever its flags.
LEMMA WantedType ==
  ASSUME NEW d \in Node \cup {All}, NEW seqNo \in Nat, NEW do \in BOOLEAN, NEW rf \in BOOLEAN
  PROVE  {Wanted(d, seqNo, do, rf)} \in SUBSET Asked
BY DEF Wanted, Asked

\* So has one that has been answered and is passed on.
LEMMA PassOnType ==
  ASSUME NEW S \in SUBSET Asked
  PROVE  PassOn(S) \in SUBSET Asked
<1>1. ASSUME NEW e \in S PROVE [e EXCEPT !.do = TRUE, !.rf = FALSE] \in Asked
  <2>1. e \in [dst: Node \cup {All}, seqNo: Nat, do: BOOLEAN, rf: BOOLEAN]
    BY <1>1 DEF Asked
  <2>2. QED
    BY <2>1 DEF Asked
<1>2. QED
  BY <1>1 DEF PassOn

LEMMA AskAlsoType ==
  ASSUME NEW q \in Requests, NEW d \in Node, NEW seqNo \in Nat
  PROVE  AskAlso(q, d, seqNo) \in Requests
<1> DEFINE new == {Wanted(d, seqNo, DoFlag, RfFlag)}
<1>1. new \in SUBSET Asked
  BY WantedType, HwmpAttributes
<1>2. AskAlso(q, d, seqNo) \in {q, [q EXCEPT !.dests = @ \cup new]}
  BY DEF AskAlso
<1> HIDE DEF new
<1>3. q.dests \cup new \in SUBSET Asked
  BY <1>1 DEF Requests
<1>4. QED
  BY <1>2, <1>3 DEF Requests

LEMMA RequestDestinationFacts ==
  ASSUME NEW s \in Steps, NEW d \in Node, NEW dstSeqNo \in Nat
  PROVE  Beside(s, RequestDestination(s, d, dstSeqNo))
<1> DEFINE new == [orig |-> s.at, seqNo |-> s.node.seqNo, metric |-> 0, ttl |-> MaxTtl,
                   dests |-> {Wanted(d, dstSeqNo, DoFlag, RfFlag)}]
           old == s.node.myPreq
           Ask(q) == AskAlso(q, d, dstSeqNo)
           more == [i \in DOMAIN old |-> Ask(old[i])]
           list == Append(more, new)
           u == [s EXCEPT !.node.myPreq = list]
<1>1. RequestDestination(s, d, dstSeqNo) = SendMyPreq(u)
  BY DEF RequestDestination
<1>2. new \in Requests
  <2>1. MaxTtl \in 0..MaxTtl
    BY HwmpAttributes
  <2>2. {Wanted(d, dstSeqNo, DoFlag, RfFlag)} \in SUBSET Asked
    BY WantedType, HwmpAttributes
  <2>3. s.at \in Node /\ s.node.seqNo \in Nat /\ 0 \in Nat
    BY DEF Steps, NodeState
  <2>4. QED
    BY <2>1, <2>2, <2>3 DEF Requests
<1>3. old \in Seq(Requests)
  BY DEF Steps, NodeState
<1>4. more \in Seq(Requests)
  <2>1. Len(old) \in Nat /\ DOMAIN old = 1..Len(old)
    BY <1>3
  <2>2. \A i \in 1..Len(old) : old[i] \in Requests
    BY <1>3
  <2>3. \A i \in 1..Len(old) : Ask(old[i]) \in Requests
    BY <2>2, AskAlsoType
  <2> HIDE DEF Ask, old
  <2>4. more \in [1..Len(old) -> Requests]
    BY <2>1, <2>3
  <2>5. QED
    BY <2>1, <2>4, SeqDef
<1> HIDE DEF more, new
<1>5. list \in Seq(Requests)
  BY <1>2, <1>4
<1> HIDE DEF list
<1>6. u \in Steps
  BY <1>5 DEF Steps, NodeState
<1>7. /\ u.at = s.at /\ u.node.rt = s.node.rt /\ u.node.queue = s.node.queue
      /\ u.node.timers = s.node.timers
  BY DEF Steps, NodeState
<1> HIDE DEF u
<1>8. Beside(s, u)
  BY <1>6, <1>7 DEF Beside
<1>9. QED
  BY <1>1, <1>6, <1>8, SendMyPreqFacts, BesideOn

LEMMA ForwardPerrFacts ==
  ASSUME NEW s \in Steps, NEW receivers \in SUBSET Node, NEW failed \in SUBSET Failed
  PROVE  Beside(s, ForwardPerr(s, receivers, failed))
<1> DEFINE frames == {[to |-> m, packet |-> Perr(failed)] : m \in receivers}
<1>1. Perr(failed) \in Packets
  BY DEF Perr, Packets, PerrFrames
<1>2. frames \in SUBSET Sent
  BY <1>1 DEF Sent
<1>3. ForwardPerr(s, receivers, failed) = [s EXCEPT !.out = @ \cup frames]
  BY DEF ForwardPerr
<1> HIDE DEF frames
<1>4. QED
  BY <1>2, <1>3, OutFacts

LEMMA SendMyPerrFacts ==
  ASSUME NEW s \in Steps
  PROVE  Beside(s, SendMyPerr(s))
<1> DEFINE state == [s.node EXCEPT !.perrTimer = TRUE, !.failed = {}, !.receivers = {}]
           u == [s EXCEPT !.node.perrTimer = TRUE, !.node.failed = {}, !.node.receivers = {}]
<1>1. s.node.receivers \in SUBSET Node /\ s.node.failed \in SUBSET Failed
  BY DEF Steps, NodeState
<1>2. u = [s EXCEPT !.node = state]
  BY DEF Steps, NodeState
<1>3. u \in Steps
  BY <1>2 DEF Steps, NodeState
<1>4. /\ u.at = s.at /\ u.node.rt = s.node.rt /\ u.node.queue = s.node.queue
      /\ u.node.timers = s.node.timers
  BY DEF Steps, NodeState
<1>5. SendMyPerr(s) = ForwardPerr(u, s.node.receivers, s.node.failed)
  BY DEF SendMyPerr
<1> HIDE DEF u
<1>6. Beside(s, u)
  BY <1>3, <1>4 DEF Beside
<1>7. QED
  BY <1>1, <1>3, <1>5, <1>6, ForwardPerrFacts, BesideOn

LEMMA InitiatePerrFacts ==
  ASSUME NEW s \in Steps, NEW e, e.receivers \in SUBSET Node, e.failed \in SUBSET Failed
  PROVE  Beside(s, InitiatePerr(s, e))
<1> DEFINE news == {f \in e.failed :
                      \A g \in s.node.failed : g.dst = f.dst => g.seqNo <= f.seqNo}
           receivers == s.node.receivers \cup e.receivers
           failed == s.node.failed \cup news
           t == [s EXCEPT !.node.receivers = @ \cup e.receivers,
                          !.node.failed = @ \cup news]
<1>1. InitiatePerr(s, e) = IF s.node.perrTimer THEN t ELSE SendMyPerr(t)
  BY DEF InitiatePerr
<1>2. receivers \in SUBSET Node /\ failed \in SUBSET Failed
  BY DEF Steps, NodeState
<1> HIDE DEF news
<1>3. t = [s EXCEPT !.node = [s.node EXCEPT !.receivers = receivers, !.failed = failed]]
  BY DEF Steps, NodeState
<1> HIDE DEF t, receivers, failed
<1>4. t \in Steps
  BY <1>2, <1>3 DEF Steps, NodeState
<1>5. /\ t.at = s.at /\ t.node.rt = s.node.rt /\ t.node.queue = s.node.queue
      /\ t.node.timers = s.node.timers
  BY <1>3 DEF Steps, NodeState
<1>6. Beside(s, t)
  BY <1>4, <1>5 DEF Beside
<1>7. QED
  BY <1>1, <1>4, <1>6, SendMyPerrFacts, BesideOn

-----------------------------------------------------------------------------
(* What the table operations make of a table.                              *)

SamePaths(t, u) ==
  /\ u.root = t.root
  /\ \A d \in Node : u.paths[d].next = t.paths[d].next /\ u.paths[d].active = t.paths[d].active

FewerPaths(t, u) ==
  /\ u.root \in {t.root, NoRoot}
  /\ \A d \in Node : u.paths[d] \in {t.paths[d], NoPath}

LEMMA TableParts ==
  ASSUME NEW t \in Table, NEW d \in Node
  PROVE  /\ t.paths[d] \in Paths /\ t.paths[d].next \in Node \cup {None}
         /\ t.paths[d].metric \in Nat /\ t.paths[d].seqNo \in Nat
         /\ t.paths[d].active \in BOOLEAN /\ t.paths[d].precursors \subseteq Node
BY DEF Table, Paths

LEMMA RaiseNumbersFacts ==
  ASSUME NEW t \in Table, NEW m
  PROVE  RaiseNumbers(t, m) \in Table /\ SamePaths(t, RaiseNumbers(t, m))
<1> DEFINE new(d) == IF t.paths[d].next = m THEN [t.paths[d] EXCEPT !.seqNo = @ + 1]
                     ELSE t.paths[d]
           paths == [d \in Node |-> new(d)]
           u == [t EXCEPT !.paths = paths]
<1>1. ASSUME NEW d \in Node
      PROVE  /\ new(d) \in Paths
             /\ new(d).next = t.paths[d].next /\ new(d).active = t.paths[d].active
  <2>1. t.paths[d] \in Paths /\ t.paths[d].seqNo + 1 \in Nat
    BY TableParts
  <2>2. QED
    BY <2>1 DEF Paths
<1>2. RaiseNumbers(t, m) = u
  BY DEF RaiseNumbers
<1> HIDE DEF new
<1>3. paths \in [Node -> Paths]
  BY <1>1
<1>4. /\ \A d \in Node : /\ paths[d].next = t.paths[d].next
                         /\ paths[d].active = t.paths[d].active
  BY <1>1
<1> HIDE DEF paths
<1>5. u \in Table /\ u.paths = paths /\ u.root = t.root
  BY <1>3 DEF Table
<1> HIDE DEF u
<1>6. QED
  BY <1>2, <1>4, <1>5 DEF SamePaths

LEMMA AddPrecursorsFacts ==
  ASSUME NEW t \in Table, NEW dsts, NEW m \in Node
  PROVE  AddPrecursors(t, dsts, m) \in Table /\ SamePaths(t, AddPrecursors(t, dsts, m))
<1> DEFINE new(d) == IF d \in dsts /\ t.paths[d].next # None
                     THEN [t.paths[d] EXCEPT !.precursors = @ \cup {m}] ELSE t.paths[d]
           paths == [d \in Node |-> new(d)]
           u == [t EXCEPT !.paths = paths]
<1>1. ASSUME NEW d \in Node
      PROVE  /\ new(d) \in Paths
             /\ new(d).next = t.paths[d].next /\ new(d).active = t.paths[d].active
  <2>1. t.paths[d] \in Paths /\ t.paths[d].precursors \cup {m} \subseteq Node
    BY TableParts
  <2>2. QED
    BY <2>1 DEF Paths
<1>2. AddPrecursors(t, dsts, m) = u
  BY DEF AddPrecursors
<1> HIDE DEF new
<1>3. paths \in [Node -> Paths]
  BY <1>1
<1>4. /\ \A d \in Node : /\ paths[d].next = t.paths[d].next
                         /\ paths[d].active = t.paths[d].active
  BY <1>1
<1> HIDE DEF paths
<1>5. u \in Table /\ u.paths = paths /\ u.root = t.root
  BY <1>3 DEF Table
<1> HIDE DEF u
<1>6. QED
  BY <1>2, <1>4, <1>5 DEF SamePaths

LEMMA NothingIsType == NoPath \in Paths /\ NoRoot \in Roots
<1>1. 0 \in Nat /\ FALSE \in BOOLEAN /\ {} \in SUBSET Node
  OBVIOUS
<1>2. QED
  BY <1>1 DEF NoPath, NoRoot, Paths, Roots

LEMMA WithoutPathsFacts ==
  ASSUME NEW t \in Table, NEW dsts
  PROVE  LET u == WithoutPaths(t, dsts)
         IN  /\ u \in Table /\ FewerPaths(t, u)
             /\ \A d \in Node : d \in dsts => u.paths[d] = NoPath
             /\ t.root.root \in dsts => u.root = NoRoot
<1> DEFINE paths == [d \in Node |-> IF d \in dsts THEN NoPath ELSE t.paths[d]]
           root == IF t.root.root \in dsts THEN NoRoot ELSE t.root
           v == [t EXCEPT !.paths = paths]
           u == WithoutPaths(t, dsts)
<1>1. v = DeleteReactivePaths(t, dsts) /\ v.root = t.root
  BY DEF DeleteReactivePaths, Table
<1>2. u = [v EXCEPT !.root = root]
  BY <1>1 DEF WithoutPaths, DeleteProactivePaths
<1>3. paths \in [Node -> Paths] /\ root \in Roots
  BY TableParts, NothingIsType DEF Table
<1>4. \A d \in Node : paths[d] \in {t.paths[d], NoPath} /\ (d \in dsts => paths[d] = NoPath)
  OBVIOUS
<1>5. root \in {t.root, NoRoot} /\ (t.root.root \in dsts => root = NoRoot)
  OBVIOUS
<1> HIDE DEF paths, root
<1>6. u \in Table /\ u.paths = paths /\ u.root = root
  BY <1>2, <1>3 DEF Table
<1> HIDE DEF u
<1>7. QED
  BY <1>4, <1>5, <1>6 DEF FewerPaths, u

LEMMA PurgeRootFacts ==
  ASSUME NEW t \in Table
  PROVE  /\ PurgeRoot(t) \in Table /\ FewerPaths(t, PurgeRoot(t))
         /\ PurgeRoot(t).paths = t.paths
         /\ PurgeRoot(t).root.active <=> t.root.active
BY NothingIsType DEF PurgeRoot, Table, FewerPaths, NoRoot, Roots

-----------------------------------------------------------------------------
(* Steps that change the table.                                            *)

\* The paths still lead over links, and no packet waits beside a path.
LEMMA TableGood ==
  ASSUME NEW links, NEW s, Good(s, links), NEW t \in Table, Leading(t, s.at, links),
         \A p \in s.node.queue : Unreached(t, p.dst)
  PROVE  /\ Leads(s, WithTable(s, t), links)
         /\ WithTable(s, t).node.rt = t /\ WithTable(s, t).at = s.at
         /\ WithTable(s, t).node.queue = s.node.queue
         /\ WithTable(s, t).node.timers = s.node.timers
<1> DEFINE u == WithTable(s, t)
<1>1. s \in Steps /\ Waits(s.node)
  BY DEF Good
<1>2. u \in Steps
  BY <1>1 DEF WithTable, Steps, NodeState
<1>3. /\ u.node.rt = t /\ u.at = s.at /\ u.node.queue = s.node.queue
      /\ u.node.timers = s.node.timers
  BY <1>1 DEF WithTable, Steps, NodeState
<1> HIDE DEF u
<1>4. Waits(u.node)
  BY <1>1, <1>3 DEF Waits
<1>5. QED
  BY <1>2, <1>3, <1>4 DEF Leads, Good, u

LEMMA GoodParts ==
  ASSUME NEW links, NEW s, Good(s, links)
  PROVE  /\ s \in Steps /\ s.at \in Node /\ s.node.rt \in Table /\ s.node.seqNo \in Nat
         /\ s.node.timers \in [Node -> 0..(MaxRetries + 1)]
         /\ \A p \in s.node.queue : p \in Packets /\ p.dst \in Node
BY DEF Good, Steps, NodeState, Packets, Datas

LEMMA SamePathsGood ==
  ASSUME NEW links, NEW s, Good(s, links), NEW t \in Table, SamePaths(s.node.rt, t)
  PROVE  Leads(s, WithTable(s, t), links) /\ WithTable(s, t).node.rt = t
<1>1. Leading(t, s.at, links)
  BY DEF Good, Leading, SamePaths
<1>2. \A p \in s.node.queue : p.dst \in Node /\ Unreached(s.node.rt, p.dst)
  BY GoodParts DEF Good, Waits
<1>3. \A p \in s.node.queue : Unreached(t, p.dst)
  BY <1>2 DEF SamePaths, Unreached
<1>4. QED
  BY <1>1, <1>3, TableGood

LEMMA FewerPathsGood ==
  ASSUME NEW links, NEW s, Good(s, links), NEW t \in Table, FewerPaths(s.node.rt, t)
  PROVE  Leads(s, WithTable(s, t), links) /\ WithTable(s, t).node.rt = t
<1>1. Leading(t, s.at, links)
  <2>1. \A d \in Node : ~NoPath.active /\ NoPath.next = None
    BY DEF NoPath
  <2>2. ~NoRoot.active /\ NoRoot.next = None
    BY DEF NoRoot
  <2>3. QED
    BY <2>1, <2>2 DEF Good, Leading, FewerPaths
<1>2. \A p \in s.node.queue : p.dst \in Node /\ Unreached(s.node.rt, p.dst)
  BY GoodParts DEF Good, Waits
<1>3. \A p \in s.node.queue : Unreached(t, p.dst)
  <2>1. ~NoPath.active /\ ~NoRoot.active
    BY DEF NoPath, NoRoot
  <2>2. QED
    BY <1>2, <2>1 DEF FewerPaths, Unreached
<1>4. QED
  BY <1>1, <1>3, TableGood

LEMMA LeadsOn ==
  ASSUME NEW links, NEW s, NEW t, NEW u, Leads(s, t, links), Leads(t, u, links)
  PROVE  Leads(s, u, links)
BY DEF Leads

LEMMA LeadsBack ==
  ASSUME NEW links, NEW s, Good(s, links)
  PROVE  Leads(s, s, links)
BY DEF Leads

-----------------------------------------------------------------------------
(* Path errors.                                                            *)

LEMMA MakePathErrorGood ==
  ASSUME NEW links, NEW s, Good(s, links), NEW failed \in SUBSET Failed
  PROVE  LET e == MakePathError(s, failed)
         IN  /\ Leads(s, e.step, links)
             /\ e.receivers \in SUBSET Node /\ e.failed \in SUBSET Failed
             /\ FewerPaths(s.node.rt, e.step.node.rt)
             /\ \A f \in failed : e.step.node.rt.paths[f.dst] = NoPath
             /\ (\E f \in failed : f.dst = s.node.rt.root.root) => e.step.node.rt.root = NoRoot
<1> DEFINE dsts == {f.dst : f \in failed}
           t == WithoutPaths(s.node.rt, dsts)
           e == MakePathError(s, failed)
<1>1. s.node.rt \in Table
  BY GoodParts
<1>2. /\ t \in Table /\ FewerPaths(s.node.rt, t)
      /\ \A d \in Node : d \in dsts => t.paths[d] = NoPath
      /\ s.node.rt.root.root \in dsts => t.root = NoRoot
  BY <1>1, WithoutPathsFacts
<1>3. dsts \subseteq Node
  BY DEF Failed
<1>4. PerrReceivers(s.node.rt, dsts) \in SUBSET Node
  <2>1. \A d \in dsts : s.node.rt.paths[d].precursors \subseteq Node
    BY <1>1, <1>3, TableParts
  <2>2. QED
    BY <2>1 DEF PerrReceivers
<1>5. /\ e.step = WithTable(s, t) /\ e.receivers = PerrReceivers(s.node.rt, dsts)
      /\ e.failed \in {{}, failed}
  BY DEF MakePathError
<1> HIDE DEF t, e
<1>6. Leads(s, WithTable(s, t), links) /\ WithTable(s, t).node.rt = t
  BY <1>2, FewerPathsGood
<1>7. \A f \in failed : t.paths[f.dst] = NoPath
  BY <1>2, <1>3
<1>8. (\E f \in failed : f.dst = s.node.rt.root.root) => t.root = NoRoot
  BY <1>2
<1>9. QED
  BY <1>2, <1>4, <1>5, <1>6, <1>7, <1>8 DEF e

\* Afterwards no path leads via m.
LEMMA PathsFailGood ==
  ASSUME NEW links, NEW s, Good(s, links), NEW m \in Node
  PROVE  LET u == PathsFail(s, m)
         IN  /\ Leads(s, u, links)
             /\ u.node.rt.root.next # m
             /\ \A d \in Node : u.node.rt.paths[d].next # m
<1> DEFINE r == RaiseNumbers(s.node.rt, m)
           t == WithTable(s, r)
           failed == UnreachableDestinations(r, m)
           e == MakePathError(t, failed)
           u == PathsFail(s, m)
<1>1. s.node.rt \in Table
  BY GoodParts
<1>2. r \in Table /\ SamePaths(s.node.rt, r)
  BY <1>1, RaiseNumbersFacts
<1>3. Leads(s, t, links) /\ t.node.rt = r
  BY <1>2, SamePathsGood
<1>4. u = InitiatePerr(e.step, e)
  BY <1>3 DEF PathsFail, InitiatePathError
<1> HIDE DEF r, t
<1>5. failed \in SUBSET Failed
  <2>1. \A d \in Node : [dst |-> d, seqNo |-> r.paths[d].seqNo] \in Failed
    BY <1>2, TableParts DEF Failed
  <2>2. r.root.next = m => [dst |-> r.root.root, seqNo |-> r.root.seqNo] \in Failed
    <3>1. r.root.root \in Node \cup {None} /\ r.root.seqNo \in Nat
      BY <1>2 DEF Table, Roots
    <3>2. r.root.next # None => r.root.root # None
      BY <1>3 DEF Leads, Good, Leading
    <3>3. QED
      BY <3>1, <3>2, NoneAssumption DEF Failed
  <2>3. QED
    BY <2>1, <2>2 DEF UnreachableDestinations
<1>6. /\ \A d \in Node : r.paths[d].next = m => \E f \in failed : f.dst = d
      /\ r.root.next = m => \E f \in failed : f.dst = r.root.root
  <2>1. \A d \in Node : r.paths[d].next = m =>
          [dst |-> d, seqNo |-> r.paths[d].seqNo] \in failed
    BY DEF UnreachableDestinations
  <2>2. r.root.next = m => [dst |-> r.root.root, seqNo |-> r.root.seqNo] \in failed
    BY DEF UnreachableDestinations
  <2> HIDE DEF failed
  <2>3. ASSUME NEW d \in Node, r.paths[d].next = m PROVE \E f \in failed : f.dst = d
    <3>1. [dst |-> d, seqNo |-> r.paths[d].seqNo] \in failed
      BY <2>1, <2>3
    <3>2. QED
      BY <3>1
  <2>4. QED
    BY <2>2, <2>3
<1> HIDE DEF failed
<1>7. Good(t, links)
  BY <1>3 DEF Leads
<1>8. /\ Leads(t, e.step, links)
      /\ e.receivers \in SUBSET Node /\ e.failed \in SUBSET Failed
      /\ FewerPaths(r, e.step.node.rt)
      /\ \A f \in failed : e.step.node.rt.paths[f.dst] = NoPath
      /\ (\E f \in failed : f.dst = r.root.root) => e.step.node.rt.root = NoRoot
  BY <1>3, <1>5, <1>7, MakePathErrorGood
<1> HIDE DEF e, u
<1>9. Beside(e.step, u)
  BY <1>4, <1>8, InitiatePerrFacts DEF Leads, Good
<1>10. Leads(s, u, links)
  BY <1>3, <1>8, <1>9, BesideGood, LeadsOn DEF Leads
<1>11. NoPath.next # m /\ NoRoot.next # m
  BY NoneAssumption DEF NoPath, NoRoot
<1>12. e.step.node.rt.root.next # m
  BY <1>6, <1>8, <1>11 DEF FewerPaths
<1>13. ASSUME NEW d \in Node PROVE e.step.node.rt.paths[d].next # m
  <2>1. CASE r.paths[d].next = m
    BY <1>6, <1>8, <1>11, <2>1
  <2>2. CASE r.paths[d].next # m
    BY <1>8, <1>11, <2>2 DEF FewerPaths
  <2>3. QED
    BY <2>1, <2>2
<1>14. QED
  BY <1>9, <1>10, <1>12, <1>13 DEF Beside, u

LEMMA ReceivePerrGood ==
  ASSUME NEW links, NEW s, Good(s, links), NEW from, NEW failed \in SUBSET Failed
  PROVE  Leads(s, ReceivePerr(s, from, failed), links)
<1> DEFINE mine == {f \in failed : /\ s.node.rt.paths[f.dst].next = from
                                   /\ s.node.rt.paths[f.dst].seqNo <= f.seqNo}
           e == MakePathError(s, mine)
<1>1. ReceivePerr(s, from, failed) =
        IF mine = {} THEN s ELSE ForwardPerr(e.step, e.receivers, e.failed)
  BY DEF ReceivePerr
<1>2. mine \in SUBSET Failed
  OBVIOUS
<1> HIDE DEF mine
<1>3. /\ Leads(s, e.step, links)
      /\ e.receivers \in SUBSET Node /\ e.failed \in SUBSET Failed
  BY <1>2, MakePathErrorGood
<1> HIDE DEF e
<1>4. Beside(e.step, ForwardPerr(e.step, e.receivers, e.failed))
  BY <1>3, ForwardPerrFacts DEF Leads, Good
<1>5. Leads(s, ForwardPerr(e.step, e.receivers, e.failed), links)
  BY <1>3, <1>4, BesideGood, LeadsOn DEF Leads
<1>6. QED
  BY <1>1, <1>5, LeadsBack

-----------------------------------------------------------------------------
(* Packets.                                                                *)

LEMMA NextHopFacts ==
  ASSUME NEW t \in Table, NEW n, NEW links, Leading(t, n, links), NEW d \in Node
  PROVE  /\ NextHop(t, d) \in Node \cup {None}
         /\ NextHop(t, d) = None <=> Unreached(t, d)
<1>1. /\ t.paths[d].next \in Node \cup {None} /\ t.root.next \in Node \cup {None}
      /\ t.paths[d].active \in BOOLEAN /\ t.root.active \in BOOLEAN
  BY DEF Table, Paths, Roots
<1>2. /\ t.paths[d].active => t.paths[d].next # None
      /\ t.root.active => t.root.next # None
  BY DEF Leading
<1>3. CASE t.paths[d].active
  <2>1. NextHop(t, d) = t.paths[d].next
    BY <1>3 DEF NextHop
  <2>2. QED
    BY <1>1, <1>2, <1>3, <2>1 DEF Unreached
<1>4. CASE ~t.paths[d].active /\ t.root.active
  <2>1. NextHop(t, d) = t.root.next
    BY <1>4 DEF NextHop
  <2>2. QED
    BY <1>1, <1>2, <1>4, <2>1 DEF Unreached
<1>5. CASE ~t.paths[d].active /\ ~t.root.active
  <2>1. NextHop(t, d) = None
    BY <1>5 DEF NextHop
  <2>2. QED
    BY <1>5, <2>1 DEF Unreached
<1>6. QED
  BY <1>1, <1>3, <1>4, <1>5

LEMMA WithTableFacts ==
  ASSUME NEW s \in Steps, NEW t \in Table
  PROVE  /\ WithTable(s, t) \in Steps /\ WithTable(s, t).at = s.at
         /\ WithTable(s, t).node.rt = t
         /\ WithTable(s, t).node.queue = s.node.queue
         /\ WithTable(s, t).node.timers = s.node.timers
BY DEF WithTable, Steps, NodeState

\* The packets of Q have left the queue of s.
Dequeued(s, u, Q) ==
  /\ u \in Steps /\ u.at = s.at /\ u.node.rt = s.node.rt
  /\ u.node.timers = s.node.timers /\ u.node.queue = s.node.queue \ Q

LEMMA DequeueFacts ==
  ASSUME NEW s \in Steps, NEW Q, Q \subseteq s.node.queue, NEW m \in Node
  PROVE  Dequeued(s, Dequeue(s, Q, m), Q)
<1> DEFINE frames == {[to |-> m, packet |-> p] : p \in Q}
           queue == s.node.queue \ Q
           v == [s EXCEPT !.node.queue = queue]
           u == Dequeue(s, Q, m)
<1>1. s.node.queue \in SUBSET Datas
  BY DEF Steps, NodeState
<1>2. frames \in SUBSET Sent /\ queue \in SUBSET Datas
  BY <1>1 DEF Sent, Packets
<1>3. u = [v EXCEPT !.out = @ \cup frames]
  BY DEF Dequeue, Steps, NodeState
<1> HIDE DEF frames, queue, u
<1>4. v \in Steps
  BY <1>2 DEF Steps, NodeState
<1>5. /\ v.at = s.at /\ v.node.rt = s.node.rt /\ v.node.queue = queue
      /\ v.node.timers = s.node.timers
  BY DEF Steps, NodeState
<1> HIDE DEF v
<1>6. Beside(v, u)
  BY <1>2, <1>3, <1>4, OutFacts
<1>7. QED
  BY <1>5, <1>6 DEF Beside, Dequeued, queue, u

LEMMA LookupGood ==
  ASSUME NEW links, NEW s, Good(s, links), NEW d \in Node
  PROVE  Leads(s, Lookup(s, d), links)
<1>1. s.node.rt \in Table
  BY GoodParts
<1>2. QED
  BY <1>1, PurgeRootFacts, FewerPathsGood, LeadsBack DEF Lookup

\* A request is sent and the timer runs, so that a packet for d may join the queue.
LEMMA AskAgainGood ==
  ASSUME NEW links, NEW s, Good(s, links), NEW d \in Node, NEW n \in 1..(MaxRetries + 1)
  PROVE  /\ Leads(s, AskAgain(s, d, n), links)
         /\ AskAgain(s, d, n).node.timers[d] # 0
         /\ AskAgain(s, d, n).node.rt = s.node.rt
<1> DEFINE timers == [s.node.timers EXCEPT ![d] = n]
           u == [s EXCEPT !.node.timers[d] = n]
           v == NextSeqNo(u)
           w == AskAgain(s, d, n)
<1>1. s \in Steps /\ s.node.timers \in [Node -> 0..(MaxRetries + 1)]
  BY GoodParts
<1>2. /\ timers \in [Node -> 0..(MaxRetries + 1)] /\ timers[d] = n /\ n # 0
      /\ \A e \in Node : s.node.timers[e] # 0 => timers[e] # 0
  BY <1>1, HwmpAttributes
<1>3. u = [s EXCEPT !.node.timers = timers]
  BY <1>1 DEF Steps, NodeState
<1>4. w = RequestDestination(v, d, s.node.rt.paths[d].seqNo)
  BY DEF AskAgain
<1> HIDE DEF timers, u, w
<1>5. u \in Steps
  BY <1>1, <1>2, <1>3 DEF Steps, NodeState
<1>6. /\ u.at = s.at /\ u.node.rt = s.node.rt /\ u.node.queue = s.node.queue
      /\ u.node.timers = timers
  BY <1>1, <1>3 DEF Steps, NodeState
<1>7. Good(u, links)
  <2>1. \A p \in s.node.queue : p.dst \in Node
    BY GoodParts
  <2>2. Waits(u.node)
    BY <1>2, <1>6, <2>1 DEF Good, Waits
  <2>3. QED
    BY <1>5, <1>6, <2>2 DEF Good
<1>8. Beside(u, v)
  BY <1>5, NextSeqNoFacts
<1>9. s.node.rt.paths[d].seqNo \in Nat
  BY GoodParts, TableParts
<1> HIDE DEF v
<1>10. Beside(v, w)
  BY <1>4, <1>8, <1>9, RequestDestinationFacts DEF Beside
<1>11. Beside(u, w)
  BY <1>8, <1>10, BesideOn
<1>12. Leads(u, w, links)
  BY <1>7, <1>11, BesideGood
<1>13. QED
  BY <1>2, <1>6, <1>11, <1>12 DEF Leads, Beside, w

\* A packet joins the queue once there is a timer for its destination.
LEMMA QueuePacketGood ==
  ASSUME NEW links, NEW s, Good(s, links), NEW p \in Datas,
         s.node.timers[p.dst] # 0, Unreached(s.node.rt, p.dst)
  PROVE  Leads(s, QueuePacket(s, p), links)
<1> DEFINE queue == s.node.queue \cup {p}
           u == [s EXCEPT !.node.queue = @ \cup {p}]
<1>1. s \in Steps
  BY DEF Good
<1>2. queue \in SUBSET Datas
  BY <1>1 DEF Steps, NodeState
<1>3. u = [s EXCEPT !.node.queue = queue]
  BY <1>1 DEF Steps, NodeState
<1>4. QueuePacket(s, p) \in {s, u}
  BY DEF QueuePacket
<1>5. \A q \in queue : s.node.timers[q.dst] # 0 /\ Unreached(s.node.rt, q.dst)
  BY DEF Good, Waits
<1> HIDE DEF queue, u
<1>6. u \in Steps
  BY <1>1, <1>2, <1>3 DEF Steps, NodeState
<1>7. /\ u.at = s.at /\ u.node.rt = s.node.rt /\ u.node.queue = queue
      /\ u.node.timers = s.node.timers
  BY <1>1, <1>3 DEF Steps, NodeState
<1>8. Waits(u.node)
  BY <1>5, <1>7 DEF Waits
<1>9. Leads(s, u, links)
  BY <1>6, <1>7, <1>8 DEF Leads, Good
<1>10. QED
  BY <1>4, <1>9, LeadsBack

LEMMA ForwardUnicastGood ==
  ASSUME NEW links, NEW s, Good(s, links), NEW p \in Datas, NEW mine \in BOOLEAN
  PROVE  Leads(s, ForwardUnicast(s, p, mine), links)
<1> DEFINE d == p.dst
           t == Lookup(s, d)
           next == NextHop(t.node.rt, d)
           m == t.node.rt.paths[d].next
           u == RequestPath(t, d)
<1>1. d \in Node
  BY DEF Datas
<1>2. Leads(s, t, links)
  BY <1>1, LookupGood
<1>3. ForwardUnicast(s, p, mine) =
        CASE next # None -> Emit(t, next, p)
          [] next = None /\ ~mine -> ForwardFails(t, d)
          [] OTHER -> QueuePacket(u, p)
  BY DEF ForwardUnicast
<1> HIDE DEF t
<1>4. Good(t, links) /\ t.node.rt \in Table /\ t.node.timers \in [Node -> 0..(MaxRetries + 1)]
  BY <1>2, GoodParts DEF Leads
<1>5. next \in Node \cup {None} /\ (next = None <=> Unreached(t.node.rt, d))
  BY <1>1, <1>4, NextHopFacts DEF Good
<1> HIDE DEF next, d
<1>6. CASE next # None
  <2>1. ForwardUnicast(s, p, mine) = Emit(t, next, p)
    BY <1>3, <1>6
  <2>2. next \in Node /\ p \in Packets
    BY <1>5, <1>6 DEF Packets
  <2>3. Leads(t, Emit(t, next, p), links)
    BY <1>4, <2>2, EmitFacts, BesideGood DEF Good
  <2>4. QED
    BY <1>2, <2>1, <2>3, LeadsOn
<1>7. CASE next = None /\ ~mine
  <2>1. ForwardUnicast(s, p, mine) = ForwardFails(t, d)
    BY <1>3, <1>7
  <2>2. m \in Node \cup {None}
    BY <1>1, <1>4, TableParts
  <2>3. ForwardFails(t, d) = IF m = None THEN t ELSE PathsFail(t, m)
    BY DEF ForwardFails
  <2> HIDE DEF m
  <2>4. Leads(t, ForwardFails(t, d), links)
    BY <1>4, <2>2, <2>3, PathsFailGood, LeadsBack
  <2>5. QED
    BY <1>2, <2>1, <2>4, LeadsOn
<1>8. CASE next = None /\ mine
  <2>1. ForwardUnicast(s, p, mine) = QueuePacket(u, p)
    BY <1>3, <1>8
  <2>2. Leads(t, u, links) /\ u.node.timers[d] # 0 /\ u.node.rt = t.node.rt
    <3>1. CASE t.node.timers[d] # 0
      BY <1>4, <3>1, LeadsBack DEF RequestPath
    <3>2. CASE t.node.timers[d] = 0
      <4>1. u = AskAgain(t, d, 1)
        BY <3>2 DEF RequestPath
      <4>2. 1 \in 1..(MaxRetries + 1)
        BY HwmpAttributes
      <4>3. QED
        BY <1>1, <1>4, <4>1, <4>2, AskAgainGood
    <3>3. QED
      BY <3>1, <3>2
  <2> HIDE DEF u
  <2>3. Leads(u, QueuePacket(u, p), links)
    BY <1>5, <1>8, <2>2, QueuePacketGood DEF Leads, d
  <2>4. QED
    BY <1>2, <2>1, <2>2, <2>3, LeadsOn
<1>9. QED
  BY <1>6, <1>7, <1>8

LEMMA ForwardPacketGood ==
  ASSUME NEW links, NEW s, Good(s, links), NEW p \in Datas
  PROVE  Leads(s, ForwardPacket(s, p), links)
<1> DEFINE less == [p EXCEPT !.ttl = @ - 1]
<1>1. CASE p.ttl = 1
  BY <1>1, LeadsBack DEF ForwardPacket
<1>2. CASE p.ttl # 1
  <2>1. p.ttl - 1 \in 1..MaxTtl
    BY <1>2, HwmpAttributes DEF Datas
  <2>2. less \in Datas
    BY <2>1 DEF Datas
  <2>3. ForwardPacket(s, p) = ForwardUnicast(s, less, FALSE)
    BY <1>2 DEF ForwardPacket
  <2> HIDE DEF less
  <2>4. QED
    BY <2>2, <2>3, ForwardUnicastGood
<1>3. QED
  BY <1>1, <1>2

-----------------------------------------------------------------------------
(* Retries.                                                                *)

LEMMA StopSearchGood ==
  ASSUME NEW links, NEW s, Good(s, links), NEW d \in Node,
         \A p \in s.node.queue : p.dst # d
  PROVE  Leads(s, StopSearch(s, d), links)
<1> DEFINE timers == [s.node.timers EXCEPT ![d] = 0]
           u == StopSearch(s, d)
<1>1. s \in Steps /\ s.node.timers \in [Node -> 0..(MaxRetries + 1)]
  BY GoodParts
<1>2. 0 \in 0..(MaxRetries + 1)
  BY HwmpAttributes
<1>3. /\ timers \in [Node -> 0..(MaxRetries + 1)]
      /\ \A e \in Node \ {d} : timers[e] = s.node.timers[e]
  BY <1>1, <1>2
<1>4. u = [s EXCEPT !.node.timers = timers]
  BY <1>1 DEF StopSearch, Steps, NodeState
<1> HIDE DEF timers, u
<1>5. u \in Steps
  BY <1>1, <1>3, <1>4 DEF Steps, NodeState
<1>6. /\ u.at = s.at /\ u.node.rt = s.node.rt /\ u.node.queue = s.node.queue
      /\ u.node.timers = timers
  BY <1>1, <1>4 DEF Steps, NodeState
<1>7. \A p \in s.node.queue : p.dst \in Node \ {d}
  BY GoodParts
<1>8. Waits(u.node)
  BY <1>3, <1>6, <1>7 DEF Good, Waits
<1>9. QED
  BY <1>5, <1>6, <1>8 DEF Leads, Good, u

LEMMA DropGood ==
  ASSUME NEW links, NEW s, Good(s, links), NEW d \in Node
  PROVE  LET u == [s EXCEPT !.node.queue = {p \in @ : p.dst # d}]
         IN  Leads(s, u, links) /\ \A p \in u.node.queue : p.dst # d
<1> DEFINE queue == {p \in s.node.queue : p.dst # d}
           u == [s EXCEPT !.node.queue = {p \in @ : p.dst # d}]
<1>1. s \in Steps
  BY GoodParts
<1>2. queue \in SUBSET Datas /\ queue \subseteq s.node.queue /\ \A p \in queue : p.dst # d
  BY <1>1 DEF Steps, NodeState
<1>3. u = [s EXCEPT !.node.queue = queue]
  BY <1>1 DEF Steps, NodeState
<1> HIDE DEF queue, u
<1>4. u \in Steps
  BY <1>1, <1>2, <1>3 DEF Steps, NodeState
<1>5. /\ u.at = s.at /\ u.node.rt = s.node.rt /\ u.node.queue = queue
      /\ u.node.timers = s.node.timers
  BY <1>1, <1>3 DEF Steps, NodeState
<1>6. Waits(u.node)
  BY <1>2, <1>5 DEF Good, Waits
<1>7. QED
  BY <1>2, <1>4, <1>5, <1>6 DEF Leads, Good, u

\* The search may end when there is a path, for nothing waits for d then.
LEMMA RetryPathDiscoveryGood ==
  ASSUME NEW links, NEW s, Good(s, links), NEW d \in Node
  PROVE  Leads(s, RetryPathDiscovery(s, d), links)
<1> DEFINE t == Lookup(s, d)
           next == NextHop(t.node.rt, d)
           v == [t EXCEPT !.node.queue = {p \in @ : p.dst # d}]
           n == t.node.timers[d] + 1
           result == RetryPathDiscovery(s, d)
<1>1. Leads(s, t, links)
  BY LookupGood
<1>2. result =
        CASE next # None -> StopSearch(t, d)
          [] next = None /\ t.node.timers[d] > MaxRetries -> StopSearch(v, d)
          [] OTHER -> AskAgain(t, d, n)
  BY DEF RetryPathDiscovery
<1> HIDE DEF t, result
<1>3. Good(t, links) /\ t.node.rt \in Table /\ t.node.timers[d] \in 0..(MaxRetries + 1)
  BY <1>1, GoodParts DEF Leads
<1>4. next = None <=> Unreached(t.node.rt, d)
  BY <1>3, NextHopFacts DEF Good
<1> HIDE DEF next
<1>5. CASE next # None
  <2>1. result = StopSearch(t, d)
    BY <1>2, <1>5
  <2>2. \A p \in t.node.queue : p.dst # d
    BY <1>3, <1>4, <1>5 DEF Good, Waits
  <2>3. Leads(t, StopSearch(t, d), links)
    BY <1>3, <2>2, StopSearchGood
  <2>4. QED
    BY <1>1, <2>1, <2>3, LeadsOn DEF result
<1>6. CASE next = None /\ t.node.timers[d] > MaxRetries
  <2>1. result = StopSearch(v, d)
    BY <1>2, <1>6
  <2>2. Leads(t, v, links) /\ \A p \in v.node.queue : p.dst # d
    BY <1>3, DropGood
  <2> HIDE DEF v
  <2>3. Leads(v, StopSearch(v, d), links)
    BY <2>2, StopSearchGood DEF Leads
  <2>4. QED
    BY <1>1, <2>1, <2>2, <2>3, LeadsOn DEF result
<1>7. CASE next = None /\ ~(t.node.timers[d] > MaxRetries)
  <2>1. result = AskAgain(t, d, n)
    BY <1>2, <1>7
  <2>2. n \in 1..(MaxRetries + 1)
    BY <1>3, <1>7, HwmpAttributes
  <2> HIDE DEF n
  <2>3. Leads(t, AskAgain(t, d, n), links)
    BY <1>3, <2>2, AskAgainGood
  <2>4. QED
    BY <1>1, <2>1, <2>3, LeadsOn DEF result
<1>8. QED
  BY <1>5, <1>6, <1>7

-----------------------------------------------------------------------------
(* Paths that requests and replies make.                                   *)

\* Of the paths of t only the one to d has changed, and that leads to next.
Renewed(t, u, d, next) ==
  /\ u \in Table /\ u.root = t.root
  /\ u.paths[d].next = next
  /\ \A e \in Node \ {d} : u.paths[e] = t.paths[e]

LEMMA AddReactivePathFacts ==
  ASSUME NEW t \in Table, NEW d \in Node, NEW next \in Node, NEW metric \in Nat,
         NEW seqNo \in Nat
  PROVE  Renewed(t, AddReactivePath(t, d, next, metric, seqNo), d, next)
<1> DEFINE new == [next |-> next, metric |-> metric, seqNo |-> seqNo, active |-> TRUE,
                   precursors |-> t.paths[d].precursors]
           paths == [t.paths EXCEPT ![d] = new]
           u == AddReactivePath(t, d, next, metric, seqNo)
<1>1. t.paths \in [Node -> Paths] /\ t.paths[d].precursors \in SUBSET Node
  BY TableParts DEF Table
<1>2. new \in Paths /\ new.next = next
  BY <1>1 DEF Paths
<1>3. u = [t EXCEPT !.paths = paths]
  BY <1>1 DEF AddReactivePath, Table
<1> HIDE DEF new, u
<1>4. /\ paths \in [Node -> Paths] /\ paths[d] = new
      /\ \A e \in Node \ {d} : paths[e] = t.paths[e]
  BY <1>1, <1>2
<1> HIDE DEF paths
<1>5. u \in Table /\ u.paths = paths /\ u.root = t.root
  BY <1>3, <1>4 DEF Table
<1>6. QED
  BY <1>2, <1>4, <1>5 DEF u, Renewed

\* A path to d over a link; the packets for d leave, so that none waits beside it.
LEMMA PathToGood ==
  ASSUME NEW links, NEW s, Good(s, links), NEW d \in Node, NEW from \in Node,
         <<s.at, from>> \in links, NEW metric \in Nat, NEW seqNo \in Nat
  PROVE  Leads(s, PathTo(s, d, from, metric, seqNo), links)
<1> DEFINE t == AddReactivePath(s.node.rt, d, from, metric, seqNo)
           u == WithTable(s, t)
           Q == {p \in u.node.queue : p.dst = d}
           v == Dequeue(u, Q, from)
<1>1. s \in Steps /\ s.node.rt \in Table
  BY GoodParts
<1>2. /\ t \in Table /\ t.root = s.node.rt.root /\ t.paths[d].next = from
      /\ \A e \in Node \ {d} : t.paths[e] = s.node.rt.paths[e]
  <2>1. Renewed(s.node.rt, t, d, from)
    BY <1>1, AddReactivePathFacts
  <2>2. QED
    BY <2>1 DEF Renewed
<1>3. Leading(t, s.at, links)
  <2>1. from # None
    BY NoneAssumption
  <2>2. ASSUME NEW e \in Node
        PROVE  /\ t.paths[e].active => t.paths[e].next # None
               /\ t.paths[e].next # None => <<s.at, t.paths[e].next>> \in links
    <3>1. CASE e = d
      BY <1>2, <2>1, <3>1
    <3>2. CASE e # d
      BY <1>2, <3>2 DEF Good, Leading
    <3>3. QED
      BY <3>1, <3>2
  <2>3. QED
    BY <1>2, <2>2 DEF Good, Leading
<1> HIDE DEF t
<1>4. /\ u \in Steps /\ u.at = s.at /\ u.node.rt = t
      /\ u.node.queue = s.node.queue /\ u.node.timers = s.node.timers
  BY <1>1, <1>2, WithTableFacts
<1>5. PathTo(s, d, from, metric, seqNo) = v
  BY <1>2, <1>4 DEF PathTo, ReactivePathResolved, t
<1> HIDE DEF u
<1>6. /\ v \in Steps /\ v.at = u.at /\ v.node.rt = u.node.rt
      /\ v.node.timers = u.node.timers /\ v.node.queue = u.node.queue \ Q
  <2>1. Q \subseteq u.node.queue
    OBVIOUS
  <2> HIDE DEF Q
  <2>2. QED
    BY <1>4, <2>1, DequeueFacts DEF Dequeued
<1>7. \A p \in v.node.queue : p \in s.node.queue /\ p.dst \in Node \ {d}
  <2>1. \A p \in s.node.queue : p.dst \in Node
    BY GoodParts
  <2>2. QED
    BY <1>4, <1>6, <2>1
<1> HIDE DEF v, Q
<1>8. Waits(v.node)
  <2>1. \A p \in v.node.queue : s.node.timers[p.dst] # 0 /\ Unreached(s.node.rt, p.dst)
    BY <1>7 DEF Good, Waits
  <2>2. \A p \in v.node.queue : Unreached(t, p.dst)
    BY <1>2, <1>7, <2>1 DEF Unreached
  <2>3. QED
    BY <1>4, <1>6, <2>1, <2>2 DEF Waits
<1>9. QED
  BY <1>3, <1>4, <1>5, <1>6, <1>8 DEF Leads, Good

LEMMA PathToNeighborGood ==
  ASSUME NEW links, NEW s, Good(s, links), NEW from \in Node, <<s.at, from>> \in links,
         NEW seqNo \in Nat
  PROVE  Leads(s, PathToNeighbor(s, from, seqNo), links)
<1>1. 1 \in Nat
  OBVIOUS
<1>2. Leads(s, PathTo(s, from, from, 1, seqNo), links)
  BY <1>1, PathToGood
<1>3. QED
  BY <1>2, LeadsBack DEF PathToNeighbor

LEMMA PrepType ==
  ASSUME NEW orig \in Node, NEW seqNo \in Nat, NEW dst \in Node, NEW metric \in Nat
  PROVE  Prep(orig, seqNo, dst, metric) \in Packets
<1>1. MaxTtl \in 0..MaxTtl
  BY HwmpAttributes
<1>2. QED
  BY <1>1 DEF Prep, Packets, PrepFrames

LEMMA AnswerSelfGood ==
  ASSUME NEW links, NEW s, Good(s, links), NEW from \in Node, NEW q \in Requests
  PROVE  Beside(s, AnswerSelf(s, from, q)) /\ Leads(s, AnswerSelf(s, from, q), links)
<1> DEFINE u == NextSeqNo(s)
           prep == Prep(u.at, u.node.seqNo, q.orig, 0)
<1>1. AnswerSelf(s, from, q) = Emit(u, from, prep)
  BY DEF AnswerSelf
<1>2. s \in Steps /\ s.at \in Node
  BY GoodParts
<1>3. Beside(s, u) /\ u.node.seqNo \in Nat
  BY <1>2, NextSeqNoFacts
<1> HIDE DEF u
<1>4. prep \in Packets
  <2>1. q.orig \in Node /\ u.at \in Node /\ 0 \in Nat
    BY <1>2, <1>3 DEF Requests, Beside
  <2>2. QED
    BY <1>3, <2>1, PrepType
<1> HIDE DEF prep
<1>5. Beside(u, Emit(u, from, prep))
  BY <1>3, <1>4, EmitFacts DEF Beside
<1>6. Beside(s, AnswerSelf(s, from, q))
  BY <1>1, <1>3, <1>5, BesideOn
<1>7. QED
  BY <1>6, BesideGood

\* The path to the root takes every packet along.
LEMMA AnswerRootGood ==
  ASSUME NEW links, NEW s, Good(s, links), NEW from \in Node, <<s.at, from>> \in links,
         NEW q \in Requests
  PROVE  Leads(s, AnswerRoot(s, from, q), links)
<1> DEFINE purged == WithTable(s, PurgeRoot(s.node.rt))
           rt == AddProactivePath(s.node.rt, q.orig, from, q.metric, q.seqNo)
           v == WithTable(s, rt)
           w == ProactivePathResolved(v)
           t == IF ImprovesRoot(purged.node.rt, q.metric) THEN w ELSE purged
<1>1. s \in Steps /\ s.node.rt \in Table
  BY GoodParts
<1>2. q.orig \in Node /\ q.metric \in Nat /\ q.seqNo \in Nat
  BY DEF Requests
<1>3. Leads(s, purged, links)
  BY <1>1, PurgeRootFacts, FewerPathsGood
<1>4. AnswerRoot(s, from, q) = AnswerSelf(t, from, q)
  BY DEF AnswerRoot, AnswerSelf
<1> HIDE DEF purged
<1>5. rt \in Table /\ rt.root.next = from /\ rt.root.root = q.orig /\ rt.paths = s.node.rt.paths
  BY <1>1, <1>2 DEF AddProactivePath, Table, Roots
<1>6. Leading(rt, s.at, links)
  BY <1>2, <1>5, NoneAssumption DEF Good, Leading
<1> HIDE DEF rt
<1>7. /\ v \in Steps /\ v.at = s.at /\ v.node.rt = rt
      /\ v.node.queue = s.node.queue /\ v.node.timers = s.node.timers
  BY <1>1, <1>5, WithTableFacts
<1>8. w = Dequeue(v, v.node.queue, from)
  BY <1>5, <1>7 DEF ProactivePathResolved
<1> HIDE DEF v, w
<1>9. w \in Steps /\ w.at = s.at /\ w.node.rt = rt /\ w.node.queue = {}
  <2> DEFINE Q == v.node.queue
  <2>1. Q \subseteq v.node.queue /\ Q = v.node.queue
    OBVIOUS
  <2> HIDE DEF Q
  <2>2. Dequeued(v, Dequeue(v, Q, from), Q)
    BY <1>7, <2>1, DequeueFacts
  <2>3. w = Dequeue(v, Q, from) /\ v.node.queue \ Q = {}
    BY <1>8, <2>1
  <2>4. QED
    BY <1>7, <2>2, <2>3 DEF Dequeued
<1>10. Leads(s, w, links)
  BY <1>6, <1>9 DEF Leads, Good, Waits
<1>11. Leads(s, t, links)
  BY <1>3, <1>10
<1> HIDE DEF t
<1>12. Leads(t, AnswerSelf(t, from, q), links)
  BY <1>11, AnswerSelfGood DEF Leads
<1>13. QED
  BY <1>4, <1>11, <1>12, LeadsOn


LEMMA AnswerForGood ==
  ASSUME NEW links, NEW s, Good(s, links), NEW from \in Node, NEW q \in Requests,
         NEW dsts \in SUBSET Node
  PROVE  Leads(s, AnswerFor(s, from, q, dsts), links)
<1> DEFINE Reply(d) == Prep(d, s.node.rt.paths[d].seqNo, q.orig, s.node.rt.paths[d].metric)
           frames == {[to |-> from, packet |-> Reply(d)] : d \in dsts}
           t == AddPrecursors(s.node.rt, dsts, from)
           v == WithTable(s, t)
           u == AnswerFor(s, from, q, dsts)
<1>1. s \in Steps /\ s.node.rt \in Table
  BY GoodParts
<1>2. u = [v EXCEPT !.out = @ \cup frames]
  BY <1>1 DEF AnswerFor, WithTable, Steps, NodeState
<1>3. \A d \in dsts : Reply(d) \in Packets
  BY <1>1, TableParts, PrepType DEF Requests
<1> HIDE DEF Reply
<1>4. frames \in SUBSET Sent
  BY <1>3 DEF Sent
<1>5. t \in Table /\ SamePaths(s.node.rt, t)
  BY <1>1, AddPrecursorsFacts
<1> HIDE DEF frames, t
<1>6. Leads(s, v, links)
  BY <1>5, SamePathsGood
<1> HIDE DEF v, u
<1>7. Beside(v, u)
  BY <1>2, <1>4, <1>6, OutFacts DEF Leads, Good
<1>8. Leads(v, u, links)
  BY <1>6, <1>7, BesideGood DEF Leads
<1>9. QED
  BY <1>6, <1>8, LeadsOn DEF u

LEMMA AnswerDestsGood ==
  ASSUME NEW links, NEW s, Good(s, links), NEW from \in Node, NEW q \in Requests,
         ~IsProactive(q)
  PROVE  Leads(s, AnswerDests(s, from, q), links)
<1> DEFINE answered == {e \in q.dests : CanAnswer(s, e)}
           own == {e \in q.dests : e.dst = s.at}
           rest == (q.dests \ (answered \cup own)) \cup PassOn(answered)
           dsts == {e.dst : e \in answered}
           less == [q EXCEPT !.dests = rest]
           t == IF own = {} THEN s ELSE AnswerSelf(s, from, q)
           u == AnswerFor(t, from, q, dsts)
           v == SendPreq(u, <<less>>)
<1>1. AnswerDests(s, from, q) = IF rest = {} THEN u ELSE v
  BY DEF AnswerDests
<1>2. dsts \in SUBSET Node
  BY DEF IsProactive, Requests, Asked
<1>3. <<less>> \in Seq(Requests)
  <2>1. PassOn(answered) \in SUBSET Asked
    BY PassOnType DEF Requests
  <2>2. rest \in SUBSET Asked
    BY <2>1 DEF Requests
  <2> HIDE DEF rest
  <2>3. less \in Requests
    BY <2>2 DEF Requests
  <2>4. QED
    BY <2>3
<1> HIDE DEF answered, own, rest, dsts, less
<1>4. Leads(s, t, links)
  BY AnswerSelfGood, LeadsBack
<1> HIDE DEF t
<1>5. Leads(t, u, links)
  BY <1>2, <1>4, AnswerForGood DEF Leads
<1> HIDE DEF u
<1>6. Beside(u, v)
  BY <1>3, <1>5, SendPreqFacts DEF Leads, Good
<1> HIDE DEF v
<1>7. Leads(u, v, links)
  BY <1>5, <1>6, BesideGood DEF Leads
<1>8. Leads(s, u, links) /\ Leads(s, v, links)
  BY <1>4, <1>5, <1>7, LeadsOn
<1>9. QED
  BY <1>1, <1>8

LEMMA ReceivePreqGood ==
  ASSUME NEW links, NEW s, Good(s, links), NEW from \in Node, <<s.at, from>> \in links,
         NEW q \in Requests
  PROVE  Leads(s, ReceivePreq(s, from, q), links)
<1> DEFINE fresh == s.node.heard[q.orig].seqNo # q.seqNo
           t == [s EXCEPT !.node.heard[q.orig] = [seqNo |-> q.seqNo, metric |-> q.metric]]
           u == IF fresh \/ Improves(t.node.rt, q.orig, q.metric)
                THEN PathTo(t, q.orig, from, q.metric, q.seqNo) ELSE t
           v == PathToNeighbor(u, from, q.seqNo)
           root == AnswerRoot(v, from, q)
           sent == SendPreq(root, <<q>>)
           result == ReceivePreq(s, from, q)
<1>1. /\ Stale(s, q) => result = s
      /\ ~Stale(s, q) /\ IsProactive(q) => result = sent
      /\ ~Stale(s, q) /\ ~IsProactive(q) => result = AnswerDests(v, from, q)
  BY DEF ReceivePreq
<1> HIDE DEF result
<1>2. q.orig \in Node /\ q.seqNo \in Nat /\ q.metric \in Nat /\ <<q>> \in Seq(Requests)
  BY DEF Requests
<1>3. Leads(s, t, links)
  <2>1. Beside(s, t)
    BY <1>2, GoodParts, HeardFacts
  <2> HIDE DEF t
  <2>2. QED
    BY <2>1, BesideGood
<1> HIDE DEF t, fresh
<1>4. Leads(t, u, links)
  <2>1. Leads(t, PathTo(t, q.orig, from, q.metric, q.seqNo), links)
    BY <1>2, <1>3, PathToGood DEF Leads
  <2>2. Leads(t, t, links)
    BY <1>3, LeadsBack DEF Leads
  <2>3. QED
    BY <2>1, <2>2
<1> HIDE DEF u
<1>5. Leads(s, u, links)
  BY <1>3, <1>4, LeadsOn
<1>6. Leads(u, v, links)
  BY <1>2, <1>5, PathToNeighborGood DEF Leads
<1> HIDE DEF v
<1>7. Leads(s, v, links)
  BY <1>5, <1>6, LeadsOn
<1>8. Leads(v, root, links)
  BY <1>7, AnswerRootGood DEF Leads
<1> HIDE DEF root
<1>9. Leads(root, sent, links)
  <2>1. Beside(root, sent)
    BY <1>2, <1>8, SendPreqFacts DEF Leads, Good
  <2>2. QED
    BY <1>8, <2>1, BesideGood DEF Leads
<1> HIDE DEF sent
<1>10. ~IsProactive(q) => Leads(v, AnswerDests(v, from, q), links)
  BY <1>7, AnswerDestsGood DEF Leads
<1>11. Leads(s, s, links)
  BY LeadsBack
<1>12. Leads(s, result, links)
  BY <1>1, <1>7, <1>8, <1>9, <1>10, <1>11, LeadsOn
<1>13. QED
  BY <1>12 DEF result

LEMMA PreqElementGood ==
  ASSUME NEW links, NEW s, Good(s, links), NEW from \in Node, <<s.at, from>> \in links,
         NEW q \in Requests
  PROVE  Leads(s, PreqElement(s, from, q), links)
<1> DEFINE r == [q EXCEPT !.metric = @ + 1, !.ttl = @ - 1]
<1>1. CASE q.orig = s.at \/ q.ttl = 0
  BY <1>1, LeadsBack DEF PreqElement
<1>2. CASE ~(q.orig = s.at \/ q.ttl = 0)
  <2>1. q.metric + 1 \in Nat /\ q.ttl - 1 \in 0..MaxTtl
    BY <1>2, HwmpAttributes DEF Requests
  <2>2. r \in Requests
    BY <2>1 DEF Requests
  <2>3. PreqElement(s, from, q) = ReceivePreq(s, from, r)
    BY <1>2 DEF PreqElement
  <2> HIDE DEF r
  <2>4. QED
    BY <2>2, <2>3, ReceivePreqGood
<1>3. QED
  BY <1>1, <1>2


LEMMA Least ==
  ASSUME NEW T \in SUBSET Nat, T # {}
  PROVE  \E x \in T : \A y \in T : x <= y
<1> DEFINE Below == {p \in Nat \X Nat : p[1] < p[2]}
<1>1. IsWellFoundedOn(Below, Nat)
  BY NatLessThanWellFounded DEF OpToRel
<1>2. \A x, y \in Nat : y < x => <<y, x>> \in Below
  OBVIOUS
<1> HIDE DEF Below
<1>3. PICK x \in T : \A y \in T : ~(<<y, x>> \in Below)
  BY <1>1, WFMin
<1>4. \A y \in T : ~(y < x)
  BY <1>2, <1>3
<1>5. QED
  BY <1>4

\* The elements of a frame, one after the other. The recursion of PreqElements is a
\* function: by the least length that had none, there is one for every length.
LEMMA PreqElementsFollow ==
  ASSUME NEW s, NEW from, NEW list, Len(list) \in Nat
  PROVE  \E after : /\ PreqElements(s, from, list) = after[Len(list)] /\ after[0] = s
                    /\ \A i \in 1..Len(list) :
                         after[i] = PreqElement(after[i - 1], from, list[i])
<1> DEFINE Arm(g, i) == IF i = 0 THEN s ELSE PreqElement(g[i - 1], from, list[i])
           Follows(g, n) == g = [i \in 0..n |-> Arm(g, i)]
           Fine(n) == \E g : Follows(g, n)
           Wrong == {n \in 0..Len(list) : ~Fine(n)}
<1>1. Fine(0)
  <2> DEFINE g == [i \in 0..0 |-> s]
  <2>1. g = [i \in 0..0 |-> Arm(g, i)]
    OBVIOUS
  <2> HIDE DEF g
  <2>2. QED
    BY <2>1
<1>2. ASSUME NEW n \in 1..Len(list), Fine(n - 1)
      PROVE  Fine(n)
  <2>1. PICK f : Follows(f, n - 1)
    BY <1>2
  <2> DEFINE next == PreqElement(f[n - 1], from, list[n])
             g == [i \in 0..n |-> IF i = n THEN next ELSE f[i]]
  <2>2. n \in Nat /\ n # 0 /\ n - 1 \in 0..(n - 1)
    OBVIOUS
  <2>3. \A i \in 0..(n - 1) : f[i] = Arm(f, i)
    <3> DEFINE F(i) == Arm(f, i)
    <3>1. f = [i \in 0..(n - 1) |-> F(i)]
      BY <2>1
    <3> HIDE DEF F
    <3>2. \A i \in 0..(n - 1) : f[i] = F(i)
      BY <3>1
    <3>3. QED
      BY <3>2 DEF F
  <2> HIDE DEF next
  <2>4. g[n] = next /\ \A i \in 0..(n - 1) : g[i] = f[i]
    BY <2>2
  <2>5. ASSUME NEW i \in 0..n
        PROVE  g[i] = Arm(g, i)
    <3>1. CASE i = n
      BY <2>2, <2>4, <3>1 DEF next
    <3>2. CASE i # n
      <4>1. i \in 0..(n - 1) /\ (i # 0 => i - 1 \in 0..(n - 1))
        BY <2>2, <3>2
      <4>2. Arm(g, i) = Arm(f, i)
        BY <2>4, <4>1
      <4>3. QED
        BY <2>3, <2>4, <4>1, <4>2
    <3>3. QED
      BY <3>1, <3>2
  <2>6. Follows(g, n)
    <3> DEFINE G(i) == Arm(g, i)
    <3>1. \A i \in 0..n : g[i] = G(i)
      BY <2>5
    <3> HIDE DEF G
    <3>2. g = [i \in 0..n |-> G(i)]
      BY <3>1
    <3>3. QED
      BY <3>2 DEF G
  <2>7. QED
    BY <2>6
<1>3. Fine(Len(list))
  <2> HIDE DEF Fine
  <2> SUFFICES ASSUME Wrong # {} PROVE FALSE
    OBVIOUS
  <2>1. Wrong \in SUBSET Nat
    OBVIOUS
  <2>2. PICK x \in Wrong : \A y \in Wrong : x <= y
    <3> HIDE DEF Wrong
    <3>1. QED
      BY <2>1, Least
  <2>3. x \in 1..Len(list) /\ x - 1 \in 0..Len(list)
    BY <1>1
  <2>4. x - 1 \notin Wrong
    <3> HIDE DEF Wrong
    <3>1. QED
      BY <2>2, <2>3
  <2>5. Fine(x - 1)
    BY <2>3, <2>4
  <2>6. QED
    BY <1>2, <2>3, <2>5
<1>4. PICK f : Follows(f, Len(list))
  BY <1>3
<1> DEFINE after == CHOOSE g : g = [i \in 0..Len(list) |-> Arm(g, i)]
<1>5. Follows(after, Len(list))
  BY <1>4
<1>6. PreqElements(s, from, list) = after[Len(list)]
  BY DEF PreqElements
<1> HIDE DEF after
<1>7. \A i \in 0..Len(list) : after[i] = Arm(after, i)
  <2> DEFINE F(i) == Arm(after, i)
  <2>1. after = [i \in 0..Len(list) |-> F(i)]
    BY <1>5
  <2> HIDE DEF F
  <2>2. \A i \in 0..Len(list) : after[i] = F(i)
    BY <2>1
  <2>3. QED
    BY <2>2 DEF F
<1>8. after[0] = s
  BY <1>7
<1>9. ASSUME NEW i \in 1..Len(list)
      PROVE  after[i] = PreqElement(after[i - 1], from, list[i])
  BY <1>7
<1>10. QED
  BY <1>6, <1>8, <1>9

\* What holds at first and of each element's step holds after all of them.
LEMMA LeastFailure ==
  ASSUME NEW k \in Nat, NEW Off \in SUBSET (0..k), 0 \notin Off,
         \A i \in 1..k : i - 1 \notin Off => i \notin Off
  PROVE  Off = {}
<1> SUFFICES ASSUME Off # {} PROVE FALSE
  OBVIOUS
<1>1. Off \in SUBSET Nat
  OBVIOUS
<1>2. PICK x \in Off : \A y \in Off : x <= y
  BY <1>1, Least
<1>3. x \in 1..k /\ x - 1 \notin Off
  BY <1>2
<1>4. QED
  BY <1>3

LEMMA PreqElementsGood ==
  ASSUME NEW links, NEW s, Good(s, links), NEW from \in Node, <<s.at, from>> \in links,
         NEW list \in Seq(Requests)
  PROVE  Leads(s, PreqElements(s, from, list), links)
<1>1. Len(list) \in Nat /\ \A i \in 1..Len(list) : list[i] \in Requests
  OBVIOUS
<1>2. PICK after : /\ PreqElements(s, from, list) = after[Len(list)] /\ after[0] = s
                   /\ \A i \in 1..Len(list) :
                        after[i] = PreqElement(after[i - 1], from, list[i])
  BY <1>1, PreqElementsFollow
<1> DEFINE Off == {i \in 0..Len(list) : ~Leads(s, after[i], links)}
<1>3. 0 \notin Off
  BY <1>2, LeadsBack
<1>4. ASSUME NEW i \in 1..Len(list), i - 1 \notin Off PROVE i \notin Off
  <2>1. Leads(s, after[i - 1], links)
    BY <1>1, <1>4
  <2>2. Leads(after[i - 1], after[i], links)
    BY <1>1, <1>2, <2>1, PreqElementGood DEF Leads
  <2>3. QED
    BY <2>1, <2>2, LeadsOn
<1>5. Off \in SUBSET (0..Len(list))
  OBVIOUS
<1> HIDE DEF Off
<1>6. Off = {}
  BY <1>1, <1>3, <1>4, <1>5, LeastFailure
<1>7. QED
  BY <1>1, <1>2, <1>6 DEF Off


\* The next hop that was looked up before the new paths were stored is used after that.
LEMMA ReceivePrepGood ==
  ASSUME NEW links, NEW s, Good(s, links), NEW from \in Node, <<s.at, from>> \in links,
         NEW r \in PrepFrames
  PROVE  Leads(s, ReceivePrep(s, from, r), links)
<1> DEFINE h == s.node.heard[r.orig]
           back == s.node.rt.paths[r.dst]
           t == [s EXCEPT !.node.heard[r.orig] = [seqNo |-> r.seqNo, metric |-> r.metric]]
           path == PathTo(t, r.orig, from, r.metric, r.seqNo)
           told == AddPrecursor(path.node.rt, r.dst, from)
           more == AddPrecursor(told, r.orig, back.next)
           new == IF back.active THEN more ELSE told
           stored == WithTable(path, new)
           u == IF h.seqNo # r.seqNo \/ Improves(t.node.rt, r.orig, r.metric) THEN stored ELSE t
           v == PathToNeighbor(u, from, r.seqNo)
           sent == Emit(v, back.next, r)
           result == ReceivePrep(s, from, r)
           old == h.seqNo > r.seqNo
           passed == h.seqNo <= r.seqNo /\ r.dst # s.at /\ back.active
<1>1. /\ old => result = s
      /\ ~old /\ passed => result = sent
      /\ ~old /\ ~passed => result = v
  <2>1. result = CASE old -> s [] passed -> sent [] OTHER -> v
    BY DEF ReceivePrep
  <2>2. ~(old /\ passed)
    <3>1. s.node.heard \in [Node -> [seqNo: Nat, metric: Nat]]
      BY GoodParts DEF Steps, NodeState
    <3>2. r.orig \in Node /\ r.seqNo \in Nat
      BY DEF PrepFrames
    <3>3. h.seqNo \in Nat
      BY <3>1, <3>2
    <3> HIDE DEF h
    <3>4. QED
      BY <3>2, <3>3
  <2> HIDE DEF old, passed, sent, v, result
  <2>3. old => result = s
    BY <2>1, <2>2
  <2>4. ~old /\ passed => result = sent
    BY <2>1, <2>2
  <2>5. ~old /\ ~passed => result = v
    BY <2>1, <2>2
  <2>6. QED
    BY <2>3, <2>4, <2>5
<1>2. r.orig \in Node /\ r.dst \in Node /\ r.seqNo \in Nat /\ r.metric \in Nat /\ r \in Packets
  BY DEF PrepFrames, Packets
<1>3. back.active => back.next \in Node
  BY <1>2, GoodParts, TableParts DEF Good, Leading
<1>4. passed => back.active
  OBVIOUS
<1> HIDE DEF old, passed, back, result
<1>5. Leads(s, t, links)
  <2>1. Beside(s, t)
    BY <1>2, GoodParts, HeardFacts
  <2> HIDE DEF t
  <2>2. QED
    BY <2>1, BesideGood
<1> HIDE DEF t, h
<1>6. Leads(t, path, links)
  BY <1>2, <1>5, PathToGood DEF Leads
<1> HIDE DEF path
<1>7. path.node.rt \in Table
  BY <1>6, GoodParts DEF Leads
<1>8. told \in Table /\ SamePaths(path.node.rt, told)
  BY <1>7, AddPrecursorsFacts DEF AddPrecursor
<1> HIDE DEF told
<1>9. back.active => more \in Table /\ SamePaths(told, more)
  BY <1>3, <1>8, AddPrecursorsFacts DEF AddPrecursor
<1> HIDE DEF more
<1>10. new \in Table /\ SamePaths(path.node.rt, new)
  BY <1>8, <1>9 DEF SamePaths
<1> HIDE DEF new
<1>11. Leads(path, stored, links)
  BY <1>6, <1>10, SamePathsGood DEF Leads
<1> HIDE DEF stored
<1>12. Leads(t, stored, links)
  BY <1>6, <1>11, LeadsOn
<1>13. Leads(s, u, links)
  <2>1. Leads(s, stored, links)
    BY <1>5, <1>12, LeadsOn
  <2>2. QED
    BY <1>5, <2>1
<1> HIDE DEF u
<1>14. Leads(u, v, links)
  BY <1>2, <1>13, PathToNeighborGood DEF Leads
<1> HIDE DEF v
<1>15. Leads(s, v, links)
  BY <1>13, <1>14, LeadsOn
<1>16. back.active => Leads(v, sent, links)
  <2>1. back.active => Beside(v, sent)
    BY <1>2, <1>3, <1>15, EmitFacts DEF Leads, Good
  <2>2. QED
    BY <1>15, <2>1, BesideGood DEF Leads
<1> HIDE DEF sent
<1>17. Leads(s, result, links)
  BY <1>4, <1>1, <1>15, <1>16, LeadsBack, LeadsOn
<1>18. QED
  BY <1>17 DEF result

LEMMA PrepElementGood ==
  ASSUME NEW links, NEW s, Good(s, links), NEW from \in Node, <<s.at, from>> \in links,
         NEW r \in PrepFrames
  PROVE  Leads(s, PrepElement(s, from, r), links)
<1> DEFINE q == [r EXCEPT !.metric = @ + 1, !.ttl = @ - 1]
<1>1. CASE r.ttl = 0
  BY <1>1, LeadsBack DEF PrepElement
<1>2. CASE r.ttl # 0
  <2>1. r.metric + 1 \in Nat /\ r.ttl - 1 \in 0..MaxTtl
    BY <1>2, HwmpAttributes DEF PrepFrames
  <2>2. q \in PrepFrames
    BY <2>1 DEF PrepFrames
  <2>3. PrepElement(s, from, r) = ReceivePrep(s, from, q)
    BY <1>2 DEF PrepElement
  <2> HIDE DEF q
  <2>4. QED
    BY <2>2, <2>3, ReceivePrepGood
<1>3. QED
  BY <1>1, <1>2

LEMMA ReceiveFrameGood ==
  ASSUME NEW links, NEW s, Good(s, links), NEW from \in Node, <<s.at, from>> \in links,
         NEW p \in Packets
  PROVE  Leads(s, ReceiveFrame(s, from, p), links)
<1>1. CASE p \in PreqFrames
  <2>1. p.type = "PREQ" /\ p.list \in Seq(Requests)
    BY <1>1 DEF PreqFrames
  <2>2. ReceiveFrame(s, from, p) = PreqElements(s, from, p.list)
    BY <2>1 DEF ReceiveFrame
  <2>3. QED
    BY <2>1, <2>2, PreqElementsGood
<1>2. CASE p \in PrepFrames
  <2>1. ReceiveFrame(s, from, p) = PrepElement(s, from, p)
    BY <1>2 DEF ReceiveFrame, PrepFrames
  <2>2. QED
    BY <1>2, <2>1, PrepElementGood
<1>3. CASE p \in PerrFrames
  <2>1. p.failed \in SUBSET Failed
    BY <1>3 DEF PerrFrames
  <2>2. ReceiveFrame(s, from, p) = ReceivePerr(s, from, p.failed)
    BY <1>3 DEF ReceiveFrame, PerrFrames
  <2>3. QED
    BY <2>1, <2>2, ReceivePerrGood
<1>4. CASE p \in Datas
  <2>1. ReceiveFrame(s, from, p) = IF p.dst = s.at THEN s ELSE ForwardPacket(s, p)
    BY <1>4 DEF ReceiveFrame, Datas
  <2>2. QED
    BY <1>4, <2>1, ForwardPacketGood, LeadsBack
<1>5. QED
  BY <1>1, <1>2, <1>3, <1>4 DEF Packets

LEMMA SendProactivePreqGood ==
  ASSUME NEW links, NEW s, Good(s, links)
  PROVE  Leads(s, SendProactivePreq(s), links)
<1> DEFINE t == NextSeqNo(s)
           q == [orig |-> t.at, seqNo |-> t.node.seqNo, metric |-> 0, ttl |-> MaxTtl,
                 dests |-> {Wanted(All, 0, TRUE, TRUE)}]
           u == SendPreq(t, <<q>>)
<1>1. SendProactivePreq(s) = u
  BY DEF SendProactivePreq
<1>2. Beside(s, t) /\ t.node.seqNo \in Nat /\ t.at \in Node
  BY GoodParts, NextSeqNoFacts DEF Beside
<1> HIDE DEF t
<1>3. q \in Requests
  <2>1. {Wanted(All, 0, TRUE, TRUE)} \in SUBSET Asked
    BY WantedType
  <2>2. MaxTtl \in 0..MaxTtl
    BY HwmpAttributes
  <2>3. QED
    BY <1>2, <2>1, <2>2 DEF Requests
<1> HIDE DEF q
<1>4. Beside(t, u)
  <2>1. <<q>> \in Seq(Requests)
    BY <1>3
  <2>2. QED
    BY <1>2, <2>1, SendPreqFacts DEF Beside
<1>5. QED
  BY <1>1, <1>2, <1>4, BesideOn, BesideGood


-----------------------------------------------------------------------------
(* The mesh.                                                               *)

Frames == [from: Node, to: Node, packet: Packets] \cup [from: Node, to: {All}, packet: PreqFrames]

Sound(n) == Good(Step(n), up)

\* What the actions rely on: the mesh points are sound, and so are the frames in transit.
Stations ==
  /\ node \in [Node -> NodeState]
  /\ \A n \in Node : Sound(n)
  /\ air \subseteq Frames

IInv == TypeOK /\ Stations

LEMMA SoundParts ==
  ASSUME Stations, NEW n \in Node
  PROVE  /\ Step(n).at = n /\ Step(n).node = node[n] /\ node[n] \in NodeState
         /\ Good(Step(n), up) /\ Step(n) \in Steps
BY DEF Stations, Sound, Good, Step, Begin

\* Good speaks of the links of its own mesh point only.
LEMMA OtherLinksGood ==
  ASSUME NEW s, NEW links, Good(s, links), NEW more,
         \A m : <<s.at, m>> \in links => <<s.at, m>> \in more
  PROVE  Good(s, more)
BY DEF Good, Leading

\* Every mesh point has taken a step or none, and the frames of the steps are in the air.
LEMMA Progress ==
  ASSUME Stations, NEW t,
         \A n \in Node : t[n].at = n /\ Good(t[n], up'),
         node' = [n \in Node |-> t[n].node],
         \A f \in air' : f \in air \/ \E n \in Node : f \in Transmitted(t[n], up')
  PROVE  Stations'
<1>1. \A n \in Node : t[n] \in Steps /\ node'[n] = t[n].node /\ t[n].node \in NodeState
  BY DEF Good, Steps
<1>2. node' \in [Node -> NodeState]
  BY <1>1
<1>3. ASSUME NEW n \in Node PROVE Sound(n)'
  <2>1. /\ Step(n)'.at = n /\ Step(n)'.node = t[n].node /\ Step(n)' \in Steps
    BY <1>1, <1>2 DEF Step, Begin, Steps
  <2>2. Leading(t[n].node.rt, n, up') /\ Waits(t[n].node)
    BY DEF Good
  <2>3. Good(Step(n)', up')
    BY <2>1, <2>2 DEF Good
  <2>4. QED
    BY <2>3 DEF Sound
<1>4. ASSUME NEW f \in air' PROVE f \in Frames
  <2>1. CASE f \in air
    BY <2>1 DEF Stations
  <2>2. CASE \E n \in Node : f \in Transmitted(t[n], up')
    <3>1. PICK n \in Node : f \in Transmitted(t[n], up')
      BY <2>2
    <3>2. PICK o \in t[n].out : f = [from |-> t[n].at, to |-> o.to, packet |-> o.packet]
      BY <3>1 DEF Transmitted
    <3>3. o \in Sent /\ t[n].at \in Node
      BY <1>1 DEF Steps
    <3>4. CASE o \in [to: Node, packet: Packets]
      BY <3>2, <3>3, <3>4 DEF Frames
    <3>5. CASE o \in [to: {All}, packet: PreqFrames]
      BY <3>2, <3>3, <3>5 DEF Frames
    <3>6. QED
      BY <3>3, <3>4, <3>5 DEF Sent
  <2>3. QED
    BY <2>1, <2>2
<1>5. QED
  BY <1>2, <1>3, <1>4 DEF Stations

\* One mesh point has taken a step of the handlers; the links of the others stay.
LEMMA OneTakes ==
  ASSUME Stations, NEW n \in Node, NEW u, u.at = n, Good(u, up'),
         \A k \in Node \ {n} : \A m : <<k, m>> \in up => <<k, m>> \in up',
         NEW base, base \subseteq air,
         node' = [node EXCEPT ![n] = u.node], air' = base \cup Transmitted(u, up')
  PROVE  Stations'
<1> DEFINE t == [m \in Node |-> IF m = n THEN u ELSE Step(m)]
<1>1. \A m \in Node : Step(m).at = m /\ Step(m).node = node[m]
  BY SoundParts
<1>2. ASSUME NEW k \in Node \ {n} PROVE Good(Step(k), up')
  <2>1. Good(Step(k), up) /\ Step(k).at = k
    BY SoundParts
  <2>2. \A m : <<k, m>> \in up => <<k, m>> \in up'
    OBVIOUS
  <2>3. QED
    BY <2>1, <2>2, OtherLinksGood
<1>3. \A m \in Node : t[m].at = m /\ Good(t[m], up')
  BY <1>1, <1>2
<1>4. t[n] = u /\ \A m \in Node : t[m].node = IF m = n THEN u.node ELSE node[m]
  BY <1>1
<1> HIDE DEF t
<1>5. node' = [m \in Node |-> t[m].node]
  BY <1>4 DEF Stations
<1>6. \A f \in air' : f \in air \/ \E m \in Node : f \in Transmitted(t[m], up')
  BY <1>4
<1>7. QED
  BY <1>3, <1>5, <1>6, Progress

LEMMA TakeKeeps ==
  ASSUME Stations, NEW n \in Node, NEW u, Leads(Step(n), u, up), up' = up, Take(u, air)
  PROVE  Stations'
<1>1. u.at = n /\ Good(u, up')
  BY SoundParts DEF Leads
<1>2. node' = [node EXCEPT ![n] = u.node] /\ air' = air \cup Transmitted(u, up')
  BY <1>1 DEF Take
<1>3. \A k \in Node \ {n} : \A m : <<k, m>> \in up => <<k, m>> \in up'
  OBVIOUS
<1>4. QED
  BY <1>1, <1>2, <1>3, OneTakes

\* The table of a mesh point has changed by itself.
LEMMA ChangeKeeps ==
  ASSUME Stations, NEW n \in Node, NEW rt \in Table, Leading(rt, n, up),
         \A d \in Node : Unreached(node[n].rt, d) => Unreached(rt, d),
         node' = [node EXCEPT ![n] = [node[n] EXCEPT !.rt = rt]], air' = air, up' = up
  PROVE  Stations'
<1> DEFINE u == WithTable(Step(n), rt)
<1>1. /\ Step(n).at = n /\ Step(n).node = node[n] /\ Good(Step(n), up)
      /\ Step(n) \in Steps /\ Step(n).out = {}
  BY SoundParts DEF Step, Begin
<1>2. \A p \in node[n].queue : p.dst \in Node /\ Unreached(node[n].rt, p.dst)
  BY <1>1, GoodParts DEF Good, Waits
<1>3. Leads(Step(n), u, up) /\ u.at = n
  BY <1>1, <1>2, TableGood
<1>4. u.node = [node[n] EXCEPT !.rt = rt] /\ u.out = {}
  BY <1>1 DEF WithTable, Steps
<1> HIDE DEF u
<1>5. Transmitted(u, up') = {}
  BY <1>4 DEF Transmitted
<1>6. Take(u, air)
  BY <1>3, <1>4, <1>5 DEF Take
<1>7. QED
  BY <1>3, <1>6, TakeKeeps

-----------------------------------------------------------------------------
(* The invariant holds at first and every action keeps it.                 *)

LEMMA InitIInv == Init => IInv
<1> SUFFICES ASSUME Init PROVE IInv
  OBVIOUS
<1>1. EmptyTable \in Table
  BY NothingIsType DEF EmptyTable, Table
<1>2. EmptyTable.root = NoRoot /\ \A d \in Node : EmptyTable.paths[d] = NoPath
  BY DEF EmptyTable
<1>3. NewNode \in NodeState /\ NewNode.rt = EmptyTable /\ NewNode.queue = {}
  <2>1. <<>> \in Seq(Requests)
    OBVIOUS
  <2>2. [d \in Node |-> 0] \in [Node -> 0..(MaxRetries + 1)]
    BY HwmpAttributes
  <2>3. [d \in Node |-> [seqNo |-> 0, metric |-> 0]] \in [Node -> [seqNo: Nat, metric: Nat]]
    OBVIOUS
  <2>4. QED
    BY <1>1, <2>1, <2>2, <2>3 DEF NewNode, NodeState
<1>4. node \in [Node -> NodeState] /\ \A n \in Node : node[n] = NewNode
  BY <1>3 DEF Init
<1>5. \A d \in Node : ~EmptyTable.paths[d].active /\ EmptyTable.paths[d].next = None
  BY <1>2 DEF NoPath
<1>6. ~EmptyTable.root.active /\ EmptyTable.root.next = None
  BY <1>2 DEF NoRoot
<1>7. TypeOK
  BY <1>3, <1>4, <1>5, NetworkAssumption DEF Init, TypeOK
<1>8. ASSUME NEW n \in Node PROVE Sound(n)
  <2>1. Step(n) \in Steps /\ Step(n).at = n /\ Step(n).node = NewNode
    BY <1>3, <1>4 DEF Step, Begin, Steps
  <2>2. Leading(EmptyTable, n, up)
    BY <1>5, <1>6 DEF Leading
  <2>3. QED
    BY <1>3, <2>1, <2>2 DEF Sound, Good, Waits
<1>9. QED
  BY <1>4, <1>7, <1>8 DEF IInv, Stations, Init

LEMMA SendDataKeeps ==
  ASSUME IInv, NEW m \in Message, SendData(m)
  PROVE  Stations'
<1> DEFINE n == source[m]
           p == Data(n, target[m], MaxTtl, m)
           u == SendPacket(Step(n), p)
<1>1. n \in Node /\ target[m] \in Node /\ MaxTtl \in 1..MaxTtl
  BY NetworkAssumption, HwmpAttributes
<1>2. Stations /\ Good(Step(n), up)
  BY <1>1, SoundParts DEF IInv
<1>3. p \in Datas
  BY <1>1 DEF Data, Datas
<1>4. Take(u, air) /\ up' = up
  BY DEF SendData
<1> HIDE DEF p
<1>5. Leads(Step(n), u, up)
  BY <1>2, <1>3, ForwardUnicastGood DEF SendPacket
<1> HIDE DEF n, u
<1>6. QED
  BY <1>1, <1>2, <1>4, <1>5, TakeKeeps

LEMMA ProactivePreqKeeps ==
  ASSUME IInv, NEW n \in Node, ProactivePreq(n)
  PROVE  Stations'
<1>1. Stations /\ Good(Step(n), up)
  BY SoundParts DEF IInv
<1>2. Leads(Step(n), SendProactivePreq(Step(n)), up)
  BY <1>1, SendProactivePreqGood
<1>3. QED
  BY <1>1, <1>2, TakeKeeps DEF ProactivePreq

LEMMA ReceiveKeeps ==
  ASSUME IInv, NEW f \in air, NEW lost, Receive(f, lost)
  PROVE  Stations'
<1> DEFINE hears == Receivers(f) \ lost
           Input(n) == ReceiveFrame(Step(n), f.from, f.packet)
           t == [n \in Node |-> IF n \in hears THEN Input(n) ELSE Step(n)]
<1>1. Stations /\ up' = up
  BY DEF IInv, Receive
<1>2. ASSUME NEW n \in Node PROVE t[n].at = n /\ Good(t[n], up')
  <2>1. Good(Step(n), up) /\ Step(n).at = n
    BY <1>1, SoundParts
  <2>2. f.from \in Node /\ f.packet \in Packets
    BY <1>1 DEF Stations, Frames, Packets
  <2>3. ASSUME n \in hears PROVE Leads(Step(n), Input(n), up)
    <3>1. <<Step(n).at, f.from>> \in up
      BY <2>1, <2>3 DEF Receivers
    <3>2. QED
      BY <2>1, <2>2, <3>1, ReceiveFrameGood
  <2> HIDE DEF hears, Input
  <2>4. QED
    BY <1>1, <2>1, <2>3 DEF Leads
<1>3. node' = [n \in Node |-> IF n \in hears THEN Input(n).node ELSE node[n]]
  BY DEF Receive
<1>4. air' = (air \ {f}) \cup UNION {Transmitted(Input(n), up') : n \in hears}
  BY <1>1 DEF Receive
<1>5. hears \subseteq Node
  BY DEF Receivers
<1> HIDE DEF hears, Input
<1>6. \A n \in Node : /\ n \in hears => t[n] = Input(n)
                      /\ n \notin hears => t[n] = Step(n)
  OBVIOUS
<1> HIDE DEF t
<1>7. \A n \in Node : Step(n).node = node[n]
  BY <1>1, SoundParts
<1>8. node' = [n \in Node |-> t[n].node]
  BY <1>3, <1>6, <1>7
<1>9. \A g \in air' : g \in air \/ \E n \in Node : g \in Transmitted(t[n], up')
  BY <1>4, <1>5, <1>6
<1>10. QED
  BY <1>1, <1>2, <1>8, <1>9, Progress

LEMMA RetryTimerKeeps ==
  ASSUME IInv, NEW n \in Node, NEW d \in Node, RetryTimer(n, d)
  PROVE  Stations'
<1>1. Stations /\ Good(Step(n), up)
  BY SoundParts DEF IInv
<1>2. Leads(Step(n), RetryPathDiscovery(Step(n), d), up)
  BY <1>1, RetryPathDiscoveryGood
<1>3. QED
  BY <1>1, <1>2, TakeKeeps DEF RetryTimer

LEMMA PreqTimerKeeps ==
  ASSUME IInv, NEW n \in Node, PreqTimer(n)
  PROVE  Stations'
<1> DEFINE s == Step(n)
           t == [s EXCEPT !.node.preqTimer = FALSE]
           u == SendMyPreq(t)
<1>1. Stations /\ Good(s, up)
  BY SoundParts DEF IInv
<1>2. Take(u, air) /\ up' = up
  BY DEF PreqTimer
<1> HIDE DEF s
<1>3. Beside(s, t)
  <2>1. s \in Steps
    BY <1>1 DEF Good
  <2>2. t \in Steps
    BY <2>1 DEF Steps, NodeState
  <2>3. /\ t.at = s.at /\ t.node.rt = s.node.rt /\ t.node.queue = s.node.queue
        /\ t.node.timers = s.node.timers
    BY <2>1 DEF Steps, NodeState
  <2> HIDE DEF t
  <2>4. QED
    BY <2>2, <2>3 DEF Beside
<1> HIDE DEF t
<1>4. Beside(t, u)
  BY <1>3, SendMyPreqFacts DEF Beside
<1>5. Beside(s, u)
  BY <1>3, <1>4, BesideOn
<1> HIDE DEF u
<1>6. Leads(s, u, up)
  BY <1>1, <1>5, BesideGood
<1>7. QED
  BY <1>1, <1>2, <1>6, TakeKeeps DEF s

LEMMA PerrTimerKeeps ==
  ASSUME IInv, NEW n \in Node, PerrTimer(n)
  PROVE  Stations'
<1>1. Stations /\ Good(Step(n), up) /\ Step(n) \in Steps
  BY SoundParts DEF IInv
<1>2. Beside(Step(n), SendMyPerr(Step(n)))
  BY <1>1, SendMyPerrFacts
<1>3. Leads(Step(n), SendMyPerr(Step(n)), up)
  BY <1>1, <1>2, BesideGood
<1>4. QED
  BY <1>1, <1>3, TakeKeeps DEF PerrTimer

LEMMA PathExpiresKeeps ==
  ASSUME IInv, NEW n \in Node, NEW d \in Node, NEW forgotten, PathExpires(n, d, forgotten)
  PROVE  Stations'
<1> DEFINE rt == node[n].rt
           old == rt.paths[d]
           new == [old EXCEPT !.active = FALSE, !.precursors = @ \ forgotten]
           paths == [rt.paths EXCEPT ![d] = new]
           u == ExpirePath(rt, d, forgotten)
<1>1. Stations /\ rt \in Table /\ node[n] \in NodeState
  BY SoundParts DEF IInv, NodeState
<1>2. Leading(rt, n, up)
  BY <1>1, SoundParts DEF Good
<1>3. node' = [node EXCEPT ![n] = [node[n] EXCEPT !.rt = u]] /\ air' = air /\ up' = up
  BY <1>1 DEF PathExpires, Stations
<1> HIDE DEF rt
<1>4. old \in Paths /\ rt.paths \in [Node -> Paths]
  BY <1>1 DEF Table
<1>5. u = [rt EXCEPT !.paths = paths]
  BY <1>1, <1>4 DEF ExpirePath, Table, Paths
<1> HIDE DEF old
<1>6. new \in Paths /\ ~new.active /\ new.next = old.next
  BY <1>4 DEF Paths
<1> HIDE DEF new
<1>7. /\ paths \in [Node -> Paths] /\ paths[d] = new
      /\ \A e \in Node \ {d} : paths[e] = rt.paths[e]
  BY <1>4, <1>6
<1> HIDE DEF paths, u
<1>8. u \in Table /\ u.paths = paths /\ u.root = rt.root
  BY <1>1, <1>5, <1>7 DEF Table
<1>9. Leading(u, n, up)
  <2>1. \A e \in Node : u.paths[e].next = rt.paths[e].next
    BY <1>6, <1>7, <1>8 DEF old
  <2>2. \A e \in Node : u.paths[e].active => rt.paths[e].active
    BY <1>6, <1>7, <1>8
  <2>3. QED
    BY <1>2, <1>8, <2>1, <2>2 DEF Leading
<1>10. \A e \in Node : Unreached(rt, e) => Unreached(u, e)
  BY <1>6, <1>7, <1>8 DEF Unreached
<1>11. QED
  BY <1>1, <1>3, <1>8, <1>9, <1>10, ChangeKeeps DEF rt

LEMMA RootExpiresKeeps ==
  ASSUME IInv, NEW n \in Node, RootExpires(n)
  PROVE  Stations'
<1> DEFINE rt == node[n].rt
           u == ExpireRoot(rt)
<1>1. Stations /\ rt \in Table /\ node[n] \in NodeState
  BY SoundParts DEF IInv, NodeState
<1>2. Leading(rt, n, up)
  BY <1>1, SoundParts DEF Good
<1>3. node' = [node EXCEPT ![n] = [node[n] EXCEPT !.rt = u]] /\ air' = air /\ up' = up
  BY <1>1 DEF RootExpires, Stations
<1> HIDE DEF rt
<1>4. /\ u \in Table /\ u.paths = rt.paths /\ ~u.root.active
      /\ u.root.next = rt.root.next /\ u.root.root = rt.root.root
  BY <1>1 DEF ExpireRoot, Table, Roots
<1> HIDE DEF u
<1>5. Leading(u, n, up)
  BY <1>2, <1>4 DEF Leading
<1>6. \A e \in Node : Unreached(rt, e) => Unreached(u, e)
  BY <1>4 DEF Unreached
<1>7. QED
  BY <1>1, <1>3, <1>4, <1>5, <1>6, ChangeKeeps DEF rt

\* The paths over the link have gone before the link has.
LEMMA LinkClosesKeeps ==
  ASSUME IInv, NEW n \in Node, NEW m \in Node, LinkCloses(n, m)
  PROVE  Stations'
<1> DEFINE u == PathsFail(Step(n), m)
<1>1. Stations /\ Good(Step(n), up) /\ Step(n).at = n
  BY SoundParts DEF IInv
<1>2. Take(u, air) /\ up' = up \ {<<n, m>>}
  BY DEF LinkCloses, PeerLinkClosed
<1>3. /\ Leads(Step(n), u, up) /\ u.node.rt.root.next # m
      /\ \A d \in Node : u.node.rt.paths[d].next # m
  BY <1>1, PathsFailGood
<1> HIDE DEF u
<1>4. u.at = n /\ Good(u, up)
  BY <1>1, <1>3 DEF Leads
<1>5. Leading(u.node.rt, n, up')
  <2>1. \A k : k # m /\ <<n, k>> \in up => <<n, k>> \in up'
    BY <1>2
  <2>2. QED
    BY <1>3, <1>4, <2>1 DEF Good, Leading
<1>6. Good(u, up')
  BY <1>4, <1>5 DEF Good
<1>7. \A k \in Node \ {n} : \A l : <<k, l>> \in up => <<k, l>> \in up'
  BY <1>2
<1>8. node' = [node EXCEPT ![n] = u.node] /\ air' = air \cup Transmitted(u, up')
  BY <1>2, <1>4 DEF Take
<1>9. QED
  BY <1>1, <1>4, <1>6, <1>7, <1>8, OneTakes

LEMMA LinkOpensKeeps ==
  ASSUME IInv, NEW n \in Node, NEW m \in Node, LinkOpens(n, m)
  PROVE  Stations'
<1>1. Stations /\ node' = node /\ air' = air /\ up' = up \cup {<<n, m>>}
  BY DEF IInv, LinkOpens
<1>2. ASSUME NEW k \in Node PROVE Sound(k)'
  <2>1. Step(k)' = Step(k)
    BY <1>1 DEF Step, Begin
  <2>2. Good(Step(k), up')
    BY <1>1, SoundParts, OtherLinksGood
  <2>3. QED
    BY <2>1, <2>2 DEF Sound
<1>3. QED
  BY <1>1, <1>2 DEF Stations


LEMMA UnchangedKeeps ==
  ASSUME IInv, UNCHANGED vars
  PROVE  Stations'
BY DEF IInv, Stations, Sound, Good, Step, Begin, vars

LEMMA LossesAreCounted ==
  ASSUME TypeOK, NEW f, NEW lost, Receive(f, lost)
  PROVE  faults' \in Nat
<1>1. lost \subseteq Node
  BY DEF Receive, Receivers
<1>2. IsFiniteSet(lost)
  BY <1>1, NetworkAssumption, FS_Subset
<1>3. QED
  BY <1>2, FS_CardinalityType DEF TypeOK, Receive

\* The rest of the type invariant, which the actions keep without a look at the handlers.
LEMMA RestOfType ==
  ASSUME TypeOK, Stations',
         up' \subseteq Links, unsent' \subseteq unsent, unheard' \subseteq unheard,
         delivered' \subseteq Message, faults' \in Nat
  PROVE  IInv'
<1>1. node' \in [Node -> NodeState] /\ air' \subseteq Frames
  BY DEF Stations
<1>2. ASSUME NEW n \in Node, NEW d \in Node, node'[n].rt.paths[d].active
      PROVE  node'[n].rt.paths[d].next # None
  <2>1. Sound(n)'
    BY DEF Stations
  <2>2. Step(n)'.node = node'[n]
    BY DEF Step, Begin
  <2>3. QED
    BY <1>2, <2>1, <2>2 DEF Sound, Good, Leading
<1>3. air' \subseteq [from: Node, to: Node \cup {All}, packet: Packets]
  BY <1>1 DEF Frames, Packets
<1>4. QED
  BY <1>1, <1>2, <1>3 DEF IInv, TypeOK

LEMMA NextIInv == IInv /\ [Next]_vars => IInv'
<1> SUFFICES ASSUME IInv, [Next]_vars PROVE IInv'
  OBVIOUS
<1> USE DEF IInv
<1>1. CASE UNCHANGED vars
  BY <1>1, UnchangedKeeps, RestOfType DEF TypeOK, vars
<1>2. ASSUME NEW m \in Message, SendData(m) PROVE IInv'
  <2>1. up' \subseteq Links /\ unsent' \subseteq unsent /\ unheard' \subseteq unheard
    BY <1>2 DEF SendData, TypeOK
  <2>2. delivered' \subseteq Message /\ faults' \in Nat
    BY <1>2 DEF SendData, TypeOK
  <2>3. QED
    BY <1>2, <2>1, <2>2, SendDataKeeps, RestOfType
<1>3. ASSUME NEW f \in air, NEW lost \in SUBSET Receivers(f), Receive(f, lost) PROVE IInv'
  <2>1. up' \subseteq Links /\ unsent' \subseteq unsent /\ unheard' \subseteq unheard
    BY <1>3 DEF Receive, TypeOK
  <2>2. delivered' \subseteq Message /\ faults' \in Nat
    BY <1>3, LossesAreCounted DEF Receive, TypeOK
  <2>3. QED
    BY <1>3, <2>1, <2>2, ReceiveKeeps, RestOfType
<1>4. ASSUME NEW n \in Node, ProactivePreq(n) PROVE IInv'
  <2>1. up' \subseteq Links /\ unsent' \subseteq unsent /\ unheard' \subseteq unheard
    BY <1>4 DEF ProactivePreq, TypeOK
  <2>2. delivered' \subseteq Message /\ faults' \in Nat
    BY <1>4 DEF ProactivePreq, TypeOK
  <2>3. QED
    BY <1>4, <2>1, <2>2, ProactivePreqKeeps, RestOfType
<1>5. ASSUME NEW n \in Node, PreqTimer(n) PROVE IInv'
  <2>1. up' \subseteq Links /\ unsent' \subseteq unsent /\ unheard' \subseteq unheard
    BY <1>5 DEF PreqTimer, TypeOK
  <2>2. delivered' \subseteq Message /\ faults' \in Nat
    BY <1>5 DEF PreqTimer, TypeOK
  <2>3. QED
    BY <1>5, <2>1, <2>2, PreqTimerKeeps, RestOfType
<1>6. ASSUME NEW n \in Node, PerrTimer(n) PROVE IInv'
  <2>1. up' \subseteq Links /\ unsent' \subseteq unsent /\ unheard' \subseteq unheard
    BY <1>6 DEF PerrTimer, TypeOK
  <2>2. delivered' \subseteq Message /\ faults' \in Nat
    BY <1>6 DEF PerrTimer, TypeOK
  <2>3. QED
    BY <1>6, <2>1, <2>2, PerrTimerKeeps, RestOfType
<1>7. ASSUME NEW n \in Node, RootExpires(n) PROVE IInv'
  <2>1. up' \subseteq Links /\ unsent' \subseteq unsent /\ unheard' \subseteq unheard
    BY <1>7 DEF RootExpires, TypeOK
  <2>2. delivered' \subseteq Message /\ faults' \in Nat
    BY <1>7 DEF RootExpires, Fault, TypeOK
  <2>3. QED
    BY <1>7, <2>1, <2>2, RootExpiresKeeps, RestOfType
<1>8. ASSUME NEW n \in Node, NEW d \in Node, RetryTimer(n, d) PROVE IInv'
  <2>1. up' \subseteq Links /\ unsent' \subseteq unsent /\ unheard' \subseteq unheard
    BY <1>8 DEF RetryTimer, TypeOK
  <2>2. delivered' \subseteq Message /\ faults' \in Nat
    BY <1>8 DEF RetryTimer, TypeOK
  <2>3. QED
    BY <1>8, <2>1, <2>2, RetryTimerKeeps, RestOfType
<1>9. ASSUME NEW n \in Node, NEW m \in Node, LinkCloses(n, m) PROVE IInv'
  <2>1. up' \subseteq Links /\ unsent' \subseteq unsent /\ unheard' \subseteq unheard
    BY <1>9 DEF LinkCloses, TypeOK
  <2>2. delivered' \subseteq Message /\ faults' \in Nat
    BY <1>9 DEF LinkCloses, Fault, TypeOK
  <2>3. QED
    BY <1>9, <2>1, <2>2, LinkClosesKeeps, RestOfType
<1>10. ASSUME NEW n \in Node, NEW m \in Node, LinkOpens(n, m) PROVE IInv'
  <2>1. up' \subseteq Links /\ unsent' \subseteq unsent /\ unheard' \subseteq unheard
    BY <1>10 DEF LinkOpens, TypeOK
  <2>2. delivered' \subseteq Message /\ faults' \in Nat
    BY <1>10 DEF LinkOpens, Fault, TypeOK
  <2>3. QED
    BY <1>10, <2>1, <2>2, LinkOpensKeeps, RestOfType
<1>11. ASSUME NEW n \in Node, NEW d \in Node, NEW forgotten, PathExpires(n, d, forgotten)
       PROVE  IInv'
  <2>1. up' \subseteq Links /\ unsent' \subseteq unsent /\ unheard' \subseteq unheard
    BY <1>11 DEF PathExpires, TypeOK
  <2>2. delivered' \subseteq Message /\ faults' \in Nat
    BY <1>11 DEF PathExpires, Fault, TypeOK
  <2>3. QED
    BY <1>11, <2>1, <2>2, PathExpiresKeeps, RestOfType
<1>12. QED
  BY <1>1, <1>2, <1>3, <1>4, <1>5, <1>6, <1>7, <1>8, <1>9, <1>10, <1>11 DEF Next

LEMMA Inductive == Spec => []IInv
BY InitIInv, NextIInv, PTL DEF Spec

-----------------------------------------------------------------------------
(* The theorems.                                                           *)

\* Mesh points, frames and links keep their types in every run, whatever is lost and
\* whichever paths expire and links close: no active path lacks a next hop, no TTL leaves
\* its range, and no search is retried more often than Dot11MeshHWMPmaxPREQretries says.
THEOREM TypeCorrect == Spec => []TypeOK
<1>1. IInv => TypeOK
  BY DEF IInv
<1>2. QED
  BY <1>1, Inductive, PTL

\* A packet in m_rqueue has a running retry timer for its destination, and no active path
\* by which it could leave: each path that a request, a reply or an announcement of the
\* root makes empties the queue behind it, and RetryPathDiscovery drops what it gives up.
THEOREM NoPacketForgotten == Spec => []PacketsWait
<1>1. IInv => PacketsWait
  <2> SUFFICES ASSUME IInv, NEW n \in Node, NEW p \in node[n].queue
               PROVE  node[n].timers[p.dst] # 0 /\ NextHop(node[n].rt, p.dst) = None
    BY DEF PacketsWait
  <2>1. Step(n).node = node[n] /\ Step(n).at = n /\ Good(Step(n), up)
    BY SoundParts DEF IInv
  <2>2. /\ node[n].timers[p.dst] # 0 /\ Unreached(node[n].rt, p.dst)
        /\ Leading(node[n].rt, n, up)
    BY <2>1 DEF Good, Waits
  <2>3. node[n].rt \in Table /\ p.dst \in Node
    BY <2>1, GoodParts
  <2>4. QED
    BY <2>2, <2>3, NextHopFacts
<1>2. QED
  BY <1>1, Inductive, PTL

\* No path, active or expired, leads over a link that is not active at its own end:
\* PeerLinkStatus deletes what leads over a link that closes, and a frame is taken only
\* over an active link of its receiver.
THEOREM PathsOverLinks == Spec => []PathsUseLinks
<1>1. IInv => PathsUseLinks
  <2> SUFFICES ASSUME IInv, NEW n \in Node
               PROVE  /\ \A d \in Node : node[n].rt.paths[d].next # None
                                           => <<n, node[n].rt.paths[d].next>> \in up
                      /\ node[n].rt.root.next # None => <<n, node[n].rt.root.next>> \in up
    BY DEF PathsUseLinks
  <2>1. Step(n).node = node[n] /\ Step(n).at = n /\ Good(Step(n), up)
    BY SoundParts DEF IInv
  <2>2. Leading(node[n].rt, n, up)
    BY <2>1 DEF Good
  <2>3. QED
    BY <2>2 DEF Leading
<1>2. QED
  BY <1>1, Inductive, PTL

-----------------------------------------------------------------------------
(* What the handlers do to the packets of a message.                       *)

\* A step has the fields of a step; of what types they are does not matter here.
IsNode(x) ==
  x \in [rt: {x.rt}, heard: {x.heard}, seqNo: {x.seqNo}, queue: {x.queue}, timers: {x.timers},
         myPreq: {x.myPreq}, preqTimer: {x.preqTimer}, failed: {x.failed},
         receivers: {x.receivers}, perrTimer: {x.perrTimer}]

IsStep(s) == s \in [at: {s.at}, node: {s.node}, out: {s.out}] /\ IsNode(s.node)

\* The packets of message m in a queue, and the frames that carry it.
Held(S, m) == {p \in S : Carries(p, m)}
Of(S, m) == {o \in S : Carries(o.packet, m)}

\* One copy at most, in the queue or in a frame.
Alone(s, m) ==
  /\ AtMostOne(Held(s.node.queue, m)) /\ AtMostOne(Of(s.out, m))
  /\ Held(s.node.queue, m) = {} \/ Of(s.out, m) = {}

\* The handler that took s to t has at most passed on or dropped what waited of message m,
\* as it was.
Kept(s, t, m) ==
  /\ IsStep(t) /\ t.at = s.at
  /\ Held(t.node.queue, m) \subseteq Held(s.node.queue, m)
  /\ \A o \in Of(t.out, m) : o \in Of(s.out, m) \/ o.packet \in Held(s.node.queue, m)
  /\ Alone(s, m) => Alone(t, m)

LEMMA KeptBack ==
  ASSUME NEW s, NEW m, IsStep(s)
  PROVE  Kept(s, s, m)
BY DEF Kept

LEMMA KeptOn ==
  ASSUME NEW s, NEW t, NEW u, NEW m, Kept(s, t, m), Kept(t, u, m)
  PROVE  Kept(s, u, m)
BY DEF Kept

LEMMA KeptStep ==
  ASSUME NEW s, NEW t, NEW m, Kept(s, t, m)
  PROVE  IsStep(t)
BY DEF Kept

\* Nothing new waits and nothing was sent.
LEMMA SideKept ==
  ASSUME NEW s, NEW t, NEW m, IsStep(t), t.at = s.at, t.out = s.out,
         t.node.queue \subseteq s.node.queue
  PROVE  Kept(s, t, m)
BY DEF Kept, Alone, Held, Of, AtMostOne

\* The node of a step has changed.
LEMMA NodeKept ==
  ASSUME NEW s, NEW x, NEW m, IsStep(s), IsNode(x), x.queue \subseteq s.node.queue
  PROVE  LET u == [s EXCEPT !.node = x]
         IN  Kept(s, u, m) /\ u.at = s.at /\ u.node = x /\ u.out = s.out
<1> DEFINE u == [s EXCEPT !.node = x]
<1>1. u.at = s.at /\ u.node = x /\ u.out = s.out /\ IsStep(u)
  BY DEF IsStep
<1> HIDE DEF u
<1>2. Kept(s, u, m)
  BY <1>1, SideKept
<1>3. QED
  BY <1>1, <1>2 DEF u

\* Frames of other kinds leave.
LEMMA FramesKept ==
  ASSUME NEW s, NEW t, NEW frames, NEW m, IsStep(s), \A o \in frames : ~Carries(o.packet, m),
         t = [s EXCEPT !.out = @ \cup frames]
  PROVE  Kept(s, t, m)
<1>1. t.at = s.at /\ t.node = s.node /\ t.out = s.out \cup frames /\ IsStep(t)
  BY DEF IsStep
<1>2. Of(t.out, m) = Of(s.out, m)
  BY <1>1 DEF Of
<1>3. QED
  BY <1>1, <1>2 DEF Kept, Alone

LEMMA EmitKept ==
  ASSUME NEW s, NEW to, NEW p, NEW m, IsStep(s), ~Carries(p, m)
  PROVE  Kept(s, Emit(s, to, p), m)
<1> DEFINE frames == {[to |-> to, packet |-> p]}
<1>1. \A o \in frames : ~Carries(o.packet, m)
  OBVIOUS
<1>2. Emit(s, to, p) = [s EXCEPT !.out = @ \cup frames]
  BY DEF Emit
<1> HIDE DEF frames
<1>3. QED
  BY <1>1, <1>2, FramesKept

LEMMA ControlIsOther ==
  ASSUME NEW m
  PROVE  /\ \A list : ~Carries(Preqs(list), m)
         /\ \A orig, seqNo, dst, metric : ~Carries(Prep(orig, seqNo, dst, metric), m)
         /\ \A failed : ~Carries(Perr(failed), m)
BY DEF Carries, Preqs, Prep, Perr

LEMMA TableKept ==
  ASSUME NEW s, NEW t, NEW m, IsStep(s)
  PROVE  Kept(s, WithTable(s, t), m) /\ WithTable(s, t).node.rt = t
<1> DEFINE x == [s.node EXCEPT !.rt = t]
           u == WithTable(s, t)
<1>1. IsNode(x) /\ x.queue = s.node.queue /\ x.rt = t
  BY DEF IsStep, IsNode
<1>2. u = [s EXCEPT !.node = x]
  BY DEF WithTable
<1> HIDE DEF x, u
<1>3. Kept(s, u, m) /\ u.node = x
  BY <1>1, <1>2, NodeKept
<1>4. QED
  BY <1>1, <1>3 DEF u

LEMMA NextSeqNoKept ==
  ASSUME NEW s, NEW m, IsStep(s)
  PROVE  Kept(s, NextSeqNo(s), m)
<1> DEFINE x == [s.node EXCEPT !.seqNo = @ + 1]
           u == NextSeqNo(s)
<1>1. IsNode(x) /\ x.queue = s.node.queue
  BY DEF IsStep, IsNode
<1>2. u = [s EXCEPT !.node = x]
  BY DEF NextSeqNo
<1> HIDE DEF x, u
<1>3. Kept(s, u, m)
  BY <1>1, <1>2, NodeKept
<1>4. QED
  BY <1>3 DEF u

LEMMA HeardKept ==
  ASSUME NEW s, NEW d, NEW h, NEW m, IsStep(s)
  PROVE  Kept(s, [s EXCEPT !.node.heard[d] = h], m)
<1> DEFINE heard == [s.node.heard EXCEPT ![d] = h]
           x == [s.node EXCEPT !.heard = heard]
           u == [s EXCEPT !.node.heard[d] = h]
<1>1. u = [s EXCEPT !.node = x]
  OBVIOUS
<1> HIDE DEF heard
<1>2. IsNode(x) /\ x.queue = s.node.queue
  BY DEF IsStep, IsNode
<1> HIDE DEF x, u
<1>3. Kept(s, u, m)
  BY <1>1, <1>2, NodeKept
<1>4. QED
  BY <1>3 DEF u

LEMMA SendPreqKept ==
  ASSUME NEW s, NEW list, NEW m, IsStep(s)
  PROVE  Kept(s, SendPreq(s, list), m)
BY EmitKept, ControlIsOther DEF SendPreq

LEMMA SendMyPreqKept ==
  ASSUME NEW s, NEW m, IsStep(s)
  PROVE  Kept(s, SendMyPreq(s), m)
<1> DEFINE x == [s.node EXCEPT !.preqTimer = TRUE, !.myPreq = <<>>]
           u == [s EXCEPT !.node.preqTimer = TRUE, !.node.myPreq = <<>>]
           list == s.node.myPreq
<1>1. IsNode(x) /\ x.queue = s.node.queue
  BY DEF IsStep, IsNode
<1>2. u = [s EXCEPT !.node = x]
  BY DEF IsStep
<1>3. SendMyPreq(s) \in {s, SendPreq(u, list)}
  BY DEF SendMyPreq
<1> HIDE DEF x, u, list
<1>4. Kept(s, u, m)
  BY <1>1, <1>2, NodeKept
<1>5. Kept(u, SendPreq(u, list), m)
  BY <1>4, KeptStep, SendPreqKept
<1>6. QED
  BY <1>3, <1>4, <1>5, KeptOn, KeptBack

LEMMA RequestDestinationKept ==
  ASSUME NEW s, NEW d, NEW seqNo, NEW m, IsStep(s)
  PROVE  Kept(s, RequestDestination(s, d, seqNo), m)
<1> DEFINE new == [orig |-> s.at, seqNo |-> s.node.seqNo, metric |-> 0, ttl |-> MaxTtl,
                   dests |-> {Wanted(d, seqNo, DoFlag, RfFlag)}]
           Ask(q) == AskAlso(q, d, seqNo)
           list == Append([i \in DOMAIN s.node.myPreq |-> Ask(s.node.myPreq[i])], new)
           x == [s.node EXCEPT !.myPreq = list]
           u == [s EXCEPT !.node = x]
<1>1. RequestDestination(s, d, seqNo) = SendMyPreq(u)
  BY DEF RequestDestination
<1> HIDE DEF list
<1>2. IsNode(x) /\ x.queue = s.node.queue
  BY DEF IsStep, IsNode
<1> HIDE DEF x
<1>3. Kept(s, u, m)
  BY <1>2, NodeKept
<1> HIDE DEF u
<1>4. Kept(u, SendMyPreq(u), m)
  BY <1>3, KeptStep, SendMyPreqKept
<1>5. QED
  BY <1>1, <1>3, <1>4, KeptOn

LEMMA ForwardPerrKept ==
  ASSUME NEW s, NEW receivers, NEW failed, NEW m, IsStep(s)
  PROVE  Kept(s, ForwardPerr(s, receivers, failed), m)
<1> DEFINE frames == {[to |-> k, packet |-> Perr(failed)] : k \in receivers}
<1>1. \A o \in frames : ~Carries(o.packet, m)
  BY ControlIsOther
<1>2. ForwardPerr(s, receivers, failed) = [s EXCEPT !.out = @ \cup frames]
  BY DEF ForwardPerr
<1> HIDE DEF frames
<1>3. QED
  BY <1>1, <1>2, FramesKept

LEMMA SendMyPerrKept ==
  ASSUME NEW s, NEW m, IsStep(s)
  PROVE  Kept(s, SendMyPerr(s), m)
<1> DEFINE x == [s.node EXCEPT !.perrTimer = TRUE, !.failed = {}, !.receivers = {}]
           u == [s EXCEPT !.node.perrTimer = TRUE, !.node.failed = {}, !.node.receivers = {}]
           receivers == s.node.receivers
           failed == s.node.failed
<1>1. IsNode(x) /\ x.queue = s.node.queue
  BY DEF IsStep, IsNode
<1>2. u = [s EXCEPT !.node = x]
  BY DEF IsStep
<1>3. SendMyPerr(s) = ForwardPerr(u, receivers, failed)
  BY DEF SendMyPerr
<1> HIDE DEF x, u, receivers, failed
<1>4. Kept(s, u, m)
  BY <1>1, <1>2, NodeKept
<1>5. Kept(u, ForwardPerr(u, receivers, failed), m)
  BY <1>4, KeptStep, ForwardPerrKept
<1>6. QED
  BY <1>3, <1>4, <1>5, KeptOn

LEMMA InitiatePerrKept ==
  ASSUME NEW s, NEW e, NEW m, IsStep(s)
  PROVE  Kept(s, InitiatePerr(s, e), m)
<1> DEFINE news == {f \in e.failed :
                      \A g \in s.node.failed : g.dst = f.dst => g.seqNo <= f.seqNo}
           x == [s.node EXCEPT !.receivers = @ \cup e.receivers, !.failed = @ \cup news]
           u == [s EXCEPT !.node.receivers = @ \cup e.receivers, !.node.failed = @ \cup news]
<1>1. InitiatePerr(s, e) \in {u, SendMyPerr(u)}
  BY DEF InitiatePerr
<1> HIDE DEF news
<1>2. IsNode(x) /\ x.queue = s.node.queue
  BY DEF IsStep, IsNode
<1>3. u = [s EXCEPT !.node = x]
  BY DEF IsStep
<1> HIDE DEF x, u
<1>4. Kept(s, u, m)
  BY <1>2, <1>3, NodeKept
<1>5. Kept(u, SendMyPerr(u), m)
  BY <1>4, KeptStep, SendMyPerrKept
<1>6. QED
  BY <1>1, <1>4, <1>5, KeptOn

LEMMA InitiatePathErrorKept ==
  ASSUME NEW s, NEW failed, NEW m, IsStep(s)
  PROVE  Kept(s, InitiatePathError(s, failed), m)
<1> DEFINE e == MakePathError(s, failed)
           t == WithoutPaths(s.node.rt, {f.dst : f \in failed})
           u == WithTable(s, t)
<1>1. e.step = u
  BY DEF MakePathError
<1>2. InitiatePathError(s, failed) = InitiatePerr(e.step, e)
  BY DEF InitiatePathError
<1> HIDE DEF e, t
<1>3. Kept(s, u, m)
  BY TableKept
<1> HIDE DEF u
<1>4. Kept(u, InitiatePerr(u, e), m)
  BY <1>3, KeptStep, InitiatePerrKept
<1>5. QED
  BY <1>1, <1>2, <1>3, <1>4, KeptOn

LEMMA PathsFailKept ==
  ASSUME NEW s, NEW k, NEW m, IsStep(s)
  PROVE  Kept(s, PathsFail(s, k), m)
<1> DEFINE r == RaiseNumbers(s.node.rt, k)
           t == WithTable(s, r)
           failed == UnreachableDestinations(t.node.rt, k)
<1>1. PathsFail(s, k) = InitiatePathError(t, failed)
  BY DEF PathsFail
<1> HIDE DEF r, failed
<1>2. Kept(s, t, m)
  BY TableKept
<1> HIDE DEF t
<1>3. Kept(t, InitiatePathError(t, failed), m)
  BY <1>2, KeptStep, InitiatePathErrorKept
<1>4. QED
  BY <1>1, <1>2, <1>3, KeptOn

LEMMA ReceivePerrKept ==
  ASSUME NEW s, NEW from, NEW failed, NEW m, IsStep(s)
  PROVE  Kept(s, ReceivePerr(s, from, failed), m)
<1> DEFINE mine == {f \in failed : /\ s.node.rt.paths[f.dst].next = from
                                   /\ s.node.rt.paths[f.dst].seqNo <= f.seqNo}
           e == MakePathError(s, mine)
           t == WithoutPaths(s.node.rt, {f.dst : f \in mine})
           u == WithTable(s, t)
<1>1. ReceivePerr(s, from, failed) \in {s, ForwardPerr(e.step, e.receivers, e.failed)}
  BY DEF ReceivePerr
<1> HIDE DEF mine
<1>2. e.step = u
  BY DEF MakePathError
<1> HIDE DEF e, t
<1>3. Kept(s, u, m)
  BY TableKept
<1> HIDE DEF u
<1>4. Kept(u, ForwardPerr(u, e.receivers, e.failed), m)
  BY <1>3, KeptStep, ForwardPerrKept
<1>5. QED
  BY <1>1, <1>2, <1>3, <1>4, KeptOn, KeptBack

\* What is sent leaves the queue, once; the others stay.
LEMMA DequeueKept ==
  ASSUME NEW s, NEW Q, NEW to, NEW m, IsStep(s), Q \subseteq s.node.queue
  PROVE  Kept(s, Dequeue(s, Q, to), m)
<1> DEFINE frames == {[to |-> to, packet |-> p] : p \in Q}
           queue == s.node.queue \ Q
           x == [s.node EXCEPT !.queue = queue]
           t == Dequeue(s, Q, to)
<1>1. t = [s EXCEPT !.node.queue = queue, !.out = s.out \cup frames]
  BY DEF Dequeue
<1>2. IsNode(x) /\ x.queue = queue
  BY DEF IsStep, IsNode
<1>3. t = [s EXCEPT !.node = x, !.out = s.out \cup frames]
  BY <1>1 DEF IsStep
<1>4. \A o : o \in Of(frames, m) <=> \E p \in Held(Q, m) : o = [to |-> to, packet |-> p]
  BY DEF Of, Held
<1> HIDE DEF t, x, frames
<1>5. t.at = s.at /\ t.node = x /\ t.out = s.out \cup frames /\ IsStep(t)
  BY <1>2, <1>3 DEF IsStep
<1>6. /\ Held(queue, m) = Held(s.node.queue, m) \ Held(Q, m)
      /\ Held(Q, m) \subseteq Held(s.node.queue, m)
  BY DEF Held
<1>7. Of(t.out, m) = Of(s.out, m) \cup Of(frames, m)
  BY <1>5 DEF Of
<1> HIDE DEF queue
<1>8. \A o \in Of(frames, m) : o.packet \in Held(Q, m)
  BY <1>4
<1>9. Alone(s, m) => Alone(t, m)
  <2> SUFFICES ASSUME Alone(s, m) PROVE Alone(t, m)
    OBVIOUS
  <2>1. CASE Held(s.node.queue, m) = {}
    BY <1>2, <1>5, <1>6, <1>7, <1>8, <2>1 DEF Alone, AtMostOne
  <2>2. CASE Held(s.node.queue, m) # {}
    <3>1. PICK q \in Held(s.node.queue, m) : \A r \in Held(s.node.queue, m) : r = q
      BY <2>2 DEF Alone, AtMostOne
    <3>2. Of(s.out, m) = {}
      BY <2>2 DEF Alone
    <3>3. AtMostOne(Of(frames, m))
      BY <1>4, <1>6, <3>1 DEF AtMostOne
    <3>4. AtMostOne(Held(queue, m))
      BY <1>6, <3>1 DEF AtMostOne
    <3>5. Held(queue, m) = {} \/ Of(frames, m) = {}
      BY <1>6, <1>8, <3>1
    <3>6. QED
      BY <1>2, <1>5, <1>7, <3>2, <3>3, <3>4, <3>5 DEF Alone
  <2>3. QED
    BY <2>1, <2>2
<1>10. Kept(s, t, m)
  BY <1>2, <1>5, <1>6, <1>7, <1>8, <1>9 DEF Kept
<1>11. QED
  BY <1>10 DEF t

LEMMA PathToKept ==
  ASSUME NEW s, NEW d, NEW from, NEW metric, NEW seqNo, NEW m, IsStep(s)
  PROVE  Kept(s, PathTo(s, d, from, metric, seqNo), m)
<1> DEFINE t == AddReactivePath(s.node.rt, d, from, metric, seqNo)
           u == WithTable(s, t)
           Q == {p \in u.node.queue : p.dst = d}
           to == u.node.rt.paths[d].next
<1>1. PathTo(s, d, from, metric, seqNo) = Dequeue(u, Q, to)
  BY DEF PathTo, ReactivePathResolved
<1>2. Q \subseteq u.node.queue
  OBVIOUS
<1> HIDE DEF t, Q, to
<1>3. Kept(s, u, m)
  BY TableKept
<1> HIDE DEF u
<1>4. Kept(u, Dequeue(u, Q, to), m)
  BY <1>2, <1>3, KeptStep, DequeueKept
<1>5. QED
  BY <1>1, <1>3, <1>4, KeptOn

LEMMA PathToNeighborKept ==
  ASSUME NEW s, NEW from, NEW seqNo, NEW m, IsStep(s)
  PROVE  Kept(s, PathToNeighbor(s, from, seqNo), m)
BY PathToKept, KeptBack DEF PathToNeighbor

LEMMA LookupKept ==
  ASSUME NEW s, NEW d, NEW m, IsStep(s)
  PROVE  Kept(s, Lookup(s, d), m)
BY TableKept, KeptBack DEF Lookup

LEMMA TimerKept ==
  ASSUME NEW s, NEW d, NEW n, NEW m, IsStep(s)
  PROVE  Kept(s, [s EXCEPT !.node.timers[d] = n], m)
<1> DEFINE timers == [s.node.timers EXCEPT ![d] = n]
           x == [s.node EXCEPT !.timers = timers]
           u == [s EXCEPT !.node.timers[d] = n]
<1>1. u = [s EXCEPT !.node = x]
  OBVIOUS
<1> HIDE DEF timers
<1>2. IsNode(x) /\ x.queue = s.node.queue
  BY DEF IsStep, IsNode
<1> HIDE DEF x, u
<1>3. Kept(s, u, m)
  BY <1>1, <1>2, NodeKept
<1>4. QED
  BY <1>3 DEF u

LEMMA AskAgainKept ==
  ASSUME NEW s, NEW d, NEW n, NEW m, IsStep(s)
  PROVE  Kept(s, AskAgain(s, d, n), m)
<1> DEFINE u == [s EXCEPT !.node.timers[d] = n]
           v == NextSeqNo(u)
           seqNo == s.node.rt.paths[d].seqNo
<1>1. AskAgain(s, d, n) = RequestDestination(v, d, seqNo)
  BY DEF AskAgain
<1>2. Kept(s, u, m)
  BY TimerKept
<1> HIDE DEF u, seqNo
<1>3. Kept(u, v, m)
  BY <1>2, KeptStep, NextSeqNoKept
<1> HIDE DEF v
<1>4. Kept(v, RequestDestination(v, d, seqNo), m)
  BY <1>3, KeptStep, RequestDestinationKept
<1>5. QED
  BY <1>1, <1>2, <1>3, <1>4, KeptOn

LEMMA RequestPathKept ==
  ASSUME NEW s, NEW d, NEW m, IsStep(s)
  PROVE  Kept(s, RequestPath(s, d), m)
BY AskAgainKept, KeptBack DEF RequestPath

LEMMA ForwardFailsKept ==
  ASSUME NEW s, NEW d, NEW m, IsStep(s)
  PROVE  Kept(s, ForwardFails(s, d), m)
BY PathsFailKept, KeptBack DEF ForwardFails

\* A packet joins the queue of s, or is dropped.
LEMMA QueuePacketFacts ==
  ASSUME NEW s, NEW p, NEW m, IsStep(s)
  PROVE  LET t == QueuePacket(s, p)
         IN  /\ IsStep(t) /\ t.at = s.at /\ t.out = s.out
             /\ t.node.queue \subseteq s.node.queue \cup {p}
<1> DEFINE x == [s.node EXCEPT !.queue = @ \cup {p}]
           u == [s EXCEPT !.node.queue = @ \cup {p}]
           t == QueuePacket(s, p)
<1>1. IsNode(x) /\ x.queue = s.node.queue \cup {p}
  BY DEF IsStep, IsNode
<1>2. u = [s EXCEPT !.node = x]
  OBVIOUS
<1>3. t \in {s, u}
  BY DEF QueuePacket
<1> HIDE DEF x, t
<1>4. u.at = s.at /\ u.node = x /\ u.out = s.out /\ IsStep(u)
  BY <1>1, <1>2 DEF IsStep
<1> HIDE DEF u
<1>5. QED
  BY <1>1, <1>3, <1>4 DEF t

\* A packet of another message may wait or leave.
LEMMA ForwardUnicastKept ==
  ASSUME NEW s, NEW p, NEW mine, NEW m, IsStep(s), ~Carries(p, m)
  PROVE  Kept(s, ForwardUnicast(s, p, mine), m)
<1> DEFINE t == Lookup(s, p.dst)
           next == NextHop(t.node.rt, p.dst)
           u == RequestPath(t, p.dst)
           v == QueuePacket(u, p)
           r == ForwardUnicast(s, p, mine)
<1>1. r \in {Emit(t, next, p), ForwardFails(t, p.dst), v}
  BY DEF ForwardUnicast
<1>2. Kept(s, t, m)
  BY LookupKept
<1> HIDE DEF t, next, r
<1>3. /\ Kept(t, Emit(t, next, p), m) /\ Kept(t, ForwardFails(t, p.dst), m)
      /\ Kept(t, u, m)
  BY <1>2, KeptStep, EmitKept, ForwardFailsKept, RequestPathKept
<1> HIDE DEF u
<1>4. Kept(u, v, m)
  <2>1. /\ IsStep(v) /\ v.at = u.at /\ v.out = u.out
        /\ v.node.queue \subseteq u.node.queue \cup {p}
    BY <1>3, KeptStep, QueuePacketFacts
  <2> HIDE DEF v
  <2>2. Held(v.node.queue, m) \subseteq Held(u.node.queue, m)
    BY <2>1 DEF Held
  <2>3. QED
    BY <2>1, <2>2 DEF Kept, Alone, AtMostOne
<1> HIDE DEF v
<1>5. Kept(s, r, m)
  BY <1>1, <1>2, <1>3, <1>4, KeptOn
<1>6. QED
  BY <1>5 DEF r

LEMMA ForwardPacketKept ==
  ASSUME NEW s, NEW p \in Datas, NEW m, IsStep(s), ~Carries(p, m)
  PROVE  Kept(s, ForwardPacket(s, p), m)
<1> DEFINE next == [p EXCEPT !.ttl = @ - 1]
<1>1. ~Carries(next, m)
  BY DEF Carries, Datas
<1>2. ForwardPacket(s, p) \in {s, ForwardUnicast(s, next, FALSE)}
  BY DEF ForwardPacket
<1> HIDE DEF next
<1>3. QED
  BY <1>1, <1>2, ForwardUnicastKept, KeptBack

LEMMA StopSearchKept ==
  ASSUME NEW s, NEW d, NEW m, IsStep(s)
  PROVE  Kept(s, StopSearch(s, d), m)
BY TimerKept DEF StopSearch

LEMMA RetryPathDiscoveryKept ==
  ASSUME NEW s, NEW d, NEW m, IsStep(s)
  PROVE  Kept(s, RetryPathDiscovery(s, d), m)
<1> DEFINE t == Lookup(s, d)
           queue == {p \in t.node.queue : p.dst # d}
           x == [t.node EXCEPT !.queue = queue]
           v == [t EXCEPT !.node.queue = {p \in @ : p.dst # d}]
           n == t.node.timers[d] + 1
           r == RetryPathDiscovery(s, d)
<1>1. r \in {StopSearch(t, d), StopSearch(v, d), AskAgain(t, d, n)}
  BY DEF RetryPathDiscovery
<1>2. Kept(s, t, m) /\ IsStep(t)
  BY LookupKept, KeptStep
<1> HIDE DEF t, r
<1>3. v = [t EXCEPT !.node = x] /\ queue \subseteq t.node.queue
  OBVIOUS
<1> HIDE DEF queue
<1>4. IsNode(x) /\ x.queue = queue
  BY <1>2 DEF IsStep, IsNode
<1> HIDE DEF x, v, n
<1>5. Kept(t, v, m)
  BY <1>2, <1>3, <1>4, NodeKept
<1>6. Kept(t, StopSearch(t, d), m) /\ Kept(v, StopSearch(v, d), m) /\ Kept(t, AskAgain(t, d, n), m)
  BY <1>2, <1>5, KeptStep, StopSearchKept, AskAgainKept
<1>7. Kept(s, r, m)
  BY <1>1, <1>2, <1>5, <1>6, KeptOn
<1>8. QED
  BY <1>7 DEF r

-----------------------------------------------------------------------------
(* Requests and replies: the packets that wait leave behind them.          *)

LEMMA AnswerSelfKept ==
  ASSUME NEW s, NEW from, NEW q, NEW m, IsStep(s)
  PROVE  Kept(s, AnswerSelf(s, from, q), m)
<1> DEFINE u == NextSeqNo(s)
           prep == Prep(u.at, u.node.seqNo, q.orig, 0)
<1>1. AnswerSelf(s, from, q) = Emit(u, from, prep)
  BY DEF AnswerSelf
<1>2. ~Carries(prep, m)
  BY ControlIsOther
<1> HIDE DEF prep
<1>3. Kept(s, u, m)
  BY NextSeqNoKept
<1> HIDE DEF u
<1>4. Kept(u, Emit(u, from, prep), m)
  BY <1>2, <1>3, KeptStep, EmitKept
<1>5. QED
  BY <1>1, <1>3, <1>4, KeptOn

LEMMA AnswerRootKept ==
  ASSUME NEW s, NEW from, NEW q, NEW m, IsStep(s)
  PROVE  Kept(s, AnswerRoot(s, from, q), m)
<1> DEFINE purged == WithTable(s, PurgeRoot(s.node.rt))
           rt == AddProactivePath(s.node.rt, q.orig, from, q.metric, q.seqNo)
           v == WithTable(s, rt)
           Q == v.node.queue
           to == v.node.rt.root.next
           w == Dequeue(v, Q, to)
           t == IF ImprovesRoot(purged.node.rt, q.metric) THEN w ELSE purged
<1>1. AnswerRoot(s, from, q) = AnswerSelf(t, from, q)
  BY DEF AnswerRoot, AnswerSelf, ProactivePathResolved
<1>2. Q \subseteq v.node.queue /\ t \in {w, purged}
  OBVIOUS
<1> HIDE DEF t, Q, to, rt
<1>3. Kept(s, v, m) /\ Kept(s, purged, m)
  BY TableKept
<1> HIDE DEF v, purged
<1>4. Kept(v, w, m)
  BY <1>2, <1>3, KeptStep, DequeueKept
<1> HIDE DEF w
<1>5. Kept(s, t, m)
  BY <1>2, <1>3, <1>4, KeptOn
<1>6. Kept(t, AnswerSelf(t, from, q), m)
  BY <1>5, KeptStep, AnswerSelfKept
<1>7. QED
  BY <1>1, <1>5, <1>6, KeptOn

LEMMA AnswerForKept ==
  ASSUME NEW s, NEW from, NEW q, NEW dsts, NEW m, IsStep(s)
  PROVE  Kept(s, AnswerFor(s, from, q, dsts), m)
<1> DEFINE Reply(d) == Prep(d, s.node.rt.paths[d].seqNo, q.orig, s.node.rt.paths[d].metric)
           frames == {[to |-> from, packet |-> Reply(d)] : d \in dsts}
           t == AddPrecursors(s.node.rt, dsts, from)
           v == WithTable(s, t)
           u == AnswerFor(s, from, q, dsts)
<1>1. u = [v EXCEPT !.out = @ \cup frames]
  BY DEF AnswerFor, WithTable, IsStep
<1>2. \A o \in frames : ~Carries(o.packet, m)
  BY ControlIsOther
<1> HIDE DEF frames, t
<1>3. Kept(s, v, m)
  BY TableKept
<1> HIDE DEF u, v
<1>4. Kept(v, u, m)
  BY <1>1, <1>2, <1>3, KeptStep, FramesKept
<1>5. Kept(s, u, m)
  BY <1>3, <1>4, KeptOn
<1>6. QED
  BY <1>5 DEF u

LEMMA AnswerDestsKept ==
  ASSUME NEW s, NEW from, NEW q, NEW m, IsStep(s)
  PROVE  Kept(s, AnswerDests(s, from, q), m)
<1> DEFINE answered == {e \in q.dests : CanAnswer(s, e)}
           own == {e \in q.dests : e.dst = s.at}
           rest == (q.dests \ (answered \cup own)) \cup PassOn(answered)
           dsts == {e.dst : e \in answered}
           list == <<[q EXCEPT !.dests = rest]>>
           t == IF own = {} THEN s ELSE AnswerSelf(s, from, q)
           u == AnswerFor(t, from, q, dsts)
           v == SendPreq(u, list)
<1>1. AnswerDests(s, from, q) \in {u, v}
  BY DEF AnswerDests
<1>2. t \in {s, AnswerSelf(s, from, q)}
  OBVIOUS
<1> HIDE DEF answered, own, rest, dsts, list, t
<1>3. Kept(s, t, m)
  BY <1>2, AnswerSelfKept, KeptBack
<1>4. Kept(t, u, m)
  BY <1>3, KeptStep, AnswerForKept
<1> HIDE DEF u
<1>5. Kept(u, v, m)
  BY <1>4, KeptStep, SendPreqKept
<1> HIDE DEF v
<1>6. QED
  BY <1>1, <1>3, <1>4, <1>5, KeptOn

LEMMA ReceivePreqKept ==
  ASSUME NEW s, NEW from, NEW q, NEW m, IsStep(s)
  PROVE  Kept(s, ReceivePreq(s, from, q), m)
<1> DEFINE fresh == s.node.heard[q.orig].seqNo # q.seqNo
           h == [seqNo |-> q.seqNo, metric |-> q.metric]
           t == [s EXCEPT !.node.heard[q.orig] = h]
           path == PathTo(t, q.orig, from, q.metric, q.seqNo)
           u == IF fresh \/ Improves(t.node.rt, q.orig, q.metric) THEN path ELSE t
           v == PathToNeighbor(u, from, q.seqNo)
           root == AnswerRoot(v, from, q)
           list == <<q>>
           r == ReceivePreq(s, from, q)
<1>1. r \in {s, SendPreq(root, list), AnswerDests(v, from, q)}
  BY DEF ReceivePreq
<1>2. u \in {t, path}
  OBVIOUS
<1> HIDE DEF r, u, h, list
<1>3. Kept(s, t, m)
  BY HeardKept
<1> HIDE DEF t
<1>4. Kept(t, path, m)
  BY <1>3, KeptStep, PathToKept
<1> HIDE DEF path
<1>5. Kept(s, u, m)
  BY <1>2, <1>3, <1>4, KeptOn
<1>6. Kept(u, v, m)
  BY <1>5, KeptStep, PathToNeighborKept
<1> HIDE DEF v
<1>7. Kept(s, v, m)
  BY <1>5, <1>6, KeptOn
<1>8. Kept(v, root, m) /\ Kept(v, AnswerDests(v, from, q), m)
  BY <1>7, KeptStep, AnswerRootKept, AnswerDestsKept
<1> HIDE DEF root
<1>9. Kept(root, SendPreq(root, list), m)
  BY <1>8, KeptStep, SendPreqKept
<1>10. Kept(s, r, m)
  BY <1>1, <1>7, <1>8, <1>9, KeptOn, KeptBack
<1>11. QED
  BY <1>10 DEF r

LEMMA PreqElementKept ==
  ASSUME NEW s, NEW from, NEW q, NEW m, IsStep(s)
  PROVE  Kept(s, PreqElement(s, from, q), m)
BY ReceivePreqKept, KeptBack DEF PreqElement

LEMMA PreqElementsKept ==
  ASSUME NEW s, NEW from, NEW list, NEW m, IsStep(s), Len(list) \in Nat
  PROVE  Kept(s, PreqElements(s, from, list), m)
<1>1. PICK after : /\ PreqElements(s, from, list) = after[Len(list)] /\ after[0] = s
                   /\ \A i \in 1..Len(list) :
                        after[i] = PreqElement(after[i - 1], from, list[i])
  BY PreqElementsFollow
<1> DEFINE Off == {i \in 0..Len(list) : ~Kept(s, after[i], m)}
<1>2. 0 \notin Off
  BY <1>1, KeptBack
<1>3. ASSUME NEW i \in 1..Len(list), i - 1 \notin Off PROVE i \notin Off
  <2>1. Kept(s, after[i - 1], m)
    BY <1>3
  <2>2. Kept(after[i - 1], after[i], m)
    BY <1>1, <2>1, KeptStep, PreqElementKept
  <2>3. QED
    BY <2>1, <2>2, KeptOn
<1>4. Off \in SUBSET (0..Len(list))
  OBVIOUS
<1> HIDE DEF Off
<1>5. Off = {}
  BY <1>2, <1>3, <1>4, LeastFailure
<1>6. QED
  BY <1>1, <1>5 DEF Off

LEMMA ReceivePrepKept ==
  ASSUME NEW s, NEW from, NEW r, NEW m, IsStep(s), ~Carries(r, m)
  PROVE  Kept(s, ReceivePrep(s, from, r), m)
<1> DEFINE h == s.node.heard[r.orig]
           new == [seqNo |-> r.seqNo, metric |-> r.metric]
           back == s.node.rt.paths[r.dst]
           t == [s EXCEPT !.node.heard[r.orig] = new]
           path == PathTo(t, r.orig, from, r.metric, r.seqNo)
           told == AddPrecursor(path.node.rt, r.dst, from)
           rt == IF back.active THEN AddPrecursor(told, r.orig, back.next) ELSE told
           stored == WithTable(path, rt)
           u == IF h.seqNo # r.seqNo \/ Improves(t.node.rt, r.orig, r.metric) THEN stored ELSE t
           v == PathToNeighbor(u, from, r.seqNo)
           sent == Emit(v, back.next, r)
           result == ReceivePrep(s, from, r)
<1>1. result \in {s, sent, v}
  BY DEF ReceivePrep
<1>2. u \in {t, stored}
  OBVIOUS
<1> HIDE DEF result, u, new, rt, back
<1>3. Kept(s, t, m)
  BY HeardKept
<1> HIDE DEF t
<1>4. Kept(t, path, m)
  BY <1>3, KeptStep, PathToKept
<1> HIDE DEF path
<1>5. Kept(path, stored, m)
  BY <1>4, KeptStep, TableKept
<1> HIDE DEF stored
<1>6. Kept(s, u, m)
  BY <1>2, <1>3, <1>4, <1>5, KeptOn
<1>7. Kept(u, v, m)
  BY <1>6, KeptStep, PathToNeighborKept
<1> HIDE DEF v
<1>8. Kept(v, sent, m)
  BY <1>7, KeptStep, EmitKept
<1> HIDE DEF sent
<1>9. Kept(s, result, m)
  BY <1>1, <1>6, <1>7, <1>8, KeptOn, KeptBack
<1>10. QED
  BY <1>9 DEF result

LEMMA PrepElementKept ==
  ASSUME NEW s, NEW from, NEW r \in PrepFrames, NEW m, IsStep(s)
  PROVE  Kept(s, PrepElement(s, from, r), m)
<1> DEFINE q == [r EXCEPT !.metric = @ + 1, !.ttl = @ - 1]
<1>1. ~Carries(q, m)
  BY DEF Carries, PrepFrames
<1>2. PrepElement(s, from, r) \in {s, ReceivePrep(s, from, q)}
  BY DEF PrepElement
<1> HIDE DEF q
<1>3. QED
  BY <1>1, <1>2, ReceivePrepKept, KeptBack

LEMMA SendProactivePreqKept ==
  ASSUME NEW s, NEW m, IsStep(s)
  PROVE  Kept(s, SendProactivePreq(s), m)
<1> DEFINE t == NextSeqNo(s)
           list == <<[orig |-> t.at, seqNo |-> t.node.seqNo, metric |-> 0, ttl |-> MaxTtl,
                      dests |-> {Wanted(All, 0, TRUE, TRUE)}]>>
<1>1. SendProactivePreq(s) = SendPreq(t, list)
  BY DEF SendProactivePreq
<1> HIDE DEF list
<1>2. Kept(s, t, m)
  BY NextSeqNoKept
<1> HIDE DEF t
<1>3. Kept(t, SendPreq(t, list), m)
  BY <1>2, KeptStep, SendPreqKept
<1>4. QED
  BY <1>1, <1>2, <1>3, KeptOn

LEMMA ReceiveFrameKept ==
  ASSUME NEW s, NEW from, NEW p \in Packets, NEW m, IsStep(s), ~Carries(p, m)
  PROVE  Kept(s, ReceiveFrame(s, from, p), m)
<1>1. CASE p \in PreqFrames
  <2>1. p.type = "PREQ" /\ Len(p.list) \in Nat
    BY <1>1 DEF PreqFrames
  <2>2. ReceiveFrame(s, from, p) = PreqElements(s, from, p.list)
    BY <2>1 DEF ReceiveFrame
  <2>3. QED
    BY <2>1, <2>2, PreqElementsKept
<1>2. CASE p \in PrepFrames
  <2>1. ReceiveFrame(s, from, p) = PrepElement(s, from, p)
    BY <1>2 DEF ReceiveFrame, PrepFrames
  <2>2. QED
    BY <1>2, <2>1, PrepElementKept
<1>3. CASE p \in PerrFrames
  <2>1. ReceiveFrame(s, from, p) = ReceivePerr(s, from, p.failed)
    BY <1>3 DEF ReceiveFrame, PerrFrames
  <2>2. QED
    BY <2>1, ReceivePerrKept
<1>4. CASE p \in Datas
  <2>1. ReceiveFrame(s, from, p) = IF p.dst = s.at THEN s ELSE ForwardPacket(s, p)
    BY <1>4 DEF ReceiveFrame, Datas
  <2>2. QED
    BY <1>4, <2>1, ForwardPacketKept, KeptBack
<1>5. QED
  BY <1>1, <1>2, <1>3, <1>4 DEF Packets

-----------------------------------------------------------------------------
(* A handler that gets a packet of the message itself.                     *)

\* Nothing of message m is here.
Absent(s, m) == Held(s.node.queue, m) = {} /\ Of(s.out, m) = {}

LEMMA AbsentKept ==
  ASSUME NEW s, NEW t, NEW m, Absent(s, m), Kept(s, t, m)
  PROVE  Absent(t, m) /\ IsStep(t) /\ t.at = s.at
BY DEF Absent, Kept

LEMMA EmitFrom ==
  ASSUME NEW s, NEW to, NEW p, NEW m, IsStep(s), Absent(s, m)
  PROVE  LET t == Emit(s, to, p)
         IN  /\ IsStep(t) /\ t.at = s.at /\ Held(t.node.queue, m) = {}
             /\ AtMostOne(Of(t.out, m)) /\ \A o \in Of(t.out, m) : o.packet = p
<1> DEFINE o == [to |-> to, packet |-> p]
           t == Emit(s, to, p)
<1>1. t.at = s.at /\ t.node = s.node /\ t.out = s.out \cup {o} /\ IsStep(t) /\ o.packet = p
  BY DEF Emit, IsStep
<1> HIDE DEF o, t
<1>2. Of(t.out, m) \subseteq {o} /\ Held(t.node.queue, m) = {}
  BY <1>1 DEF Absent, Of
<1>3. QED
  BY <1>1, <1>2 DEF t, AtMostOne

\* A packet of the upper layer leaves, or waits, or neither; but it is not doubled.
LEMMA SendPacketTakes ==
  ASSUME NEW s, NEW m, NEW p, IsStep(s), Absent(s, m)
  PROVE  LET t == SendPacket(s, p)
         IN  /\ IsStep(t) /\ t.at = s.at /\ Alone(t, m)
             /\ \A q \in Held(t.node.queue, m) : q = p
             /\ \A o \in Of(t.out, m) : o.packet = p
<1> DEFINE u == Lookup(s, p.dst)
           next == NextHop(u.node.rt, p.dst)
           sent == Emit(u, next, p)
           v == RequestPath(u, p.dst)
           waits == QueuePacket(v, p)
           t == SendPacket(s, p)
<1>1. t \in {sent, waits}
  BY DEF SendPacket, ForwardUnicast
<1>2. Absent(u, m) /\ IsStep(u) /\ u.at = s.at
  BY LookupKept, AbsentKept
<1> HIDE DEF u, next, t
<1>3. /\ IsStep(sent) /\ sent.at = s.at /\ Held(sent.node.queue, m) = {}
      /\ AtMostOne(Of(sent.out, m)) /\ \A o \in Of(sent.out, m) : o.packet = p
  BY <1>2, EmitFrom
<1> HIDE DEF sent
<1>4. Absent(v, m) /\ IsStep(v) /\ v.at = s.at
  BY <1>2, RequestPathKept, AbsentKept
<1> HIDE DEF v
<1>5. /\ IsStep(waits) /\ waits.at = s.at /\ waits.out = v.out
      /\ waits.node.queue \subseteq v.node.queue \cup {p}
  BY <1>4, QueuePacketFacts
<1> HIDE DEF waits
<1>6. Held(waits.node.queue, m) \subseteq {p} /\ Of(waits.out, m) = {}
  BY <1>4, <1>5 DEF Absent, Held
<1>7. CASE t = sent
  BY <1>3, <1>7 DEF t, Alone, AtMostOne
<1>8. CASE t = waits
  BY <1>5, <1>6, <1>8 DEF t, Alone, AtMostOne
<1>9. QED
  BY <1>1, <1>7, <1>8

\* A packet that arrives is kept by nobody; it leaves once and with one hop less, or not at
\* all, and not from its target.
LEMMA ReceiveFramePasses ==
  ASSUME NEW s, NEW from, NEW m, NEW p \in Datas, IsStep(s), Absent(s, m)
  PROVE  LET t == ReceiveFrame(s, from, p)
         IN  /\ IsStep(t) /\ t.at = s.at /\ Held(t.node.queue, m) = {}
             /\ AtMostOne(Of(t.out, m))
             /\ \A o \in Of(t.out, m) :
                  /\ s.at # p.dst /\ p.ttl >= 2
                  /\ o.packet = [p EXCEPT !.ttl = @ - 1]
<1> DEFINE next == [p EXCEPT !.ttl = @ - 1]
           u == Lookup(s, next.dst)
           to == NextHop(u.node.rt, next.dst)
           sent == Emit(u, to, next)
           fails == ForwardFails(u, next.dst)
           t == ReceiveFrame(s, from, p)
<1>1. /\ t \in {s, sent, fails}
      /\ t = s \/ (s.at # p.dst /\ p.ttl # 1)
  <2>1. t = IF p.dst = s.at THEN s ELSE ForwardPacket(s, p)
    BY DEF ReceiveFrame, Datas
  <2>2. ForwardPacket(s, p) = IF p.ttl = 1 THEN s ELSE ForwardUnicast(s, next, FALSE)
    BY DEF ForwardPacket
  <2> HIDE DEF next, t
  <2>3. ForwardUnicast(s, next, FALSE) \in {sent, fails}
    BY DEF ForwardUnicast
  <2>4. QED
    BY <2>1, <2>2, <2>3
<1>2. p.ttl # 1 => p.ttl >= 2
  BY HwmpAttributes DEF Datas
<1>3. Absent(u, m) /\ IsStep(u) /\ u.at = s.at
  BY LookupKept, AbsentKept
<1> HIDE DEF u, next, to, t
<1>4. /\ IsStep(sent) /\ sent.at = s.at /\ Held(sent.node.queue, m) = {}
      /\ AtMostOne(Of(sent.out, m)) /\ \A o \in Of(sent.out, m) : o.packet = next
  BY <1>3, EmitFrom
<1> HIDE DEF sent
<1>5. Absent(fails, m) /\ IsStep(fails) /\ fails.at = s.at
  BY <1>3, ForwardFailsKept, AbsentKept
<1> HIDE DEF fails
<1>6. CASE t \in {s, fails}
  BY <1>5, <1>6 DEF t, Absent, AtMostOne
<1>7. CASE t = sent /\ s.at # p.dst /\ p.ttl # 1
  BY <1>2, <1>4, <1>7 DEF t, next
<1>8. CASE t = sent /\ t = s
  BY <1>6, <1>8
<1>9. QED
  BY <1>1, <1>6, <1>7, <1>8

-----------------------------------------------------------------------------
(* The copies of a message in the mesh.                                    *)

Single(m) ==
  /\ AtMostOne(Waiting(m)) /\ AtMostOne(Flying(m))
  /\ Waiting(m) = {} \/ Flying(m) = {}

OneCopyOf(m) ==
  /\ Single(m)
  /\ m \notin unsent \cap delivered
  /\ m \in unsent \cup delivered => Copies(m) = {}
  /\ \A c \in Copies(m) : /\ c.packet.src = source[m] /\ c.packet.dst = target[m]
                          /\ c.packet.ttl \in 1..MaxTtl

\* The same of given stations and frames: at each mesh point and in the air.
IsCopy(stations, frames, m, c) ==
  \/ \E n \in Node : \E p \in Held(stations[n].queue, m) : c = [at |-> n, packet |-> p]
  \/ \E f \in Of(frames, m) : c = [at |-> f.from, packet |-> f.packet]

IsSingle(stations, frames, m) ==
  /\ \A n, k \in Node : \A q \in Held(stations[n].queue, m), r \in Held(stations[k].queue, m) :
       n = k /\ q = r
  /\ AtMostOne(Of(frames, m))
  /\ (\A n \in Node : Held(stations[n].queue, m) = {}) \/ Of(frames, m) = {}

\* The entries W that wait of message m at the mesh points g.
Entries(g, m, W) ==
  \A x : x \in W <=> \E n \in Node : \E q \in Held(g[n].queue, m) : x = <<n, q>>

\* Mesh points g with their queues, and what waits of message m in them.
LEMMA PairsAre ==
  ASSUME NEW g, NEW m
  PROVE  LET W == {x \in UNION {{n} \X g[n].queue : n \in Node} : Carries(x[2], m)}
         IN  /\ Entries(g, m, W)
             /\ AtMostOne(W) <=>
                  \A n, k \in Node : \A q \in Held(g[n].queue, m), r \in Held(g[k].queue, m) :
                    n = k /\ q = r
<1> DEFINE U == UNION {{n} \X g[n].queue : n \in Node}
           W == {x \in U : Carries(x[2], m)}
<1>1. ASSUME NEW x, x \in U PROVE \E n \in Node : \E q \in g[n].queue : x = <<n, q>>
  <2>1. PICK n \in Node : x \in {n} \X g[n].queue
    BY <1>1
  <2>2. \E q \in g[n].queue : x = <<n, q>>
    BY <2>1
  <2>3. QED
    BY <2>2
<1>2. ASSUME NEW n \in Node, NEW q \in g[n].queue PROVE <<n, q>> \in U
  <2>1. <<n, q>> \in {n} \X g[n].queue
    OBVIOUS
  <2>2. QED
    BY <2>1
<1> HIDE DEF U
<1>3. \A x : x \in W <=> \E n \in Node : \E q \in Held(g[n].queue, m) : x = <<n, q>>
  <2>1. ASSUME NEW x \in W PROVE \E n \in Node : \E q \in Held(g[n].queue, m) : x = <<n, q>>
    <3>1. PICK n \in Node : \E q \in g[n].queue : x = <<n, q>>
      BY <1>1
    <3>2. PICK q \in g[n].queue : x = <<n, q>>
      BY <3>1
    <3>3. q \in Held(g[n].queue, m)
      BY <3>2 DEF Held
    <3>4. QED
      BY <3>2, <3>3
  <2>2. ASSUME NEW n \in Node, NEW q \in Held(g[n].queue, m) PROVE <<n, q>> \in W
    BY <1>2 DEF Held
  <2>3. QED
    BY <2>1, <2>2
<1> HIDE DEF W
<1>4. AtMostOne(W) <=>
        \A n, k \in Node : \A q \in Held(g[n].queue, m), r \in Held(g[k].queue, m) :
          n = k /\ q = r
  <2>1. ASSUME AtMostOne(W), NEW n \in Node, NEW k \in Node, NEW q \in Held(g[n].queue, m),
               NEW r \in Held(g[k].queue, m)
        PROVE  n = k /\ q = r
    <3>1. <<n, q>> = <<k, r>>
      BY <1>3, <2>1 DEF AtMostOne
    <3>2. QED
      BY <3>1
  <2>2. ASSUME \A n, k \in Node : \A q \in Held(g[n].queue, m), r \in Held(g[k].queue, m) :
                 n = k /\ q = r
        PROVE  AtMostOne(W)
    BY <1>3, <2>2 DEF AtMostOne
  <2>3. QED
    BY <2>1, <2>2
<1>5. QED
  BY <1>3, <1>4 DEF Entries, W, U

\* The places and packets of the waiting entries W, and what it is to be one.
Placed(W) == {[at |-> x[1], packet |-> x[2]] : x \in W}

IsWaiting(g, m, c) ==
  \E n \in Node : \E q \in Held(g[n].queue, m) : c = [at |-> n, packet |-> q]

LEMMA PlacesAre ==
  ASSUME NEW g, NEW m, NEW W, Entries(g, m, W)
  PROVE  \A c : c \in Placed(W) <=> IsWaiting(g, m, c)
<1> USE DEF Placed, Entries, IsWaiting
<1> DEFINE C == {[at |-> x[1], packet |-> x[2]] : x \in W}
<1>1. ASSUME NEW c \in C
      PROVE  \E n \in Node : \E q \in Held(g[n].queue, m) : c = [at |-> n, packet |-> q]
  <2>1. PICK x \in W : c = [at |-> x[1], packet |-> x[2]]
    OBVIOUS
  <2>2. PICK n \in Node : \E q \in Held(g[n].queue, m) : x = <<n, q>>
    OBVIOUS
  <2>3. PICK q \in Held(g[n].queue, m) : x = <<n, q>>
    BY <2>2
  <2>4. x[1] = n /\ x[2] = q
    BY <2>3
  <2>5. c = [at |-> n, packet |-> q]
    BY <2>1, <2>4
  <2>6. QED
    BY <2>5
<1>2. ASSUME NEW n \in Node, NEW q \in Held(g[n].queue, m)
      PROVE  [at |-> n, packet |-> q] \in C
  <2> DEFINE x == <<n, q>>
  <2>1. x \in W /\ x[1] = n /\ x[2] = q
    OBVIOUS
  <2> HIDE DEF x
  <2>2. [at |-> x[1], packet |-> x[2]] \in C
    BY <2>1
  <2>3. QED
    BY <2>1, <2>2
<1> HIDE DEF C
<1>3. QED
  BY <1>1, <1>2 DEF C

LEMMA CopiesAre ==
  ASSUME NEW m
  PROVE  /\ \A c : c \in Copies(m) <=> IsCopy(node, air, m, c)
         /\ \A c : c \in Copies(m)' <=> IsCopy(node', air', m, c)
         /\ Single(m) <=> IsSingle(node, air, m)
         /\ Single(m)' <=> IsSingle(node', air', m)
<1>1. /\ \A x : x \in Waiting(m) <=> \E n \in Node : \E q \in Held(node[n].queue, m) : x = <<n, q>>
      /\ Flying(m) = Of(air, m)
  <2>1. Entries(node, m, Waiting(m))
    BY PairsAre DEF Waiting
  <2>2. QED
    BY <2>1 DEF Entries, Flying, Of
<1>2. /\ \A x : x \in Waiting(m)' <=>
                \E n \in Node : \E q \in Held(node'[n].queue, m) : x = <<n, q>>
      /\ Flying(m)' = Of(air', m)
  <2>1. Entries(node', m, Waiting(m)')
    BY PairsAre DEF Waiting
  <2>2. QED
    BY <2>1 DEF Entries, Flying, Of
<1>3. \A c : c \in Copies(m) <=> IsCopy(node, air, m, c)
  <2> DEFINE W == Waiting(m)
  <2> HIDE DEF W
  <2>1. Entries(node, m, W)
    BY <1>1 DEF Entries, W
  <2>2. \A c : c \in Placed(W) <=> IsWaiting(node, m, c)
    BY <2>1, PlacesAre
  <2> DEFINE B == {[at |-> f.from, packet |-> f.packet] : f \in Of(air, m)}
  <2>3. Copies(m) = Placed(W) \cup B
    BY <1>1 DEF Copies, Placed, W
  <2>4. \A c : c \in B <=> \E f \in Of(air, m) : c = [at |-> f.from, packet |-> f.packet]
    OBVIOUS
  <2> HIDE DEF B
  <2>5. QED
    BY <2>2, <2>3, <2>4 DEF IsCopy, IsWaiting
<1>4. \A c : c \in Copies(m)' <=> IsCopy(node', air', m, c)
  <2> DEFINE W == Waiting(m)'
  <2> HIDE DEF W
  <2>1. Entries(node', m, W)
    BY <1>2 DEF Entries, W
  <2>2. \A c : c \in Placed(W) <=> IsWaiting(node', m, c)
    BY <2>1, PlacesAre
  <2> DEFINE B == {[at |-> f.from, packet |-> f.packet] : f \in Of(air', m)}
  <2>3. Copies(m)' = Placed(W) \cup B
    BY <1>2 DEF Copies, Placed, W
  <2>4. \A c : c \in B <=> \E f \in Of(air', m) : c = [at |-> f.from, packet |-> f.packet]
    OBVIOUS
  <2> HIDE DEF B
  <2>5. QED
    BY <2>2, <2>3, <2>4 DEF IsCopy, IsWaiting
<1>5. AtMostOne(Waiting(m)) <=>
        \A n, k \in Node : \A q \in Held(node[n].queue, m), r \in Held(node[k].queue, m) :
          n = k /\ q = r
  BY PairsAre DEF Waiting
<1>6. AtMostOne(Waiting(m))' <=>
        \A n, k \in Node : \A q \in Held(node'[n].queue, m), r \in Held(node'[k].queue, m) :
          n = k /\ q = r
  <2>1. AtMostOne(Waiting(m)') <=>
          \A n, k \in Node : \A q \in Held(node'[n].queue, m), r \in Held(node'[k].queue, m) :
            n = k /\ q = r
    BY PairsAre DEF Waiting
  <2>2. QED
    BY <2>1 DEF AtMostOne
<1>7. Waiting(m) = {} <=> \A n \in Node : Held(node[n].queue, m) = {}
  BY <1>1
<1>8. Waiting(m)' = {} <=> \A n \in Node : Held(node'[n].queue, m) = {}
  BY <1>2
<1>9. Single(m) <=> IsSingle(node, air, m)
  BY <1>1, <1>5, <1>7 DEF Single, IsSingle
<1>10. Single(m)' <=> IsSingle(node', air', m)
  BY <1>2, <1>6, <1>8 DEF Single, IsSingle, AtMostOne
<1>11. QED
  BY <1>3, <1>4, <1>9, <1>10

\* All mesh points have kept what they had, and only what they sent is new in the air.
LEMMA StationsKeep ==
  ASSUME NEW m, NEW t, NEW links, \A n \in Node : Kept(Step(n), t[n], m),
         \A n \in Node : node'[n] = t[n].node,
         \A f \in air' : f \in air \/ \E n \in Node : f \in Transmitted(t[n], links)
  PROVE  Copies(m)' \subseteq Copies(m) /\ (Single(m) => Single(m)')
<1>1. \A n \in Node : Step(n).at = n /\ Step(n).node = node[n] /\ Step(n).out = {}
  BY DEF Step, Begin
<1>2. \A n \in Node : /\ Held(node'[n].queue, m) \subseteq Held(node[n].queue, m)
                      /\ t[n].at = n
                      /\ \A o \in Of(t[n].out, m) : o.packet \in Held(node[n].queue, m)
                      /\ Alone(Step(n), m) => Alone(t[n], m)
  BY <1>1 DEF Kept, Of
<1>3. \A f \in Of(air', m) :
        f \in Of(air, m)
          \/ \E n \in Node : \E o \in Of(t[n].out, m) :
               f = [from |-> n, to |-> o.to, packet |-> o.packet]
  <2> SUFFICES ASSUME NEW f \in Of(air', m), f \notin Of(air, m)
               PROVE  \E n \in Node : \E o \in Of(t[n].out, m) :
                        f = [from |-> n, to |-> o.to, packet |-> o.packet]
    OBVIOUS
  <2>1. PICK n \in Node : f \in Transmitted(t[n], links)
    BY DEF Of
  <2>2. PICK o \in t[n].out : f = [from |-> n, to |-> o.to, packet |-> o.packet]
    BY <1>2, <2>1 DEF Transmitted
  <2>3. o \in Of(t[n].out, m)
    BY <2>2 DEF Of
  <2>4. QED
    BY <2>2, <2>3
<1>4. ASSUME NEW c, IsCopy(node', air', m, c) PROVE IsCopy(node, air, m, c)
  <2>1. CASE \E n \in Node : \E q \in Held(node'[n].queue, m) : c = [at |-> n, packet |-> q]
    BY <1>2, <2>1 DEF IsCopy
  <2>2. CASE \E f \in Of(air', m) : c = [at |-> f.from, packet |-> f.packet]
    <3>1. PICK f \in Of(air', m) : c = [at |-> f.from, packet |-> f.packet]
      BY <2>2
    <3>2. CASE f \in Of(air, m)
      BY <3>1, <3>2 DEF IsCopy
    <3>3. CASE f \notin Of(air, m)
      <4>1. PICK n \in Node : \E o \in Of(t[n].out, m) :
              f = [from |-> n, to |-> o.to, packet |-> o.packet]
        BY <1>3, <3>3
      <4>2. PICK o \in Of(t[n].out, m) : f = [from |-> n, to |-> o.to, packet |-> o.packet]
        BY <4>1
      <4>3. o.packet \in Held(node[n].queue, m)
        BY <1>2, <4>2
      <4>4. c = [at |-> n, packet |-> o.packet]
        BY <3>1, <4>2
      <4>5. QED
        BY <4>3, <4>4 DEF IsCopy
    <3>4. QED
      BY <3>2, <3>3
  <2>3. QED
    BY <1>4, <2>1, <2>2 DEF IsCopy
<1>5. ASSUME IsSingle(node, air, m) PROVE IsSingle(node', air', m)
  <2>1. CASE \A n \in Node : Held(node[n].queue, m) = {}
    <3>1. \A n \in Node : Held(node'[n].queue, m) = {} /\ Of(t[n].out, m) = {}
      BY <1>2, <2>1
    <3>2. Of(air', m) \subseteq Of(air, m)
      BY <1>3, <3>1
    <3>3. QED
      BY <1>5, <3>1, <3>2 DEF IsSingle, AtMostOne
  <2>2. CASE \E n \in Node : Held(node[n].queue, m) # {}
    <3>1. PICK n \in Node : Held(node[n].queue, m) # {}
      BY <2>2
    <3>2. Of(air, m) = {}
      BY <1>5, <3>1 DEF IsSingle
    <3>3. \A k \in Node : k # n => Held(node[k].queue, m) = {}
      BY <1>5, <3>1 DEF IsSingle
    <3>4. \A k \in Node : k # n => Held(node'[k].queue, m) = {} /\ Of(t[k].out, m) = {}
      BY <1>2, <3>3
    <3>5. \A x, y \in Held(node[n].queue, m) : x = y
      BY <1>5 DEF IsSingle
    <3>6. Alone(Step(n), m)
      BY <1>1, <3>5 DEF Alone, AtMostOne, Of
    <3>7. Alone(t[n], m)
      BY <1>2, <3>6
    <3>8. \A f \in Of(air', m) : \E o \in Of(t[n].out, m) :
               f = [from |-> n, to |-> o.to, packet |-> o.packet]
      BY <1>3, <3>2, <3>4
    <3>9. AtMostOne(Of(air', m))
      BY <3>7, <3>8 DEF Alone, AtMostOne
    <3>10. Held(node'[n].queue, m) = {} \/ Of(air', m) = {}
      BY <3>7, <3>8 DEF Alone
    <3>11. QED
      BY <3>4, <3>7, <3>9, <3>10 DEF IsSingle, Alone, AtMostOne
  <2>3. QED
    BY <2>1, <2>2
<1>6. QED
  BY <1>4, <1>5, CopiesAre

-----------------------------------------------------------------------------
(* What a step of the mesh does to a message.                              *)

\* What the service of Delivery allows for one message.
Moved(m) ==
  \/ /\ Phase(m) = "unsent" /\ Phase(m)' \in {"moving", "lost"}
     /\ Phase(m)' = "moving" => Copy(m)' = Copy(m)
  \/ /\ Phase(m) = "moving" /\ Phase(m)' = "moving"
     /\ Copy(m).left > 1 /\ Copy(m)'.left = Copy(m).left - 1
     /\ Copy(m)'.at \in Node /\ <<Copy(m).at, Copy(m)'.at>> \in Links
  \/ Phase(m) = "moving" /\ Phase(m)' = "delivered" /\ <<Copy(m).at, target[m]>> \in Links
  \/ Phase(m) = "moving" /\ Phase(m)' = "lost"
  \/ Phase(m)' = Phase(m) /\ Copy(m)' = Copy(m)

\* The step is right by message m.
Right(m) == OneCopyOf(m)' /\ Moved(m)

LEMMA BeginIsStep ==
  ASSUME NEW n, NEW state \in NodeState
  PROVE  IsStep(Begin(n, state))
BY DEF Begin, IsStep, IsNode, NodeState

LEMMA StartIsStep ==
  ASSUME Stations, NEW n \in Node
  PROVE  IsStep(Step(n)) /\ Step(n).at = n /\ Step(n).node = node[n] /\ Step(n).out = {}
<1>1. node[n] \in NodeState
  BY DEF Stations
<1>2. Step(n).at = n /\ Step(n).node = node[n] /\ Step(n).out = {}
  BY DEF Step, Begin
<1>3. IsStep(Step(n))
  BY <1>1, BeginIsStep DEF Step
<1>4. QED
  BY <1>2, <1>3

\* A single copy is the one.
LEMMA OneCopyAtMost ==
  ASSUME NEW m, Single(m)
  PROVE  AtMostOne(Copies(m))
<1>1. IsSingle(node, air, m) /\ \A c : c \in Copies(m) <=> IsCopy(node, air, m, c)
  BY CopiesAre
<1>2. CASE Of(air, m) = {}
  BY <1>1, <1>2 DEF IsSingle, IsCopy, AtMostOne
<1>3. CASE \A n \in Node : Held(node[n].queue, m) = {}
  BY <1>1, <1>3 DEF IsSingle, IsCopy, AtMostOne
<1>4. QED
  BY <1>1, <1>2, <1>3 DEF IsSingle

\* Where a message is, in terms of its copies.
LEMMA PhaseIs ==
  ASSUME NEW m, OneCopyOf(m)
  PROVE  /\ m \in unsent => Phase(m) = "unsent"
         /\ m \in delivered => Phase(m) = "delivered"
         /\ m \notin unsent \cup delivered /\ Copies(m) = {} => Phase(m) = "lost"
         /\ Copies(m) # {} => Phase(m) = "moving"
         /\ Copies(m) = {} => Phase(m) # "moving"
         /\ \A c \in Copies(m) : Copy(m) = [at |-> c.at, left |-> c.packet.ttl]
         /\ Phase(m) # "moving" => Copy(m) = [at |-> source[m], left |-> MaxTtl]
<1>1. Copies(m) # {} => m \notin unsent \cup delivered
  BY DEF OneCopyOf
<1>2. /\ m \in unsent => Phase(m) = "unsent"
      /\ m \in delivered => Phase(m) = "delivered"
      /\ m \notin unsent \cup delivered => Phase(m) = IF Copies(m) = {} THEN "lost" ELSE "moving"
  BY <1>1 DEF Phase, OneCopyOf
<1>3. ASSUME NEW c \in Copies(m) PROVE Copy(m) = [at |-> c.at, left |-> c.packet.ttl]
  <2>1. AtMostOne(Copies(m))
    BY OneCopyAtMost DEF OneCopyOf
  <2>2. (CHOOSE x \in Copies(m) : TRUE) = c
    BY <2>1 DEF AtMostOne
  <2>3. Phase(m) = "moving"
    BY <1>1, <1>2
  <2>4. QED
    BY <2>2, <2>3 DEF Copy
<1>4. Phase(m) # "moving" => Copy(m) = [at |-> source[m], left |-> MaxTtl]
  BY DEF Copy
<1>5. QED
  BY <1>1, <1>2, <1>3, <1>4

\* What is not passed on is lost or stays.
LEMMA KeptIsRight ==
  ASSUME NEW m \in Message, OneCopyOf(m), Copies(m)' \subseteq Copies(m),
         Single(m) => Single(m)', m \in unsent' <=> m \in unsent,
         m \in delivered' <=> m \in delivered
  PROVE  Right(m)
<1>1. OneCopyOf(m)'
  BY DEF OneCopyOf
<1>2. AtMostOne(Copies(m))
  BY OneCopyAtMost DEF OneCopyOf
<1>3. CASE Copies(m) # {} /\ Copies(m)' # {}
  <2>1. Copies(m)' = Copies(m)
    BY <1>2, <1>3 DEF AtMostOne
  <2>2. Phase(m)' = Phase(m)
    BY <2>1 DEF Phase
  <2>3. Copy(m)' = Copy(m)
    BY <2>1, <2>2 DEF Copy
  <2>4. QED
    BY <1>1, <2>2, <2>3 DEF Right, Moved
<1>4. CASE Copies(m) # {} /\ Copies(m)' = {}
  <2>1. Phase(m) = "moving" /\ m \notin unsent \cup delivered
    BY <1>4, PhaseIs DEF OneCopyOf
  <2>2. Phase(m)' = "lost"
    BY <1>4, <2>1 DEF Phase
  <2>3. QED
    BY <1>1, <2>1, <2>2 DEF Right, Moved
<1>5. CASE Copies(m) = {}
  <2>1. Copies(m)' = {}
    BY <1>5
  <2>2. Phase(m)' = Phase(m) /\ Phase(m) # "moving"
    BY <1>5, <2>1 DEF Phase
  <2>3. Copy(m)' = Copy(m)
    BY <2>2 DEF Copy
  <2>4. QED
    BY <1>1, <2>2, <2>3 DEF Right, Moved
<1>6. QED
  BY <1>3, <1>4, <1>5

\* A mesh point has taken a step in which the message stays what it was.
LEMMA TakeIsRight ==
  ASSUME Stations, NEW m \in Message, OneCopyOf(m), NEW n \in Node, NEW u,
         Kept(Step(n), u, m), Take(u, air),
         m \in unsent' <=> m \in unsent, m \in delivered' <=> m \in delivered
  PROVE  Right(m)
<1> DEFINE t == [k \in Node |-> IF k = n THEN u ELSE Step(k)]
<1>1. u.at = n
  BY StartIsStep DEF Kept
<1>2. node' = [node EXCEPT ![n] = u.node] /\ air' = air \cup Transmitted(u, up')
  BY <1>1 DEF Take
<1>3. \A k \in Node : /\ Kept(Step(k), Step(k), m) /\ Step(k).node = node[k]
  BY StartIsStep, KeptBack
<1>4. \A k \in Node : Kept(Step(k), t[k], m)
  BY <1>3
<1>5. t[n] = u /\ \A k \in Node : k # n => t[k] = Step(k)
  OBVIOUS
<1> HIDE DEF t
<1>6. \A k \in Node : node'[k] = t[k].node
  BY <1>2, <1>3, <1>5 DEF Stations
<1>7. \A f \in air' : f \in air \/ \E k \in Node : f \in Transmitted(t[k], up')
  BY <1>2, <1>5
<1>8. Copies(m)' \subseteq Copies(m) /\ (Single(m) => Single(m)')
  BY <1>4, <1>6, <1>7, StationsKeep
<1>9. QED
  BY <1>8, KeptIsRight

\* Queues stay, and nothing is sent.
LEMMA StayIsRight ==
  ASSUME Stations, Stations', NEW m \in Message, OneCopyOf(m),
         \A n \in Node : node'[n].queue \subseteq node[n].queue, air' \subseteq air,
         m \in unsent' <=> m \in unsent, m \in delivered' <=> m \in delivered
  PROVE  Right(m)
<1> DEFINE t == [n \in Node |-> Begin(n, node'[n])]
<1>1. ASSUME NEW n \in Node PROVE Kept(Step(n), t[n], m) /\ t[n].node = node'[n]
  <2> DEFINE u == Begin(n, node'[n])
  <2>1. node'[n] \in NodeState
    BY DEF Stations
  <2>2. IsStep(u)
    BY <2>1, BeginIsStep
  <2>3. u.at = n /\ u.node = node'[n] /\ u.out = {}
    BY DEF Begin
  <2>4. t[n] = u
    OBVIOUS
  <2> HIDE DEF u, t
  <2>5. Step(n).at = n /\ Step(n).node = node[n] /\ Step(n).out = {}
    BY StartIsStep
  <2>6. u.at = Step(n).at /\ u.out = Step(n).out /\ u.node.queue \subseteq Step(n).node.queue
    BY <2>3, <2>5
  <2>7. Kept(Step(n), u, m)
    BY <2>2, <2>6, SideKept
  <2>8. QED
    BY <2>3, <2>4, <2>7
<1> HIDE DEF t
<1>2. \A f \in air' : f \in air \/ \E n \in Node : f \in Transmitted(t[n], up')
  OBVIOUS
<1>3. Copies(m)' \subseteq Copies(m) /\ (Single(m) => Single(m)')
  BY <1>1, <1>2, StationsKeep
<1>4. QED
  BY <1>3, KeptIsRight

-----------------------------------------------------------------------------
(* The upper layer sends.                                                  *)

LEMMA SendDataIsRight ==
  ASSUME IInv, NEW k \in Message, SendData(k), NEW m \in Message, OneCopyOf(m)
  PROVE  Right(m)
<1> DEFINE n == source[k]
           p == Data(n, target[k], MaxTtl, k)
           u == SendPacket(Step(n), p)
<1>1. n \in Node /\ Stations
  BY NetworkAssumption DEF IInv
<1>2. /\ p.src = n /\ p.dst = target[k] /\ p.ttl = MaxTtl
      /\ Carries(p, m) => m = k
  BY DEF Data, Carries
<1>3. Take(u, air) /\ k \in unsent /\ unsent' = unsent \ {k} /\ delivered' = delivered
  BY DEF SendData
<1> HIDE DEF p
<1>4. IsStep(Step(n)) /\ Step(n).at = n /\ Step(n).node = node[n] /\ Step(n).out = {}
  BY <1>1, StartIsStep
<1>5. CASE m # k
  <2>1. ~Carries(p, m)
    BY <1>2, <1>5
  <2>2. Kept(Step(n), u, m)
    BY <1>4, <2>1, ForwardUnicastKept DEF SendPacket
  <2> HIDE DEF n, u
  <2>3. (m \in unsent' <=> m \in unsent) /\ (m \in delivered' <=> m \in delivered)
    BY <1>3, <1>5
  <2>4. QED
    BY <1>1, <1>3, <2>2, <2>3, TakeIsRight
<1>6. CASE m = k
  <2>1. Copies(m) = {} /\ Phase(m) = "unsent"
    BY <1>3, <1>6, PhaseIs DEF OneCopyOf
  <2>2. Of(air, m) = {} /\ \A j \in Node : Held(node[j].queue, m) = {}
    <3>1. \A c : ~IsCopy(node, air, m, c)
      BY <2>1, CopiesAre
    <3>2. QED
      BY <3>1 DEF IsCopy
  <2>3. Absent(Step(n), m)
    BY <1>1, <1>4, <2>2 DEF Absent, Of
  <2>4. /\ IsStep(u) /\ u.at = n /\ Alone(u, m)
        /\ \A q \in Held(u.node.queue, m) : q = p
        /\ \A o \in Of(u.out, m) : o.packet = p
    BY <1>4, <2>3, SendPacketTakes
  <2> HIDE DEF u, n
  <2>5. node' = [node EXCEPT ![n] = u.node] /\ air' = air \cup Transmitted(u, up')
    BY <1>3, <2>4 DEF Take
  <2>6. node'[n] = u.node /\ \A j \in Node : j # n => Held(node'[j].queue, m) = {}
    BY <1>1, <2>2, <2>5 DEF Stations
  <2>7. \A f \in Of(air', m) : \E o \in Of(u.out, m) :
          f = [from |-> n, to |-> o.to, packet |-> o.packet]
    <3>1. ASSUME NEW f \in Of(air', m)
          PROVE  \E o \in Of(u.out, m) : f = [from |-> n, to |-> o.to, packet |-> o.packet]
      <4>1. f \in Transmitted(u, up')
        BY <2>2, <2>5 DEF Of
      <4>2. PICK o \in u.out : f = [from |-> n, to |-> o.to, packet |-> o.packet]
        BY <2>4, <4>1 DEF Transmitted
      <4>3. QED
        BY <4>2 DEF Of
    <3>2. QED
      BY <3>1
  <2>8. IsSingle(node', air', m)
    <3>1. AtMostOne(Of(air', m))
      BY <2>4, <2>7 DEF Alone, AtMostOne
    <3>2. (\A j \in Node : Held(node'[j].queue, m) = {}) \/ Of(air', m) = {}
      BY <2>4, <2>6, <2>7 DEF Alone
    <3>3. QED
      BY <2>4, <2>6, <3>1, <3>2 DEF IsSingle, Alone, AtMostOne
  <2>9. \A c \in Copies(m)' : c.at = n /\ c.packet = p
    <3>1. ASSUME NEW c, IsCopy(node', air', m, c) PROVE c.at = n /\ c.packet = p
      <4>1. CASE \E j \in Node : \E q \in Held(node'[j].queue, m) : c = [at |-> j, packet |-> q]
        BY <2>4, <2>6, <4>1
      <4>2. CASE \E f \in Of(air', m) : c = [at |-> f.from, packet |-> f.packet]
        BY <2>4, <2>7, <4>2
      <4>3. QED
        BY <3>1, <4>1, <4>2 DEF IsCopy
    <3>2. QED
      BY <3>1, CopiesAre
  <2>10. m \notin unsent' \cup delivered'
    BY <1>3, <1>6 DEF OneCopyOf
  <2>11. OneCopyOf(m)'
    <3>1. MaxTtl \in 1..MaxTtl
      BY HwmpAttributes
    <3>2. QED
      BY <1>2, <1>6, <2>8, <2>9, <2>10, <3>1, CopiesAre DEF OneCopyOf, n
  <2>12. CASE Copies(m)' = {}
    <3>1. Phase(m)' = "lost"
      BY <2>10, <2>12 DEF Phase
    <3>2. QED
      BY <2>1, <2>11, <3>1 DEF Right, Moved
  <2>13. CASE Copies(m)' # {}
    <3>1. Phase(m)' = "moving"
      BY <2>10, <2>13 DEF Phase
    <3>2. Copy(m) = [at |-> source[m], left |-> MaxTtl]
      BY <2>1, PhaseIs
    <3>3. (CHOOSE c \in Copies(m)' : TRUE) \in Copies(m)'
      BY <2>13
    <3>4. Copy(m)' = [at |-> n, left |-> p.ttl]
      BY <2>9, <3>1, <3>3 DEF Copy
    <3>5. QED
      BY <1>2, <1>6, <2>1, <2>11, <3>1, <3>2, <3>4 DEF Right, Moved, n
  <2>14. QED
    BY <2>12, <2>13
<1>7. QED
  BY <1>5, <1>6

-----------------------------------------------------------------------------
(* A frame arrives.                                                        *)

\* The packet p has arrived from n at those that hear it.
Arrived(f, n, p, hears) ==
  /\ node' = [k \in Node |-> IF k \in hears THEN ReceiveFrame(Step(k), n, p).node ELSE node[k]]
  /\ air' = (air \ {f}) \cup UNION {Transmitted(ReceiveFrame(Step(k), n, p), up) : k \in hears}
  /\ unsent' = unsent
  /\ delivered' = delivered \cup
       {m \in Message : p.type = "DATA" /\ p.id = m /\ target[m] \in hears}

\* Those that hear the frame take their steps.
LEMMA ReceiveParts ==
  ASSUME IInv, NEW f \in air, NEW lost, Receive(f, lost),
         NEW hears, hears = Receivers(f) \ lost
  PROVE  /\ hears \subseteq Node /\ \A n \in hears : <<f.from, n>> \in Links
         /\ f.packet \in Datas => hears \subseteq {f.to} /\ f.to \in Node
         /\ f.packet \in Packets /\ Arrived(f, f.from, f.packet, hears)
<1>1. hears \subseteq Node /\ \A n \in hears : <<f.from, n>> \in Links
  <2>1. ASSUME NEW n \in hears PROVE n \in Node /\ <<f.from, n>> \in Links
    <3>1. n \in Node /\ <<n, f.from>> \in Links
      BY DEF Receivers
    <3>2. <<f.from, n>> \in Links
      BY <3>1, NetworkAssumption
    <3>3. QED
      BY <3>1, <3>2
  <2>2. QED
    BY <2>1
<1>2. f \in Frames /\ f.packet \in Packets
  BY DEF IInv, Stations, Frames, Packets
<1>3. f.packet \in Datas => f.to \in Node
  BY <1>2 DEF Frames, Datas, PreqFrames
<1>4. f.packet \in Datas => hears \subseteq {f.to}
  BY <1>3, AllAssumption DEF Receivers
<1>5. Arrived(f, f.from, f.packet, hears)
  BY DEF Receive, Arrived
<1>6. QED
  BY <1>1, <1>2, <1>3, <1>4, <1>5

\* The frame carries something else.
LEMMA ReceiveOtherIsRight ==
  ASSUME IInv, NEW f \in air, NEW lost, Receive(f, lost), NEW m \in Message, OneCopyOf(m),
         ~Carries(f.packet, m)
  PROVE  Right(m)
<1> DEFINE hears == Receivers(f) \ lost
           p == f.packet
           from == f.from
           Input(n) == ReceiveFrame(Step(n), from, p)
           t == [n \in Node |-> IF n \in hears THEN Input(n) ELSE Step(n)]
<1>1. Stations
  BY DEF IInv
<1>2. hears = Receivers(f) \ lost
  OBVIOUS
<1> HIDE DEF hears
<1>3. hears \subseteq Node /\ p \in Packets /\ Arrived(f, from, p, hears)
  BY <1>2, ReceiveParts
<1> HIDE DEF p, from
<1>4. /\ \A n \in Node : node'[n] = IF n \in hears THEN Input(n).node ELSE node[n]
      /\ air' = (air \ {f}) \cup UNION {Transmitted(Input(n), up) : n \in hears}
  BY <1>3 DEF Arrived
<1>5. ~Carries(p, m)
  BY DEF p
<1>6. unsent' = unsent /\ (m \in delivered' <=> m \in delivered)
  BY <1>3, <1>5 DEF Arrived, Carries
<1>7. ASSUME NEW n \in Node
      PROVE  Kept(Step(n), t[n], m) /\ node'[n] = t[n].node
  <2>1. IsStep(Step(n)) /\ Step(n).node = node[n]
    BY <1>1, StartIsStep
  <2>2. Kept(Step(n), Step(n), m) /\ Kept(Step(n), Input(n), m)
    BY <1>3, <1>5, <2>1, KeptBack, ReceiveFrameKept
  <2>3. QED
    BY <1>4, <2>1, <2>2
<1>8. \A n \in hears : n \in Node /\ t[n] = Input(n)
  BY <1>3
<1> HIDE DEF t, Input
<1>9. \A g \in air' : g \in air \/ \E n \in Node : g \in Transmitted(t[n], up)
  BY <1>4, <1>8
<1>10. Copies(m)' \subseteq Copies(m) /\ (Single(m) => Single(m)')
  BY <1>7, <1>9, StationsKeep
<1>11. QED
  BY <1>10, <1>6, KeptIsRight

\* A frame with a packet of the message: it is the only copy.
LEMMA ReceiveOwnIsRight ==
  ASSUME IInv, NEW f \in air, NEW lost, Receive(f, lost), NEW m \in Message, OneCopyOf(m),
         Carries(f.packet, m)
  PROVE  Right(m)
<1> DEFINE hears == Receivers(f) \ lost
           p == f.packet
           c == [at |-> f.from, packet |-> p]
           next == [p EXCEPT !.ttl = @ - 1]
           from == f.from
           Input(n) == ReceiveFrame(Step(n), from, p)
<1>1. Stations
  BY DEF IInv
<1>2. Of(air, m) = {f} /\ \A n \in Node : Held(node[n].queue, m) = {}
  <2>1. f \in Of(air, m)
    BY DEF Of
  <2>2. IsSingle(node, air, m)
    BY CopiesAre DEF OneCopyOf
  <2>3. QED
    BY <2>1, <2>2 DEF IsSingle, AtMostOne
<1>3. c \in Copies(m)
  <2>1. IsCopy(node, air, m, c)
    BY <1>2 DEF IsCopy
  <2>2. QED
    BY <2>1, CopiesAre
<1>4. /\ p.src = source[m] /\ p.dst = target[m] /\ p.ttl \in 1..MaxTtl
      /\ m \notin unsent /\ m \notin delivered
      /\ Phase(m) = "moving" /\ Copy(m) = [at |-> f.from, left |-> p.ttl]
  BY <1>3, PhaseIs DEF OneCopyOf
<1>5. p.type = "DATA" /\ p.id = m
  BY DEF Carries
<1>6. hears = Receivers(f) \ lost
  OBVIOUS
<1> HIDE DEF hears
<1>7. /\ hears \subseteq Node /\ \A n \in hears : <<f.from, n>> \in Links
      /\ p \in Datas => hears \subseteq {f.to} /\ f.to \in Node
      /\ p \in Packets /\ Arrived(f, from, p, hears)
  BY <1>6, ReceiveParts
<1>8. p \in Datas
  BY <1>5, <1>7 DEF Packets, PreqFrames, PrepFrames, PerrFrames
<1>9. hears \subseteq {f.to} /\ f.to \in Node
  BY <1>7, <1>8
<1>10. /\ m \in delivered' <=> p.dst \in hears
       /\ m \notin unsent'
  BY <1>4, <1>5, <1>7 DEF Arrived
<1> HIDE DEF c, p, from
<1>11. /\ \A n \in Node : node'[n] = IF n \in hears THEN Input(n).node ELSE node[n]
       /\ air' = (air \ {f}) \cup UNION {Transmitted(Input(n), up) : n \in hears}
  BY <1>7 DEF Arrived
<1>12. CASE hears = {}
  <2>1. \A n \in Node : node'[n] = node[n]
    BY <1>12, <1>11
  <2>2. air' = air \ {f}
    BY <1>12, <1>11
  <2>3. Of(air', m) = {} /\ \A n \in Node : Held(node'[n].queue, m) = {}
    BY <1>2, <2>1, <2>2 DEF Of
  <2>4. \A x : ~IsCopy(node', air', m, x)
    BY <2>3 DEF IsCopy
  <2>5. IsSingle(node', air', m)
    BY <2>3 DEF IsSingle, AtMostOne
  <2>6. Copies(m)' = {} /\ Single(m)'
    BY <2>4, <2>5, CopiesAre
  <2>7. OneCopyOf(m)'
    BY <1>10, <2>6 DEF OneCopyOf
  <2>8. Phase(m)' = "lost"
    BY <1>10, <1>12, <2>6 DEF Phase
  <2>9. QED
    BY <1>4, <2>7, <2>8 DEF Right, Moved
<1>13. CASE hears # {}
  <2> DEFINE k == f.to
             t == Input(k)
  <2>1. hears = {k} /\ k \in Node
    BY <1>9, <1>13
  <2>2. IsStep(Step(k)) /\ Step(k).at = k /\ Step(k).node = node[k] /\ Step(k).out = {}
    BY <1>1, <2>1, StartIsStep
  <2>3. Absent(Step(k), m)
    BY <1>2, <2>1, <2>2 DEF Absent, Of
  <2> DEFINE s == Step(k)
  <2>4. t = ReceiveFrame(s, from, p)
    OBVIOUS
  <2>5. IsStep(s) /\ Absent(s, m)
    BY <2>2, <2>3
  <2> HIDE DEF s, t
  <2>6. /\ IsStep(t) /\ t.at = s.at /\ Held(t.node.queue, m) = {}
         /\ AtMostOne(Of(t.out, m))
         /\ \A o \in Of(t.out, m) :
              /\ s.at # p.dst /\ p.ttl >= 2
              /\ o.packet = [p EXCEPT !.ttl = @ - 1]
    BY <1>8, <2>4, <2>5, ReceiveFramePasses
  <2>7. /\ t.at = Step(k).at /\ Held(t.node.queue, m) = {} /\ AtMostOne(Of(t.out, m))
        /\ \A o \in Of(t.out, m) : Step(k).at # p.dst /\ p.ttl >= 2 /\ o.packet = next
    BY <2>6 DEF s
  <2> HIDE DEF next
  <2>8. /\ t.at = k /\ Held(t.node.queue, m) = {} /\ AtMostOne(Of(t.out, m))
        /\ \A o \in Of(t.out, m) : k # p.dst /\ p.ttl >= 2 /\ o.packet = next
    BY <2>2, <2>7
  <2>9. /\ \A n \in Node : node'[n] = IF n = k THEN t.node ELSE node[n]
        /\ air' = (air \ {f}) \cup Transmitted(t, up)
    BY <1>11, <2>1 DEF t
  <2>10. <<f.from, k>> \in Links
    BY <1>7, <2>1
  <2>11. next.src = p.src /\ next.dst = p.dst /\ next.ttl = p.ttl - 1
    BY <1>8 DEF next, Datas
  <2> HIDE DEF k, t, next
  <2>12. \A n \in Node : Held(node'[n].queue, m) = {}
    BY <1>2, <2>8, <2>9
  <2>13. \A g \in Of(air', m) : \E o \in Of(t.out, m) :
          g = [from |-> k, to |-> o.to, packet |-> o.packet]
    <3>1. ASSUME NEW g \in Of(air', m)
          PROVE  \E o \in Of(t.out, m) : g = [from |-> k, to |-> o.to, packet |-> o.packet]
      <4>1. g \in Transmitted(t, up)
        BY <1>2, <2>9 DEF Of
      <4>2. PICK o \in t.out : g = [from |-> k, to |-> o.to, packet |-> o.packet]
        BY <2>8, <4>1 DEF Transmitted
      <4>3. QED
        BY <4>2 DEF Of
    <3>2. QED
      BY <3>1
  <2>14. IsSingle(node', air', m)
    <3>1. AtMostOne(Of(air', m))
      BY <2>8, <2>13 DEF AtMostOne
    <3>2. QED
      BY <2>12, <3>1 DEF IsSingle
  <2>15. \A x \in Copies(m)' : /\ x.at = k /\ x.packet = next
                               /\ k # p.dst /\ p.ttl >= 2
    <3>1. ASSUME NEW x, IsCopy(node', air', m, x)
          PROVE  x.at = k /\ x.packet = next /\ k # p.dst /\ p.ttl >= 2
      <4>1. PICK g \in Of(air', m) : x = [at |-> g.from, packet |-> g.packet]
        BY <2>12, <3>1 DEF IsCopy
      <4>2. PICK o \in Of(t.out, m) : g = [from |-> k, to |-> o.to, packet |-> o.packet]
        BY <2>13
      <4>3. QED
        BY <2>8, <4>1, <4>2
    <3>2. QED
      BY <3>1, CopiesAre
  <2>16. m \in delivered' <=> p.dst = k
    BY <1>10, <2>1
  <2>17. p.ttl >= 2 => next.ttl \in 1..MaxTtl
    BY <1>4, <2>11, HwmpAttributes
  <2>18. OneCopyOf(m)'
    BY <1>4, <1>10, <2>11, <2>14, <2>15, <2>16, <2>17, CopiesAre DEF OneCopyOf
  <2>19. CASE p.dst = k
    <3>1. Phase(m)' = "delivered"
      BY <1>10, <2>16, <2>19 DEF Phase
    <3>2. <<Copy(m).at, target[m]>> \in Links
      BY <1>4, <2>10, <2>19
    <3>3. QED
      BY <1>4, <2>18, <3>1, <3>2 DEF Right, Moved
  <2>20. CASE p.dst # k /\ Copies(m)' = {}
    <3>1. Phase(m)' = "lost"
      BY <1>10, <2>16, <2>20 DEF Phase
    <3>2. QED
      BY <1>4, <2>18, <3>1 DEF Right, Moved
  <2>21. CASE p.dst # k /\ Copies(m)' # {}
    <3>1. Phase(m)' = "moving"
      BY <1>10, <2>16, <2>21 DEF Phase
    <3>2. (CHOOSE x \in Copies(m)' : TRUE) \in Copies(m)'
      BY <2>21
    <3>3. Copy(m)' = [at |-> k, left |-> next.ttl]
      BY <2>15, <3>1, <3>2 DEF Copy
    <3>4. p.ttl >= 2 /\ p.ttl \in Nat
      BY <1>4, <2>15, <2>21
    <3>5. Copy(m).left > 1 /\ Copy(m)'.left = Copy(m).left - 1
      BY <1>4, <2>11, <3>3, <3>4
    <3>6. Copy(m)'.at \in Node /\ <<Copy(m).at, Copy(m)'.at>> \in Links
      BY <1>4, <2>1, <2>10, <3>3
    <3>7. QED
      BY <1>4, <2>18, <3>1, <3>5, <3>6 DEF Right, Moved
  <2>22. QED
    BY <2>19, <2>20, <2>21
<1>14. QED
  BY <1>12, <1>13

-----------------------------------------------------------------------------
(* Every step.                                                             *)

AllOne == \A m \in Message : OneCopyOf(m)

LEMMA NextIsRight ==
  ASSUME IInv, IInv', [Next]_vars, NEW m \in Message, OneCopyOf(m)
  PROVE  Right(m)
<1>1. Stations /\ Stations'
  BY DEF IInv
<1>2. ASSUME NEW n \in Node PROVE IsStep(Step(n))
  BY <1>1, StartIsStep
<1>3. ASSUME NEW k \in Message, SendData(k) PROVE Right(m)
  BY <1>3, SendDataIsRight
<1>4. ASSUME NEW f \in air, NEW lost, Receive(f, lost) PROVE Right(m)
  <2>1. CASE Carries(f.packet, m)
    BY <1>4, <2>1, ReceiveOwnIsRight
  <2>2. CASE ~Carries(f.packet, m)
    BY <1>4, <2>2, ReceiveOtherIsRight
  <2>3. QED
    BY <2>1, <2>2
<1>5. ASSUME NEW n \in Node, ProactivePreq(n) PROVE Right(m)
  <2> DEFINE u == SendProactivePreq(Step(n))
  <2>1. Take(u, air) /\ unsent' = unsent /\ delivered' = delivered
    BY <1>5 DEF ProactivePreq
  <2>2. Kept(Step(n), u, m)
    BY <1>2, SendProactivePreqKept
  <2> HIDE DEF u
  <2>3. QED
    BY <1>1, <2>1, <2>2, TakeIsRight
<1>6. ASSUME NEW n \in Node, PreqTimer(n) PROVE Right(m)
  <2> DEFINE s == Step(n)
             x == [s.node EXCEPT !.preqTimer = FALSE]
             v == [Step(n) EXCEPT !.node.preqTimer = FALSE]
             u == SendMyPreq(v)
  <2>1. Take(u, air) /\ unsent' = unsent /\ delivered' = delivered
    BY <1>6 DEF PreqTimer
  <2>2. v = [s EXCEPT !.node = x]
    OBVIOUS
  <2>3. IsStep(s)
    BY <1>2
  <2> HIDE DEF s, v
  <2>4. IsNode(x) /\ x.queue \subseteq s.node.queue
    BY <2>3 DEF IsStep, IsNode
  <2> HIDE DEF x
  <2>5. Kept(s, v, m)
    BY <2>2, <2>3, <2>4, NodeKept
  <2>6. Kept(v, u, m)
    BY <2>5, KeptStep, SendMyPreqKept
  <2> HIDE DEF u
  <2>7. Kept(Step(n), u, m)
    BY <2>5, <2>6, KeptOn DEF s
  <2>8. QED
    BY <1>1, <2>1, <2>7, TakeIsRight
<1>7. ASSUME NEW n \in Node, PerrTimer(n) PROVE Right(m)
  <2> DEFINE u == SendMyPerr(Step(n))
  <2>1. Take(u, air) /\ unsent' = unsent /\ delivered' = delivered
    BY <1>7 DEF PerrTimer
  <2>2. Kept(Step(n), u, m)
    BY <1>2, SendMyPerrKept
  <2> HIDE DEF u
  <2>3. QED
    BY <1>1, <2>1, <2>2, TakeIsRight
<1>8. ASSUME NEW n \in Node, RootExpires(n) PROVE Right(m)
  <2>1. \A k \in Node : node'[k].queue \subseteq node[k].queue
    BY <1>1, <1>8 DEF RootExpires, Stations, NodeState
  <2>2. air' \subseteq air /\ unsent' = unsent /\ delivered' = delivered
    BY <1>8 DEF RootExpires
  <2>3. QED
    BY <1>1, <2>1, <2>2, StayIsRight
<1>9. ASSUME NEW n \in Node, NEW d \in Node, RetryTimer(n, d) PROVE Right(m)
  <2> DEFINE u == RetryPathDiscovery(Step(n), d)
  <2>1. Take(u, air) /\ unsent' = unsent /\ delivered' = delivered
    BY <1>9 DEF RetryTimer
  <2>2. Kept(Step(n), u, m)
    BY <1>2, RetryPathDiscoveryKept
  <2> HIDE DEF u
  <2>3. QED
    BY <1>1, <2>1, <2>2, TakeIsRight
<1>10. ASSUME NEW n \in Node, NEW d \in Node, LinkCloses(n, d) PROVE Right(m)
  <2> DEFINE u == PeerLinkClosed(Step(n), d)
  <2>1. Take(u, air) /\ unsent' = unsent /\ delivered' = delivered
    BY <1>10 DEF LinkCloses
  <2>2. Kept(Step(n), u, m)
    BY <1>2, PathsFailKept DEF PeerLinkClosed
  <2> HIDE DEF u
  <2>3. QED
    BY <1>1, <2>1, <2>2, TakeIsRight
<1>11. ASSUME NEW n \in Node, NEW d \in Node, LinkOpens(n, d) PROVE Right(m)
  <2>1. \A k \in Node : node'[k].queue \subseteq node[k].queue
    BY <1>11 DEF LinkOpens
  <2>2. air' \subseteq air /\ unsent' = unsent /\ delivered' = delivered
    BY <1>11 DEF LinkOpens
  <2>3. QED
    BY <1>1, <2>1, <2>2, StayIsRight
<1>12. ASSUME NEW n \in Node, NEW d \in Node, NEW forgotten, PathExpires(n, d, forgotten)
       PROVE  Right(m)
  <2>1. \A k \in Node : node'[k].queue \subseteq node[k].queue
    BY <1>1, <1>12 DEF PathExpires, Stations, NodeState
  <2>2. air' \subseteq air /\ unsent' = unsent /\ delivered' = delivered
    BY <1>12 DEF PathExpires
  <2>3. QED
    BY <1>1, <2>1, <2>2, StayIsRight
<1>13. CASE UNCHANGED vars
  <2>1. \A k \in Node : node'[k].queue \subseteq node[k].queue
    BY <1>13 DEF vars
  <2>2. air' \subseteq air /\ unsent' = unsent /\ delivered' = delivered
    BY <1>13 DEF vars
  <2>3. QED
    BY <1>1, <2>1, <2>2, StayIsRight
<1>14. QED
  BY <1>3, <1>4, <1>5, <1>6, <1>7, <1>8, <1>9, <1>10, <1>11, <1>12, <1>13 DEF Next

-----------------------------------------------------------------------------
(* The service.                                                            *)

LEMMA InitAllOne == Init => AllOne
<1> SUFFICES ASSUME Init, NEW m \in Message PROVE OneCopyOf(m)
  BY DEF AllOne
<1>1. \A n \in Node : node[n].queue = {}
  BY DEF Init, NewNode
<1>2. \A c : ~IsCopy(node, air, m, c)
  BY <1>1 DEF IsCopy, Of, Held, Init
<1>3. IsSingle(node, air, m)
  BY <1>1 DEF IsSingle, Of, Held, Init, AtMostOne
<1>4. Copies(m) = {} /\ Single(m)
  BY <1>2, <1>3, CopiesAre
<1>5. QED
  BY <1>4 DEF OneCopyOf, Init

LEMMA NextAllOne == IInv /\ IInv' /\ AllOne /\ [Next]_vars => AllOne'
<1> SUFFICES ASSUME IInv, IInv', AllOne, [Next]_vars, NEW m \in Message
             PROVE  OneCopyOf(m)'
  BY DEF AllOne
<1>1. OneCopyOf(m)
  BY DEF AllOne
<1>2. QED
  BY <1>1, NextIsRight DEF Right

LEMMA InductiveAllOne == Spec => []AllOne
BY InitAllOne, NextAllOne, Inductive, PTL DEF Spec

\* No packet is ever doubled or comes back: at any time it is in one queue or in one frame,
\* between the source and the target it set out with, or nowhere.
THEOREM PacketsAreNotDoubled == Spec => []OneCopy
<1>1. AllOne => OneCopy
  BY DEF AllOne, OneCopyOf, Single, OneCopy
<1>2. QED
  BY <1>1, InductiveAllOne, PTL

LEMMA InitService == Init => Service!Init
<1> SUFFICES ASSUME Init PROVE Service!Init
  OBVIOUS
<1>1. ASSUME NEW m \in Message
      PROVE  Phase(m) = "unsent" /\ Copy(m) = [at |-> source[m], left |-> MaxTtl]
  <2>1. OneCopyOf(m) /\ m \in unsent
    BY InitAllOne DEF AllOne, Init
  <2>2. QED
    BY <2>1, PhaseIs
<1>2. QED
  BY <1>1 DEF Service!Init

LEMMA NextService ==
  IInv /\ IInv' /\ AllOne /\ [Next]_vars => [Service!Next]_Service!vars
<1> SUFFICES ASSUME IInv, IInv', AllOne, [Next]_vars PROVE Service!Next
  OBVIOUS
<1>1. ASSUME NEW m \in Message PROVE Moved(m)
  <2>1. OneCopyOf(m)
    BY DEF AllOne
  <2>2. QED
    BY <2>1, NextIsRight DEF Right
<1>2. ASSUME NEW m \in Message
      PROVE  Service!Send(m) \/ Service!Forward(m) \/ Service!Deliver(m) \/ Service!Lose(m)
               \/ Service!Rests(m)
  BY <1>1 DEF Moved, Service!Send, Service!Forward, Service!Deliver, Service!Lose,
              Service!Rests, Service!Moves, Service!Stays
<1>3. QED
  BY <1>2 DEF Service!Next

\* An HWMP mesh is a delivery service. Whatever is lost, late or given up, whichever links
\* close and wherever the paths lead, even in a circle, a packet passes from one neighbour
\* to the next, at most MaxTtl times, and reaches its own target at most once.
THEOREM MeshDelivers == Spec => ImplementsDelivery
BY InitService, NextService, Inductive, InductiveAllOne, PTL
   DEF Spec, ImplementsDelivery, Service!Spec
=============================================================================
