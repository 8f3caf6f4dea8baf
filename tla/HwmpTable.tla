------------------------------ MODULE HwmpTable ------------------------------
(***************************************************************************)
(* The routing table of HWMP (src/src/mesh/model/dot11s/hwmp-rtable.cc):   *)
(* one reactive path per destination and one proactive path to the root.   *)
(*                                                                         *)
(* Lifetimes are abstract: a path is active until it expires, and stays in *)
(* the table after that, where the lookups of expired paths still find it. *)
(* One interface per mesh point, so no interface identifiers.              *)
(***************************************************************************)
EXTENDS Integers, FiniteSets

CONSTANTS
  Node,   \* addresses of the mesh points
  None    \* no mesh point: what a failed lookup returns as retransmitter

ASSUME NoneAssumption == None \notin Node

\* A reactive path; the empty lookup result has the number 0.
NoPath == [next |-> None, metric |-> 0, seqNo |-> 0, active |-> FALSE, precursors |-> {}]
NoRoot == [root |-> None, next |-> None, metric |-> 0, seqNo |-> 0, active |-> FALSE]

Paths == [next: Node \cup {None}, metric: Nat, seqNo: Nat, active: BOOLEAN,
          precursors: SUBSET Node]
Roots == [root: Node \cup {None}, next: Node \cup {None}, metric: Nat, seqNo: Nat,
          active: BOOLEAN]

\* A table: paths[d] for every destination d, and the path to the root.
Table == [paths: [Node -> Paths], root: Roots]

EmptyTable == [paths |-> [d \in Node |-> NoPath], root |-> NoRoot]

\* A renewed path keeps its precursors.
AddReactivePath(t, d, next, metric, seqNo) ==
  [t EXCEPT !.paths[d] = [next |-> next, metric |-> metric, seqNo |-> seqNo,
                          active |-> TRUE, precursors |-> @.precursors]]

AddProactivePath(t, root, next, metric, seqNo) ==
  [t EXCEPT !.root = [root |-> root, next |-> next, metric |-> metric,
                      seqNo |-> seqNo, active |-> TRUE]]

\* A precursor is recorded only where there is a path, active or not.
AddPrecursors(t, dsts, m) ==
  LET Preceded(e) == [e EXCEPT !.precursors = @ \cup {m}]
  IN  [t EXCEPT !.paths = [d \in Node |->
         IF d \in dsts /\ t.paths[d].next # None THEN Preceded(t.paths[d])
                                                 ELSE t.paths[d]]]

AddPrecursor(t, d, m) == AddPrecursors(t, {d}, m)

\* DeleteReactivePath and DeleteProactivePath, for each of dsts.
DeleteReactivePaths(t, dsts) ==
  [t EXCEPT !.paths = [d \in Node |-> IF d \in dsts THEN NoPath ELSE @[d]]]

DeleteProactivePaths(t, dsts) ==
  [t EXCEPT !.root = IF @.root \in dsts THEN NoRoot ELSE @]

\* LookupProactive deletes a path that has expired.
PurgeRoot(t) == IF t.root.active THEN t ELSE [t EXCEPT !.root = NoRoot]

\* An active reactive path to d, if there is one, would not be worse than metric.
Improves(t, d, metric) == ~t.paths[d].active \/ metric < t.paths[d].metric

ImprovesRoot(t, metric) == ~t.root.active \/ metric < t.root.metric

\* The paths via m are about to be reported lost; the reactive ones get new numbers.
RaiseNumbers(t, m) ==
  LET Raised(e) == [e EXCEPT !.seqNo = @ + 1]
  IN  [t EXCEPT !.paths = [d \in Node |->
         IF t.paths[d].next = m THEN Raised(t.paths[d]) ELSE t.paths[d]]]

\* The result of GetUnreachableDestinations; t has raised its numbers.
UnreachableDestinations(t, m) ==
  {[dst |-> d, seqNo |-> t.paths[d].seqNo] : d \in {e \in Node : t.paths[e].next = m}}
    \cup IF t.root.next = m THEN {[dst |-> t.root.root, seqNo |-> t.root.seqNo]} ELSE {}

\* The lifetime of a path ends, and with it that of some of its precursors.
ExpirePath(t, d, forgotten) ==
  [t EXCEPT !.paths[d].active = FALSE, !.paths[d].precursors = @ \ forgotten]

ExpireRoot(t) == [t EXCEPT !.root.active = FALSE]
=============================================================================
