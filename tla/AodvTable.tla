------------------------------ MODULE AodvTable ------------------------------
(***************************************************************************)
(* The AODV routing table: class RoutingTable and its entries              *)
(* (src/src/aodv/model/aodv-rtable.{h,cc}).                                *)
(*                                                                         *)
(* A table maps every destination to an entry; NoRoute stands for "no      *)
(* entry". Lifetimes are not kept: a route may expire at any time, which   *)
(* is the operator Expire. The interface and the device of a route are     *)
(* left out, because every station of the model has one interface.         *)
(***************************************************************************)
EXTENDS Integers, FiniteSets

CONSTANTS Node,   \* the stations, by their addresses
          None    \* the address of no station

ASSUME NoneAssumption == None \notin Node

Flags == {"VALID", "INVALID", "IN_SEARCH"}

NoRoute == [flag |-> "NONE", known |-> FALSE, seqNo |-> 0, hop |-> 0,
            nextHop |-> None, rreqCnt |-> 0, precursors |-> {}]

\* Only a search for a destination of which nothing is known has no next hop.
Entry ==
  {e \in [flag: Flags, known: BOOLEAN, seqNo: Nat, hop: Nat,
          nextHop: Node \cup {None}, rreqCnt: Nat, precursors: SUBSET Node] :
     e.nextHop = None => e.flag = "IN_SEARCH" /\ ~e.known}

Table == [Node -> Entry \cup {NoRoute}]

EmptyTable == [d \in Node |-> NoRoute]

\* The constructor: a new entry is VALID.
Route(known, seqNo, hop, nextHop) ==
  [NoRoute EXCEPT !.flag = "VALID", !.known = known, !.seqNo = seqNo,
                  !.hop = hop, !.nextHop = nextHop]

LookupRoute(t, d) == t[d].flag # "NONE"
LookupValidRoute(t, d) == t[d].flag = "VALID"

\* What a table stores: only an entry in search keeps its request counter.
Stored(e) == IF e.flag = "IN_SEARCH" THEN e ELSE [e EXCEPT !.rreqCnt = 0]

AddRoute(t, d, e) == IF LookupRoute(t, d) THEN t ELSE [t EXCEPT ![d] = Stored(e)]
Update(t, d, e)   == IF LookupRoute(t, d) THEN [t EXCEPT ![d] = Stored(e)] ELSE t
DeleteRoute(t, d) == [t EXCEPT ![d] = NoRoute]

\* AddRoute or Update, whichever applies.
Put(t, d, e) == [t EXCEPT ![d] = Stored(e)]

InsertPrecursor(t, d, m) ==
  Update(t, d, [t[d] EXCEPT !.precursors = @ \cup {m}])

Precursors(t, ds) == UNION {t[d].precursors : d \in ds}

Invalidate(e) == [e EXCEPT !.flag = "INVALID", !.rreqCnt = 0]

InvalidateRoutesWithDst(t, ds) ==
  [d \in Node |-> IF d \in ds /\ LookupValidRoute(t, d) THEN Invalidate(t[d])
                                                        ELSE t[d]]

\* GetListOfDestinationWithNextHop: entries of every flag.
DestinationsVia(t, m) == {d \in Node : LookupRoute(t, d) /\ t[d].nextHop = m}

\* Purge, for one entry whose lifetime is over; a search has no end here.
MayExpire(t, d) == t[d].flag \in {"VALID", "INVALID"}
Expire(t, d) == [t EXCEPT ![d] = IF @.flag = "VALID" THEN Invalidate(@)
                                                     ELSE NoRoute]
=============================================================================
