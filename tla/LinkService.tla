----------------------------- MODULE LinkService -----------------------------
(***************************************************************************)
(* What mesh peering management promises to the routing protocol above it, *)
(* which asks for a neighbour only whether the link to it is active. Each  *)
(* interface i has at most one session with an interface j. A session has  *)
(* an id that its mesh point never used before; it comes up at most once,  *)
(* only after both ends have confirmed it, and once it went down it never  *)
(* comes up again: a new session has to be begun and confirmed.            *)
(***************************************************************************)
CONSTANTS Iface, MeshPoint, mp,  \* the interfaces, and the mesh points that own them
          NoId                   \* no session

VARIABLES
  session,    \* session[i][j]: the session of i with j
  confirmed,  \* confirmed[i][j]: <<an id of i, the id of j>> that i confirmed to j
  used        \* used[m]: the ids that mesh point m has given out

vars == <<session, confirmed, used>>

NoSession == [phase |-> "none", id |-> NoId]

Init ==
  /\ session = [i \in Iface |-> [j \in Iface |-> NoSession]]
  /\ confirmed = [i \in Iface |-> [j \in Iface |-> {}]]
  /\ used = [m \in MeshPoint |-> {NoId}]

-----------------------------------------------------------------------------
Phase(i, j) == session[i][j].phase

\* The session of i with j enters a phase.
Enter(i, j, phase) == session' = [session EXCEPT ![i][j].phase = phase]

\* i may confirm to j, on behalf of the session id, what j offers.
MayConfirm(i, j, id) ==
  /\ \A x, y \in Iface : <<x, y>> # <<i, j>> => confirmed'[x][y] = confirmed[x][y]
  /\ confirmed[i][j] \subseteq confirmed'[i][j]
  /\ \A ids \in confirmed'[i][j] \ confirmed[i][j] : ids[1] = id

\* Both ends have confirmed the session of i with j, i perhaps in this step.
Mutual(i, j, id) ==
  /\ \E ids \in confirmed[j][i] : ids[2] = id
  /\ \E ids \in confirmed'[i][j] : ids[1] = id

\* Mesh point m gives out an id that it never gave out before.
Give(m, id) ==
  /\ id \notin used[m]
  /\ used' = [used EXCEPT ![m] = @ \cup {id}]

Begin(i, j, id) ==
  /\ Phase(i, j) = "none"
  /\ Give(mp[i], id)
  /\ session' = [session EXCEPT ![i][j] = [phase |-> "trying", id |-> id]]
  /\ MayConfirm(i, j, id)

\* An id is given out for a session that is refused at once.
Refuse(i, id) == Give(mp[i], id) /\ UNCHANGED <<session, confirmed>>

Confirm(i, j) ==
  /\ Phase(i, j) \in {"trying", "up"}
  /\ MayConfirm(i, j, session[i][j].id)
  /\ UNCHANGED <<session, used>>

ComeUp(i, j) ==
  /\ Phase(i, j) = "trying"
  /\ Enter(i, j, "up")
  /\ MayConfirm(i, j, session[i][j].id)
  /\ Mutual(i, j, session[i][j].id)
  /\ UNCHANGED used

GoDown(i, j) ==
  /\ Phase(i, j) \in {"trying", "up"}
  /\ Enter(i, j, "down")
  /\ UNCHANGED <<confirmed, used>>

Forget(i, j) ==
  /\ Phase(i, j) = "down"
  /\ session' = [session EXCEPT ![i][j] = NoSession]
  /\ UNCHANGED <<confirmed, used>>

\* The id of a new session is the one it has afterwards; that of a refused
\* session is the one its mesh point has given out afterwards.
Next ==
  \E i, j \in Iface :
    \/ Begin(i, j, session'[i][j].id)
    \/ \E id \in used'[mp[i]] : Refuse(i, id)
    \/ Confirm(i, j)
    \/ ComeUp(i, j)
    \/ GoDown(i, j)
    \/ Forget(i, j)

Spec == Init /\ [][Next]_vars
=============================================================================
