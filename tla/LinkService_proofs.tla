-------------------------- MODULE LinkService_proofs --------------------------
(***************************************************************************)
(* Peering management implements LinkService.                              *)
(*                                                                         *)
(* PeerManagement_proofs shows what a method of a link may return to be    *)
(* committed (Sound). Here the same methods are shown to move a link only  *)
(* along the phases of LinkService (Advances), and every action is shown   *)
(* to be a step of LinkService, or none.                                   *)
(***************************************************************************)
EXTENDS PeerManagement_proofs

Trying == {"OPN_SNT", "CNF_RCVD", "OPN_RCVD"}

\* How a link may change its state in one step.
Moves(s, t) ==
  \/ s = t
  \/ s \in Trying \cup {"IDLE"} /\ t \in Trying
  \/ s \in Trying /\ t = "ESTAB"
  \/ s \in Trying \cup {"ESTAB"} /\ t = "HOLDING"
  \/ s = "HOLDING" /\ t = "IDLE"

\* The result r of a method on link l: the same instance in a later phase, and
\* no Confirm unless the link is being set up or established.
Advances(l, r) ==
  /\ Moves(l.state, r.link.state)
  /\ r.link.localId = l.localId
  /\ \A k \in 1..Len(r.sent) :
       r.sent[k].type = "Confirm" => r.link.state \in Trying \cup {"ESTAB"}

-----------------------------------------------------------------------------
(* The methods of a link advance it.                                       *)

\* A transition that sends no Confirm advances the link if its state moves.
LEMMA PlainAdvances ==
  ASSUME NEW l \in Link, NEW s, NEW told, NEW off, NEW on, NEW frames \in Plain(l),
         Moves(l.state, s)
  PROVE  /\ Advances(l, Go(l, s, told, off, on, frames))
         /\ s = l.state => Advances(l, Result(l, told, frames))
<1>1. \A k \in 1..Len(frames) : frames[k].type # "Confirm"
  BY FrameSequences
<1> DEFINE r == Go(l, s, told, off, on, frames)
           q == Result(l, told, frames)
<1>2. /\ r.link.state = s /\ r.link.localId = l.localId /\ r.sent = frames
      /\ q.link = l /\ q.sent = frames
  BY DEF Go, Result, Link
<1> HIDE DEF r, q
<1>3. Advances(l, r)
  BY <1>1, <1>2 DEF Advances
<1>4. s = l.state => Advances(l, q)
  BY <1>1, <1>2 DEF Advances
<1>5. QED
  BY <1>3, <1>4 DEF r, q

\* So does one that sends a Confirm, if the link is set up or established then.
LEMMA AnswerAdvances ==
  ASSUME NEW l \in Link, NEW s \in Trying \cup {"ESTAB"}, NEW told, NEW off, NEW on,
         NEW frames, Moves(l.state, s)
  PROVE  /\ Advances(l, Go(l, s, told, off, on, frames))
         /\ s = l.state => Advances(l, Result(l, told, frames))
BY DEF Advances, Go, Result, Link

LEMMA StateMachineAdvances ==
  ASSUME NEW l \in Link, NEW e \in Events
  PROVE  Advances(l, StateMachine(l, e))
<1>0. /\ << >> \in Plain(l) /\ <<OpenFrame(l)>> \in Plain(l)
      /\ <<CloseFrame(l)>> \in Plain(l)
  BY DEF Plain
<1>1. l.state \in States
  BY DEF Link
<1>2. Advances(l, Ignore(l))
  BY <1>0, PlainAdvances DEF Ignore, Moves
<1>3. ASSUME NEW ostate, NEW off, l.state \in Trying \cup {"ESTAB"}
      PROVE  Advances(l, Hold(l, ostate, off))
  BY <1>0, <1>3, PlainAdvances DEF Hold, Moves
<1>4. ASSUME l.state \in Trying
      PROVE  Advances(l, Retry(l))
  <2> DEFINE m == [l EXCEPT !.retries = @ + 1]
             r == Go(m, l.state, Silence, {}, {"retry"}, <<OpenFrame(l)>>)
  <2>1. r.link.state = l.state /\ r.link.localId = l.localId
    BY DEF Go, Result, Link
  <2>2. OpenFrame(m) = OpenFrame(l)
    BY DEF OpenFrame, Link
  <2>3. Retry(l) = r
    BY <2>2 DEF Retry
  <2> HIDE DEF r
  <2>4. QED
    BY <1>4, <2>1, <2>3 DEF Advances, Moves
<1>5. CASE l.state = "IDLE"
  BY <1>0, <1>2, <1>5, PlainAdvances, AnswerAdvances
  DEF StateMachine, InIdle, Moves, Trying
<1>6. CASE l.state = "OPN_SNT"
  BY <1>0, <1>2, <1>3, <1>4, <1>6, PlainAdvances, AnswerAdvances
  DEF StateMachine, InOpnSnt, Moves, Trying
<1>7. CASE l.state = "CNF_RCVD"
  BY <1>0, <1>2, <1>3, <1>7, AnswerAdvances
  DEF StateMachine, InCnfRcvd, Moves, Trying
<1>8. CASE l.state = "OPN_RCVD"
  BY <1>0, <1>2, <1>3, <1>4, <1>8, PlainAdvances
  DEF StateMachine, InOpnRcvd, Moves, Trying
<1>9. CASE l.state = "ESTAB"
  BY <1>0, <1>2, <1>3, <1>9, AnswerAdvances
  DEF StateMachine, InEstab, Moves, Trying
<1>10. CASE l.state = "HOLDING"
  BY <1>0, <1>2, <1>10, PlainAdvances
  DEF StateMachine, InHolding, Moves, Trying
<1>11. QED
  BY <1>1, <1>5, <1>6, <1>7, <1>8, <1>9, <1>10 DEF States

\* The methods change nothing that matters here before they call StateMachine.
LEMMA SameAdvances ==
  ASSUME NEW l \in Link, NEW m \in Link, m.state = l.state, m.localId = l.localId,
         NEW e \in Events
  PROVE  Advances(l, StateMachine(m, e)) /\ Advances(l, Ignore(m))
<1>1. Advances(m, StateMachine(m, e))
  BY StateMachineAdvances
<1>2. Ignore(m).link = m /\ 1..Len(Ignore(m).sent) = {}
  BY DEF Ignore, Result
<1>3. QED
  BY <1>1, <1>2 DEF Advances, Moves

LEMMA MethodsAdvance ==
  ASSUME NEW l \in Link, NEW local \in Nat, NEW peer \in Nat
  PROVE  /\ Advances(l, OpenAccept(l, local))
         /\ Advances(l, OpenReject(l, local))
         /\ Advances(l, ConfirmAccept(l, local, peer))
         /\ Advances(l, Close(l, local, peer))
         /\ Advances(l, StateMachine(l, "CNCL"))
<1>1. {"OPN_ACPT", "OPN_RJCT", "CNF_ACPT", "CLS_ACPT", "CNCL"} \subseteq Events
  BY DEF Events
<1>2. /\ [l EXCEPT !.peerId = local] \in Link
      /\ [l EXCEPT !.peerId = local].state = l.state
      /\ [l EXCEPT !.peerId = local].localId = l.localId
  BY DEF Link
<1>3. Advances(l, OpenAccept(l, local))
  BY <1>1, <1>2, SameAdvances DEF OpenAccept
<1>4. \A e \in {"OPN_RJCT", "CNF_ACPT", "CLS_ACPT"} :
        Advances(l, StateMachine(Learn(l, local), e))
  BY <1>1, LearnFacts, SameAdvances
<1>5. Advances(l, Ignore(l)) /\ Advances(l, StateMachine(l, "CNCL"))
  BY <1>1, SameAdvances
<1>6. QED
  BY <1>3, <1>4, <1>5 DEF OpenReject, ConfirmAccept, Close

LEMMA TransmissionAdvances ==
  ASSUME NEW l \in Link
  PROVE  Advances(l, TransmissionSuccess(l)) /\ Advances(l, TransmissionFailure(l))
<1> DEFINE zero == [l EXCEPT !.fails = 0]
           more == [l EXCEPT !.fails = @ + 1]
<1>1. /\ zero \in Link /\ zero.state = l.state /\ zero.localId = l.localId
      /\ more.state = l.state /\ more.localId = l.localId
      /\ l.fails + 1 # MaxPacketFailure => more \in Link
  BY MaxPacketFailureAssumption DEF Link
<1>2. "CNCL" \in Events
  BY DEF Events
<1>3. TransmissionSuccess(l) = Ignore(zero)
  BY DEF TransmissionSuccess
<1>4. TransmissionFailure(l) = IF l.fails + 1 = MaxPacketFailure
                               THEN StateMachine(zero, "CNCL") ELSE Ignore(more)
  BY DEF TransmissionFailure
<1> HIDE DEF zero, more
<1>5. QED
  BY <1>1, <1>2, <1>3, <1>4, SameAdvances

LEMMA TimeoutsAdvance ==
  ASSUME NEW l \in Link
  PROVE  /\ Advances(l, RetryTimeout(l)) /\ Advances(l, ConfirmTimeout(l))
         /\ Advances(l, HoldingTimeout(l)) /\ Advances(l, BeaconLoss(l))
<1>1. {"TOR1", "TOR2", "TOC", "TOH", "CNCL"} \subseteq Events
  BY DEF Events
<1>2. \A t : /\ Fired(l, t) \in Link /\ Fired(l, t).state = l.state
             /\ Fired(l, t).localId = l.localId
  BY DEF Fired, Link
<1>3. \A t : \A e \in {"TOR1", "TOR2", "TOC", "TOH", "CNCL"} :
        Advances(l, StateMachine(Fired(l, t), e))
  BY <1>1, <1>2, SameAdvances
<1>4. QED
  BY <1>3 DEF RetryTimeout, ConfirmTimeout, HoldingTimeout, BeaconLoss

LEMMA OpenedAdvances ==
  ASSUME NEW l \in Link, l.state = "IDLE"
  PROVE  LET opened == StateMachine(l, "ACTOPN")
         IN  Advances(l, [opened EXCEPT !.link = HearBeacon(@)])
<1> DEFINE opened == StateMachine(l, "ACTOPN")
           r == [opened EXCEPT !.link = HearBeacon(@)]
<1>1. Advances(l, opened) /\ "ACTOPN" \in Events
  BY StateMachineAdvances DEF Events
<1>2. Proper(l, "ACTOPN", opened)
  BY <1>1, StateMachineProper
<1>3. opened.link \in Link
  BY <1>2 DEF Proper
<1>4. r.link = HearBeacon(opened.link) /\ r.sent = opened.sent
  BY DEF StateMachine, InIdle, Go, Result
<1> HIDE DEF r, opened
<1>5. r.link.state = opened.link.state /\ r.link.localId = opened.link.localId
  BY <1>3, <1>4 DEF HearBeacon, Link
<1>6. QED
  BY <1>1, <1>4, <1>5 DEF Advances, r, opened

-----------------------------------------------------------------------------
(* From one link to the service.                                           *)

\* The session and used of the service, as peering management implements them.
Sessions == [i \in Iface |-> [j \in Iface |-> Session(links[i][j])]]
Used == [m \in MeshPoint |-> 0..(lastLocalLinkId[m] - 1)]

ServiceStep == [Service!Next]_(Service!vars)

LEMMA SessionPut ==
  ASSUME TypeOK, NEW i \in Iface, NEW j \in Iface, NEW link \in Link, Put(i, j, link)
  PROVE  Sessions' = [Sessions EXCEPT ![i][j] = Session(link)]
<1> DEFINE new == IF link.state = "IDLE" THEN NoLink ELSE link
<1>1. links' = [links EXCEPT ![i][j] = new]
  BY DEF Put
<1>2. Session(new) = Session(link)
  BY DEF Session, NoLink, NewLink
<1> HIDE DEF new
<1>3. \A x, y \in Iface : links'[x][y] = IF x = i /\ y = j THEN new ELSE links[x][y]
  BY <1>1 DEF TypeOK
<1>4. \A x \in Iface : Sessions'[x] =
        IF x = i THEN [Sessions[x] EXCEPT ![j] = Session(link)] ELSE Sessions[x]
  BY <1>2, <1>3 DEF Sessions
<1>5. QED
  BY <1>4 DEF Sessions

\* The session that i has with j, and what storing it again changes.
LEMMA SessionFacts ==
  ASSUME NEW i \in Iface, NEW j \in Iface
  PROVE  /\ Sessions[i][j] = Session(links[i][j])
         /\ [Sessions EXCEPT ![i][j] = Sessions[i][j]] = Sessions
<1> DEFINE S == [x \in Iface |-> [y \in Iface |-> Session(links[x][y])]]
<1>1. S[i][j] = Session(links[i][j])
  OBVIOUS
<1>2. \A x \in Iface : [S EXCEPT ![i][j] = S[i][j]][x] = S[x]
  <2> HIDE DEF Session
  <2>1. [S[i] EXCEPT ![j] = S[i][j]] = S[i]
    OBVIOUS
  <2>2. QED
    BY <2>1
<1>3. [S EXCEPT ![i][j] = S[i][j]] = S
  BY <1>2
<1>4. QED
  BY <1>1, <1>3 DEF Sessions

\* An id taken is one that was never given out.
LEMMA UsedGiven ==
  ASSUME IdsLast, TypeOK, NEW i \in Iface, MayInitiate(i), TakeLinkId(i)
  PROVE  /\ lastLocalLinkId[mp[i]] \notin Used[mp[i]]
         /\ Used' = [Used EXCEPT ![mp[i]] = @ \cup {lastLocalLinkId[mp[i]]}]
<1> DEFINE m == mp[i]
           n == lastLocalLinkId[m]
<1>1. m \in MeshPoint /\ n \in Nat
  BY NetworkAssumption DEF TypeOK
<1>2. MaxLinkId[m] \in Nat /\ n <= MaxLinkId[m] /\ n + 1 < LinkIdModulus
  BY <1>1, BoundsAssumption DEF MayInitiate, IdsLast
<1>3. (n + 1) % LinkIdModulus = n + 1
  BY <1>1, <1>2, BoundsAssumption
<1>4. lastLocalLinkId' = [lastLocalLinkId EXCEPT ![m] = n + 1]
  BY <1>3 DEF TakeLinkId
<1>5. \A x \in MeshPoint : lastLocalLinkId'[x] =
        IF x = m THEN n + 1 ELSE lastLocalLinkId[x]
  BY <1>1, <1>4 DEF TypeOK
<1>6. 0..((n + 1) - 1) = (0..(n - 1)) \cup {n}
  BY <1>1
<1> HIDE DEF m, n
<1>7. \A x \in MeshPoint : Used'[x] = IF x = m THEN Used[x] \cup {n} ELSE Used[x]
  BY <1>1, <1>5, <1>6 DEF Used, n
<1>8. n \notin Used[m]
  BY <1>1 DEF Used, n
<1>9. QED
  BY <1>1, <1>7, <1>8 DEF Used, m, n

\* The Confirms of a result are confirmations of the service.
LEMMA ConfirmsIssued ==
  ASSUME TypeOK, NEW i \in Iface, NEW j \in Iface, NEW r, Sound(i, j, r),
         NEW base, Commit(i, j, r, base)
  PROVE  /\ confirmed' = [confirmed EXCEPT ![i][j] = @ \cup Confirms(r.sent)]
         /\ Service!MayConfirm(i, j, r.link.localId)
         /\ HasConfirmed(r.link, confirmed[i][j]) => HasConfirmed(r.link, confirmed'[i][j])
         /\ (\E k \in 1..Len(r.sent) : r.sent[k].type = "Confirm") =>
              HasConfirmed(r.link, confirmed'[i][j])
         /\ (\A k \in 1..Len(r.sent) : r.sent[k].type # "Confirm") =>
              confirmed' = confirmed
<1>1. confirmed' = [confirmed EXCEPT ![i][j] = @ \cup Confirms(r.sent)]
  BY DEF Commit
<1>2. \A x, y \in Iface : confirmed'[x][y] =
        IF x = i /\ y = j THEN confirmed[x][y] \cup Confirms(r.sent) ELSE confirmed[x][y]
  BY <1>1 DEF TypeOK
<1>3. \A k \in 1..Len(r.sent) : r.sent[k].type = "Confirm" => r.sent[k].local = r.link.localId
  BY DEF Sound
<1>4. \A ids \in Confirms(r.sent) : ids[1] = r.link.localId
  BY <1>3 DEF Confirms
<1>5. Service!MayConfirm(i, j, r.link.localId)
  BY <1>2, <1>4 DEF Service!MayConfirm
<1>6. HasConfirmed(r.link, confirmed[i][j]) => HasConfirmed(r.link, confirmed'[i][j])
  BY <1>2 DEF HasConfirmed
<1>7. ASSUME NEW k \in 1..Len(r.sent), r.sent[k].type = "Confirm"
      PROVE  HasConfirmed(r.link, confirmed'[i][j])
  <2>1. <<r.sent[k].local, r.sent[k].peer>> \in Confirms(r.sent)
    BY <1>7 DEF Confirms
  <2>2. <<r.sent[k].local, r.sent[k].peer>> \in confirmed'[i][j]
    BY <1>2, <2>1
  <2>3. <<r.sent[k].local, r.sent[k].peer>>[1] = r.link.localId
    BY <1>3, <1>7
  <2>4. QED
    BY <2>2, <2>3 DEF HasConfirmed
<1>8. ASSUME \A k \in 1..Len(r.sent) : r.sent[k].type # "Confirm"
      PROVE  confirmed' = confirmed
  <2>1. Confirms(r.sent) = {}
    BY <1>8 DEF Confirms
  <2>2. QED
    BY <1>1, <2>1 DEF TypeOK
<1>9. QED
  BY <1>1, <1>5, <1>6, <1>7, <1>8

\* Committing what a method returns for a link that exists is a service step.
LEMMA CommitServes ==
  ASSUME TypeOK, NEW i \in Iface, NEW j \in Iface, Exists(i, j),
         NEW r, Sound(i, j, r), Advances(links[i][j], r),
         NEW base, Commit(i, j, r, base), UNCHANGED lastLocalLinkId
  PROVE  ServiceStep
<1> DEFINE l == links[i][j]
<1>0. /\ l \in Link /\ r.link \in Link
      /\ l.state # "IDLE" /\ l.state \in States
  <2>1. l \in Link
    BY DEF TypeOK
  <2>2. r.link \in Link
    BY DEF Sound
  <2>3. l.state # "IDLE"
    BY DEF Exists
  <2>4. QED
    BY <2>1, <2>2, <2>3 DEF Link
<1>1. /\ Sessions' = [Sessions EXCEPT ![i][j] = Session(r.link)]
      /\ Sessions[i][j] = Session(l)
      /\ UNCHANGED Used
  <2>1. Put(i, j, r.link)
    BY DEF Commit
  <2>2. UNCHANGED Used
    BY DEF Used
  <2>3. QED
    BY <1>0, <2>1, <2>2, SessionPut, SessionFacts
<1>2. r.link.localId = l.localId /\ Moves(l.state, r.link.state)
  BY DEF Advances
<1>3. Service!MayConfirm(i, j, l.localId)
  BY <1>2, ConfirmsIssued
<1>4. CASE r.link.state \in {"IDLE", "HOLDING"}
  <2>1. confirmed' = confirmed
    BY <1>4, ConfirmsIssued DEF Advances, Trying
  <2>2. CASE l.state = "HOLDING" /\ r.link.state = "IDLE"
    <3>1. /\ Sessions[i][j].phase = "down"
          /\ Session(r.link) = [phase |-> "none", id |-> Unknown]
      BY <1>1, <2>2 DEF Session
    <3>2. Service!Forget(i, j)
      BY <1>1, <2>1, <3>1
      DEF Service!Forget, Service!Phase, Service!NoSession, Sessions, Used
    <3>3. QED
      BY <3>2 DEF ServiceStep, Service!Next
  <2>3. CASE l.state # "HOLDING"
    <3>1. r.link.state = "HOLDING" /\ l.state \in Trying \cup {"ESTAB"}
      BY <1>0, <1>2, <1>4, <2>3 DEF Moves, Trying
    <3>2. Sessions' = [Sessions EXCEPT ![i][j].phase = "down"]
      BY <1>0, <1>1, <1>2, <3>1 DEF Session, Sessions
    <3>3. QED
      BY <1>1, <2>1, <3>1, <3>2
      DEF ServiceStep, Service!Next, Service!GoDown, Service!Phase, Service!Enter, Session,
          Sessions, Used, Trying
  <2>4. CASE l.state = "HOLDING" /\ r.link.state = "HOLDING"
    <3>1. Session(r.link) = Session(l)
      BY <1>2, <2>4 DEF Session
    <3>2. Sessions' = Sessions
      BY <1>1, <3>1, SessionFacts
    <3>3. QED
      BY <1>1, <2>1, <3>2 DEF ServiceStep, Service!vars, Sessions, Used
  <2>5. QED
    BY <1>4, <2>2, <2>3, <2>4
<1>5. CASE r.link.state = "ESTAB" /\ l.state # "ESTAB"
  <2>1. l.state \in Trying
    BY <1>0, <1>2, <1>5 DEF Moves, Trying
  <2>2. Sessions' = [Sessions EXCEPT ![i][j].phase = "up"]
    BY <1>0, <1>1, <1>2, <1>5, <2>1 DEF Session, Sessions, Trying
  <2>3. PeerConfirmed(i, j, r.link) /\ HasConfirmed(r.link, confirmed'[i][j])
    BY <1>5, ConfirmsIssued DEF Sound
  <2>4. Service!Mutual(i, j, l.localId)
    BY <1>2, <2>3 DEF Service!Mutual, PeerConfirmed, HasConfirmed
  <2>5. Sessions[i][j].phase = "trying" /\ Sessions[i][j].id = l.localId
    BY <1>1, <2>1 DEF Session, Trying
  <2>6. Service!ComeUp(i, j)
    BY <1>1, <1>3, <2>2, <2>4, <2>5
    DEF Service!ComeUp, Service!Phase, Service!Enter, Sessions, Used
  <2>7. QED
    BY <2>6 DEF ServiceStep, Service!Next
<1>6. CASE \/ r.link.state \in Trying
           \/ r.link.state = "ESTAB" /\ l.state = "ESTAB"
  <2>1. \/ l.state \in Trying /\ r.link.state \in Trying
        \/ l.state = "ESTAB" /\ r.link.state = "ESTAB"
    BY <1>0, <1>2, <1>6 DEF Moves, Trying
  <2>2. Session(r.link) = Session(l)
    BY <1>2, <2>1 DEF Session, Trying
  <2>3. Sessions' = Sessions
    BY <1>1, <2>2, SessionFacts
  <2>4. Sessions[i][j].phase \in {"trying", "up"} /\ Sessions[i][j].id = l.localId
    BY <1>1, <2>1 DEF Session, Trying
  <2>5. Service!Confirm(i, j)
    BY <1>1, <1>3, <2>3, <2>4 DEF Service!Confirm, Service!Phase, Sessions, Used
  <2>6. QED
    BY <2>5 DEF ServiceStep, Service!Next
<1>7. QED
  BY <1>0, <1>4, <1>5, <1>6 DEF Sound, Link, States, Trying

\* So is committing what it returns for a new link.
LEMMA FreshServes ==
  ASSUME IdsLast, TypeOK, NEW i \in Iface, NEW j \in Iface, ~Exists(i, j),
         MayInitiate(i), TakeLinkId(i),
         NEW r, Sound(i, j, r), Advances(FreshLink(i), r),
         NEW base, Commit(i, j, r, base)
  PROVE  ServiceStep
<1> DEFINE n == lastLocalLinkId[mp[i]]
<1>0. r.link \in Link /\ r.link.localId = n
  BY DEF Sound, Advances, FreshLink, NewLink
<1>1. /\ Sessions' = [Sessions EXCEPT ![i][j] = Session(r.link)]
      /\ Sessions[i][j] = [phase |-> "none", id |-> Unknown]
  <2>1. Put(i, j, r.link)
    BY DEF Commit
  <2>2. links[i][j].state = "IDLE"
    BY DEF Exists
  <2>3. Sessions[i][j] = [phase |-> "none", id |-> Unknown]
    BY <2>2, SessionFacts DEF Session
  <2>4. QED
    BY <1>0, <2>1, <2>3, SessionPut
<1>2. n \notin Used[mp[i]] /\ Used' = [Used EXCEPT ![mp[i]] = @ \cup {n}]
  BY UsedGiven
<1>3. Moves("IDLE", r.link.state)
  BY DEF Advances, FreshLink, NewLink
<1>4. Service!MayConfirm(i, j, n)
  BY <1>0, ConfirmsIssued
<1>5. mp[i] \in MeshPoint /\ n \in Used'[mp[i]]
  <2>1. mp[i] \in MeshPoint
    BY NetworkAssumption
  <2>2. QED
    BY <1>2, <2>1 DEF Used
<1> HIDE DEF n
<1>6. CASE r.link.state = "IDLE"
  <2>1. confirmed' = confirmed
    BY <1>6, ConfirmsIssued DEF Advances, Trying
  <2>2. Sessions' = Sessions
    <3>1. Session(r.link) = Sessions[i][j]
      BY <1>1, <1>6 DEF Session
    <3>2. QED
      BY <1>1, <3>1, SessionFacts
  <2>3. Service!Refuse(i, n)
    BY <1>2, <2>1, <2>2 DEF Service!Refuse, Service!Give, Sessions, Used
  <2>4. QED
    BY <1>5, <2>3 DEF ServiceStep, Service!Next, Used
<1>7. CASE r.link.state \in Trying
  <2>1. Sessions' = [Sessions EXCEPT ![i][j] = [phase |-> "trying", id |-> n]]
    BY <1>0, <1>1, <1>7 DEF Session, Trying
  <2>2. Sessions'[i][j].id = n
    BY <2>1 DEF Sessions
  <2>3. Service!Begin(i, j, n)
    BY <1>1, <1>2, <1>4, <2>1
    DEF Service!Begin, Service!Phase, Service!Give, Sessions, Used
  <2>4. QED
    BY <2>2, <2>3 DEF ServiceStep, Service!Next, Sessions
<1>8. QED
  BY <1>3, <1>6, <1>7 DEF Moves, Trying

-----------------------------------------------------------------------------
(* The actions.                                                            *)

\* What touches no link and issues no Confirm is not seen by the service.
LEMMA Unseen ==
  ASSUME UNCHANGED <<links, lastLocalLinkId, confirmed>>
  PROVE  ServiceStep
BY DEF ServiceStep, Service!vars

LEMMA BeaconServes ==
  ASSUME IdsLast, IInv, NEW i \in Iface, NEW j \in Iface, ReceiveBeacon(i, j)
  PROVE  ServiceStep
<1>0. TypeOK
  BY DEF IInv
<1>1. CASE BeaconOpensLink(i, j)
  <2> DEFINE opened == StateMachine(FreshLink(i), "ACTOPN")
             r == [opened EXCEPT !.link = HearBeacon(@)]
  <2>1. Sound(i, j, r)
    BY <1>0, OpenedSound
  <2>2. FreshLink(i) \in Link /\ FreshLink(i).state = "IDLE"
    BY <1>0, FreshLinkFacts DEF FreshLink, NewLink
  <2>3. Advances(FreshLink(i), r)
    BY <2>2, OpenedAdvances
  <2>4. /\ Commit(i, j, r, air) /\ TakeLinkId(i)
        /\ ~Exists(i, j) /\ MayInitiate(i)
    BY <1>1 DEF BeaconOpensLink
  <2> HIDE DEF r
  <2>5. QED
    BY <1>0, <2>1, <2>3, <2>4, FreshServes
<1>2. CASE BeaconRefreshesLink(i, j)
  <2> DEFINE l == HearBeacon(links[i][j])
  <2>1. links' = [links EXCEPT ![i][j] = l] /\ UNCHANGED <<lastLocalLinkId, confirmed>>
    BY <1>2 DEF BeaconRefreshesLink
  <2>2. Session(l) = Session(links[i][j])
    <3>1. links[i][j] \in Link
      BY <1>0 DEF TypeOK
    <3>2. QED
      BY <3>1 DEF Session, HearBeacon, Link
  <2> HIDE DEF l
  <2>3. \A x, y \in Iface : links'[x][y] = IF x = i /\ y = j THEN l ELSE links[x][y]
    BY <1>0, <2>1 DEF TypeOK
  <2>4. Sessions' = Sessions
    BY <2>2, <2>3 DEF Sessions
  <2>5. QED
    BY <2>1, <2>4 DEF ServiceStep, Service!vars, Sessions
<1>3. QED
  BY <1>1, <1>2 DEF ReceiveBeacon

\* The answer to an Open, of the link there is or of a new one.
LEMMA OpenServes ==
  ASSUME IdsLast, TypeOK, NEW i \in Iface, NEW j \in Iface,
         MayMeetOpen(i, j), TakeLinkIdForOpen(i, j),
         NEW r, Sound(i, j, r), Advances(LinkForOpen(i, j), r),
         NEW base, Commit(i, j, r, base)
  PROVE  ServiceStep
<1>1. CASE Exists(i, j)
  BY <1>1, CommitServes DEF LinkForOpen, TakeLinkIdForOpen
<1>2. CASE ~Exists(i, j)
  BY <1>2, FreshServes DEF LinkForOpen, TakeLinkIdForOpen, MayMeetOpen
<1>3. QED
  BY <1>1, <1>2

LEMMA FrameServes ==
  ASSUME IdsLast, IInv, NEW i \in Iface, NEW j \in Iface, ReceivePeerLinkFrame(i, j)
  PROVE  ServiceStep
<1> DEFINE l == links[i][j]
           local == Arriving(i, j).local
           peer == Arriving(i, j).peer
<1>0. /\ TypeOK /\ l \in Link /\ Progress(i, j, l) /\ Match(l.state, l.timers)
      /\ Advances(l, StateMachine(l, "CNCL"))
  BY InvFacts, MethodsAdvance DEF IInv
<1>1. /\ LinkForOpen(i, j) \in Link
      /\ Progress(i, j, LinkForOpen(i, j))
      /\ Match(LinkForOpen(i, j).state, LinkForOpen(i, j).timers)
  BY <1>0, FreshLinkFacts DEF LinkForOpen
<1>2. CASE ReceiveMismatch(i, j)
  <2>1. CASE Exists(i, j)
    <3>1. /\ Commit(i, j, StateMachine(l, "CNCL"), Received(i, j))
          /\ UNCHANGED lastLocalLinkId
      BY <1>2, <2>1 DEF ReceiveMismatch
    <3>2. Sound(i, j, StateMachine(l, "CNCL"))
      BY <1>0, CancelSound
    <3>3. QED
      BY <1>0, <2>1, <3>1, <3>2, CommitServes
  <2>2. CASE ~Exists(i, j)
    BY <1>2, <2>2, Unseen DEF ReceiveMismatch
  <2>3. QED
    BY <2>1, <2>2
<1>3. CASE AcceptOpen(i, j)
  <2>1. /\ Commit(i, j, OpenAccept(LinkForOpen(i, j), local), Received(i, j))
        /\ MayMeetOpen(i, j) /\ TakeLinkIdForOpen(i, j)
        /\ <<i, j>> \in Compatible /\ Arrives(i, j, "Open")
    BY <1>3 DEF AcceptOpen
  <2>2. local \in Nat
    BY <2>1, ArrivingFacts
  <2>3. Sound(i, j, OpenAccept(LinkForOpen(i, j), local))
    BY <1>1, <2>1, <2>2, OpenAcceptSound
  <2>4. Advances(LinkForOpen(i, j), OpenAccept(LinkForOpen(i, j), local))
    BY <1>1, <2>2, MethodsAdvance
  <2>5. QED
    BY <1>0, <2>1, <2>3, <2>4, OpenServes
<1>4. CASE RejectOpen(i, j)
  <2>1. /\ Commit(i, j, OpenReject(LinkForOpen(i, j), local), Received(i, j))
        /\ MayMeetOpen(i, j) /\ TakeLinkIdForOpen(i, j)
        /\ Arrives(i, j, "Open")
    BY <1>4 DEF RejectOpen
  <2>2. local \in Nat
    BY <2>1, ArrivingFacts
  <2>3. Sound(i, j, OpenReject(LinkForOpen(i, j), local))
    BY <1>1, <2>2, OpenRejectSound
  <2>4. Advances(LinkForOpen(i, j), OpenReject(LinkForOpen(i, j), local))
    BY <1>1, <2>2, MethodsAdvance
  <2>5. QED
    BY <1>0, <2>1, <2>3, <2>4, OpenServes
<1>5. CASE ReceiveConfirm(i, j)
  <2>1. /\ Commit(i, j, ConfirmAccept(l, local, peer), Received(i, j))
        /\ UNCHANGED lastLocalLinkId /\ Arrives(i, j, "Confirm") /\ Exists(i, j)
    BY <1>5 DEF ReceiveConfirm
  <2>2. local \in Nat /\ peer \in Nat /\ <<local, peer>> \in confirmed[j][i]
    BY <2>1, ArrivingFacts
  <2>3. /\ Sound(i, j, ConfirmAccept(l, local, peer))
        /\ Advances(l, ConfirmAccept(l, local, peer))
    BY <1>0, <2>2, ConfirmAcceptSound, MethodsAdvance
  <2>4. QED
    BY <1>0, <2>1, <2>3, CommitServes
<1>6. CASE ReceiveClose(i, j)
  <2>1. /\ Commit(i, j, Close(l, local, peer), Received(i, j))
        /\ UNCHANGED lastLocalLinkId /\ Arrives(i, j, "Close") /\ Exists(i, j)
    BY <1>6 DEF ReceiveClose
  <2>2. local \in Nat /\ peer \in Nat
    BY <2>1, ArrivingFacts
  <2>3. /\ Sound(i, j, Close(l, local, peer))
        /\ Advances(l, Close(l, local, peer))
    BY <1>0, <2>2, CloseSound, MethodsAdvance
  <2>4. QED
    BY <1>0, <2>1, <2>3, CommitServes
<1>7. CASE ReceiveStray(i, j)
  BY <1>7, Unseen DEF ReceiveStray, linkVars
<1>8. QED
  BY <1>2, <1>3, <1>4, <1>5, <1>6, <1>7 DEF ReceivePeerLinkFrame

LEMMA TransmitServes ==
  ASSUME IInv, NEW i \in Iface, NEW j \in Iface, Transmit(i, j)
  PROVE  ServiceStep
<1> DEFINE l == links[i][j]
<1>0. TypeOK /\ l \in Link /\ Progress(i, j, l) /\ Match(l.state, l.timers)
  BY InvFacts DEF IInv
<1>1. /\ Sound(i, j, TransmissionSuccess(l)) /\ Sound(i, j, TransmissionFailure(l))
      /\ Advances(l, TransmissionSuccess(l)) /\ Advances(l, TransmissionFailure(l))
  BY <1>0, TransmissionSound, TransmissionAdvances
<1>2. ASSUME NEW r, Sound(i, j, r), Advances(l, r), NEW base, OnLink(i, j, r, base)
      PROVE  ServiceStep
  <2>1. CASE Exists(i, j)
    BY <1>0, <1>2, <2>1, CommitServes DEF OnLink
  <2>2. CASE ~Exists(i, j)
    BY <1>2, <2>2, Unseen DEF OnLink
  <2>3. QED
    BY <2>1, <2>2
<1>3. CASE TxOk(i, j) \/ TxError(i, j)
  BY <1>1, <1>2, <1>3 DEF TxOk, TxError
<1>4. CASE SendData(i, j)
  BY <1>4, Unseen DEF SendData, linkVars
<1>5. CASE DataTxOk(i, j) \/ DataTxError(i, j)
  BY <1>1, <1>2, <1>5 DEF DataTxOk, DataTxError
<1>6. QED
  BY <1>3, <1>4, <1>5 DEF Transmit

LEMMA TimerServes ==
  ASSUME IInv, NEW i \in Iface, NEW j \in Iface,
         HandshakeTimer(i, j) \/ BeaconTimer(i, j)
  PROVE  ServiceStep
<1> DEFINE l == links[i][j]
<1>0. TypeOK /\ l \in Link /\ Progress(i, j, l) /\ Match(l.state, l.timers)
  BY InvFacts DEF IInv
<1>1. ASSUME NEW r, Sound(i, j, r), Advances(l, r), Fire(i, j, r), Exists(i, j)
      PROVE  ServiceStep
  BY <1>0, <1>1, CommitServes DEF Fire
<1>2. CASE HandshakeTimer(i, j)
  <2>1. Exists(i, j)
    BY <1>0, <1>2
    DEF HandshakeTimer, RetryTimer, ConfirmTimer, HoldingTimer, Pending, Match, Exists
  <2>2. QED
    BY <1>0, <1>1, <1>2, <2>1, TimeoutsSound, TimeoutsAdvance
    DEF HandshakeTimer, RetryTimer, ConfirmTimer, HoldingTimer, Pending
<1>3. CASE BeaconTimer(i, j)
  <2>1. /\ "beacon" \in l.timers /\ Fire(i, j, BeaconLoss(l))
        /\ Sound(i, j, BeaconLoss(l)) /\ Advances(l, BeaconLoss(l))
    BY <1>0, <1>3, TimeoutsSound, TimeoutsAdvance DEF BeaconTimer, Pending
  <2>2. CASE Exists(i, j)
    BY <1>1, <2>1, <2>2
  <2>3. CASE ~Exists(i, j)
    <3> DEFINE r == BeaconLoss(l)
    <3>1. r.link.state = "IDLE" /\ 1..Len(r.sent) = {}
      BY <1>0, <2>3
      DEF Exists, BeaconLoss, StateMachine, InIdle, Ignore, Result, Fired, Link
    <3> HIDE DEF r
    <3>2. Commit(i, j, r, air) /\ Put(i, j, r.link) /\ r.link \in Link
          /\ UNCHANGED lastLocalLinkId
      BY <2>1 DEF Fire, Commit, Sound, r
    <3>3. confirmed' = confirmed
      BY <1>0, <2>1, <3>1, <3>2, ConfirmsIssued DEF r
    <3>4. Session(r.link) = Sessions[i][j]
      BY <2>3, <3>1, SessionFacts DEF Exists, Session
    <3>5. Sessions' = Sessions
      BY <1>0, <3>2, <3>4, SessionPut, SessionFacts
    <3>6. QED
      BY <3>2, <3>3, <3>5 DEF ServiceStep, Service!vars, Sessions
  <2>4. QED
    BY <2>2, <2>3
<1>4. QED
  BY <1>2, <1>3

-----------------------------------------------------------------------------
\* For any number of mesh points, interfaces and frames, peering management
\* implements LinkService as long as link ids do not wrap around: what is
\* above it may rely on a session that came up being confirmed at both ends
\* and never coming up again.
THEOREM ServiceImplemented == IdsLast => (Spec => ImplementsLinkService)
<1> SUFFICES ASSUME IdsLast
             PROVE  Spec => ImplementsLinkService
  OBVIOUS
<1>1. Init => Service!Init
  <2> SUFFICES ASSUME Init
               PROVE  Service!Init
    OBVIOUS
  <2>1. \A i, j \in Iface : Session(links[i][j]) = [phase |-> "none", id |-> Unknown]
    BY DEF Init, NoLink, NewLink, Session
  <2>2. \A m \in MeshPoint : 0..(lastLocalLinkId[m] - 1) = {Unknown}
    BY DEF Init, Unknown
  <2>3. confirmed = [i \in Iface |-> [j \in Iface |-> {}]]
    BY DEF Init
  <2>4. QED
    BY <2>1, <2>2, <2>3 DEF Service!Init, Service!NoSession
<1>2. IInv /\ [Next]_vars => [Service!Next]_(Service!vars)
  <2> SUFFICES ASSUME IInv, [Next]_vars
               PROVE  ServiceStep
    BY DEF ServiceStep
  <2>1. CASE Next
    <3>1. PICK i, j \in Iface : \/ ReceiveBeacon(i, j)
                                \/ ReceivePeerLinkFrame(i, j)
                                \/ Transmit(i, j)
                                \/ HandshakeTimer(i, j)
                                \/ BeaconTimer(i, j)
      BY <2>1 DEF Next
    <3>2. QED
      BY <3>1, BeaconServes, FrameServes, TransmitServes, TimerServes
  <2>2. CASE UNCHANGED vars
    BY <2>2, Unseen DEF vars
  <2>3. QED
    BY <2>1, <2>2
<1>3. QED
  BY <1>1, <1>2, Invariance, PTL DEF Spec, ImplementsLinkService, Service!Spec
=============================================================================
