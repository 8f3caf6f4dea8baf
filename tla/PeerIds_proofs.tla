---------------------------- MODULE PeerIds_proofs ----------------------------
(***************************************************************************)
(* Two stations that hold a link established agree on its ids.             *)
(*                                                                         *)
(* HandshakeInv says who confirmed whom, but not that nothing newer has    *)
(* come since: a station may confirm several instances of its peer, and    *)
(* keeps the id of the one it heard last. The missing part is an order:    *)
(* link ids grow, the queues deliver in order, so that the ids a station   *)
(* has heard never exceed the ids still in the air, nor the id of the      *)
(* peer's present link (Ordered).                                          *)
(***************************************************************************)
EXTENDS LinkService_proofs

\* The states that a link enters by answering an Open.
Met == {"OPN_RCVD", "ESTAB"}

\* The result r of a method on link l names the instance as l does, and its
\* Confirms name the peer's instance as the link they leave.
Tells(l, r) ==
  /\ r.link.localId = l.localId
  /\ \A k \in 1..Len(r.sent) :
       /\ r.sent[k].local = l.localId
       /\ r.sent[k].type = "Confirm" => r.sent[k].peer = r.link.peerId

\* The peer's instance stays the one it was, and no Open is answered.
Steady(l, r) ==
  /\ r.link.peerId = l.peerId
  /\ r.link.state \in Met => l.state \in Met

\* Otherwise it becomes the sender of the frame that is handled.
Learns(l, r, local) == Steady(l, r) \/ r.link.peerId = local

-----------------------------------------------------------------------------
(* The methods of a link.                                                  *)

\* What l says in a frame sequence.
LEMMA SaysFacts ==
  ASSUME NEW l \in Link
  PROVE  \A frames \in Plain(l) \cup Answer(l) : \A k \in 1..Len(frames) :
           /\ frames[k].local = l.localId
           /\ frames[k].type = "Confirm" => frames[k].peer = l.peerId
<1>1. /\ OpenFrame(l).local = l.localId /\ OpenFrame(l).type = "Open"
      /\ CloseFrame(l).local = l.localId /\ CloseFrame(l).type = "Close"
      /\ ConfirmFrame(l).local = l.localId /\ ConfirmFrame(l).peer = l.peerId
  BY DEF OpenFrame, CloseFrame, ConfirmFrame
<1> TAKE frames \in Plain(l) \cup Answer(l)
<1> TAKE k \in 1..Len(frames)
<1>2. frames[k] \in {OpenFrame(l), CloseFrame(l), ConfirmFrame(l)}
  <2>1. CASE frames = << >>
    BY <2>1
  <2>2. CASE frames \in {<<OpenFrame(l)>>, <<CloseFrame(l)>>, <<ConfirmFrame(l)>>}
    BY <2>2
  <2>3. CASE frames = <<ConfirmFrame(l), OpenFrame(l)>>
    BY <2>3
  <2>4. QED
    BY <2>1, <2>2, <2>3 DEF Plain, Answer
<1>3. QED
  BY <1>1, <1>2

\* What a transition returns for event e: the ids do not change, and OPN_RCVD
\* and ESTAB are entered from the other states for an Open only.
Keeps(l, e, r) ==
  /\ Tells(l, r)
  /\ r.link.peerId = l.peerId
  /\ e # "OPN_ACPT" => Steady(l, r)

LEMMA GoKeeps ==
  ASSUME NEW l \in Link, NEW e, NEW s, NEW told, NEW off, NEW on,
         NEW frames \in Plain(l) \cup Answer(l),
         e # "OPN_ACPT" => (s \in Met => l.state \in Met)
  PROVE  Keeps(l, e, Go(l, s, told, off, on, frames)) /\ Keeps(l, e, Result(l, told, frames))
<1> DEFINE r == Go(l, s, told, off, on, frames)
           q == Result(l, told, frames)
<1>1. /\ r.link.state = s /\ r.link.localId = l.localId /\ r.link.peerId = l.peerId
      /\ r.sent = frames /\ q.link = l /\ q.sent = frames
  BY DEF Go, Result, Link
<1>2. \A k \in 1..Len(frames) :
        /\ frames[k].local = l.localId
        /\ frames[k].type = "Confirm" => frames[k].peer = l.peerId
  BY SaysFacts
<1> HIDE DEF r, q
<1>3. Keeps(l, e, r)
  BY <1>1, <1>2 DEF Keeps, Tells, Steady
<1>4. Keeps(l, e, q)
  BY <1>1, <1>2 DEF Keeps, Tells, Steady
<1>5. QED
  BY <1>3, <1>4 DEF r, q

LEMMA StateMachineKeeps ==
  ASSUME NEW l \in Link, NEW e \in Events
  PROVE  Keeps(l, e, StateMachine(l, e))
<1>0. {<< >>, <<OpenFrame(l)>>, <<CloseFrame(l)>>, <<ConfirmFrame(l)>>,
       <<ConfirmFrame(l), OpenFrame(l)>>} \subseteq Plain(l) \cup Answer(l)
  BY DEF Plain, Answer
<1>1. l.state \in States
  BY DEF Link
<1>2. Keeps(l, e, Ignore(l))
  BY <1>0, GoKeeps DEF Ignore
<1>3. ASSUME NEW ostate, NEW off
      PROVE  Keeps(l, e, Hold(l, ostate, off))
  BY <1>0, GoKeeps DEF Hold, Met
<1>4. Keeps(l, e, Retry(l))
  <2> DEFINE m == [l EXCEPT !.retries = @ + 1]
             r == Go(m, l.state, Silence, {}, {"retry"}, <<OpenFrame(l)>>)
  <2>1. /\ r.link.state = l.state /\ r.link.localId = l.localId
        /\ r.link.peerId = l.peerId /\ r.sent = <<OpenFrame(l)>>
    BY DEF Go, Result, Link
  <2>2. OpenFrame(m) = OpenFrame(l)
    BY DEF OpenFrame, Link
  <2>3. Retry(l) = r
    BY <2>2 DEF Retry
  <2>4. \A k \in 1..Len(<<OpenFrame(l)>>) :
          /\ <<OpenFrame(l)>>[k].local = l.localId
          /\ <<OpenFrame(l)>>[k].type = "Confirm" => <<OpenFrame(l)>>[k].peer = l.peerId
    BY <1>0, SaysFacts
  <2> HIDE DEF r
  <2>5. QED
    BY <2>1, <2>3, <2>4 DEF Keeps, Tells, Steady
<1>5. CASE l.state = "IDLE"
  BY <1>0, <1>2, <1>5, GoKeeps DEF StateMachine, InIdle, Met
<1>6. CASE l.state = "OPN_SNT"
  BY <1>0, <1>2, <1>3, <1>4, <1>6, GoKeeps DEF StateMachine, InOpnSnt, Met
<1>7. CASE l.state = "CNF_RCVD"
  BY <1>0, <1>2, <1>3, <1>7, GoKeeps DEF StateMachine, InCnfRcvd, Met
<1>8. CASE l.state = "OPN_RCVD"
  BY <1>0, <1>2, <1>3, <1>4, <1>8, GoKeeps DEF StateMachine, InOpnRcvd, Met
<1>9. CASE l.state = "ESTAB"
  BY <1>0, <1>2, <1>3, <1>9, GoKeeps DEF StateMachine, InEstab, Met
<1>10. CASE l.state = "HOLDING"
  BY <1>0, <1>2, <1>10, GoKeeps DEF StateMachine, InHolding, Met
<1>11. QED
  BY <1>1, <1>5, <1>6, <1>7, <1>8, <1>9, <1>10 DEF States

\* Neither do the methods change it before they call StateMachine, except that
\* they may learn the peer's instance.
LEMMA SameKeeps ==
  ASSUME NEW l \in Link, NEW m \in Link, m.state = l.state, m.localId = l.localId,
         m.peerId = l.peerId, NEW e \in Events
  PROVE  /\ Keeps(l, e, StateMachine(m, e))
         /\ Tells(l, Ignore(m)) /\ Steady(l, Ignore(m))
<1>1. Keeps(m, e, StateMachine(m, e))
  BY StateMachineKeeps
<1>2. Ignore(m).link = m /\ 1..Len(Ignore(m).sent) = {}
  BY DEF Ignore, Result
<1>3. QED
  BY <1>1, <1>2 DEF Keeps, Tells, Steady

LEMMA LearnKeeps ==
  ASSUME NEW l \in Link, NEW local \in Nat, NEW e \in Events \ {"OPN_ACPT"}
  PROVE  /\ Tells(l, StateMachine(Learn(l, local), e))
         /\ Learns(l, StateMachine(Learn(l, local), e), local)
<1> DEFINE m == Learn(l, local)
<1>1. m \in Link /\ m.state = l.state /\ m.localId = l.localId
  BY LearnFacts
<1>2. m.peerId \in {l.peerId, local}
  BY DEF Learn, Link
<1> HIDE DEF m
<1>3. Keeps(m, e, StateMachine(m, e))
  BY <1>1, StateMachineKeeps
<1>4. Tells(l, StateMachine(m, e)) /\ Learns(l, StateMachine(m, e), local)
  BY <1>1, <1>2, <1>3 DEF Keeps, Tells, Learns, Steady
<1>5. QED
  BY <1>4 DEF m

LEMMA MethodsLearn ==
  ASSUME NEW l \in Link, NEW local \in Nat, NEW peer \in Nat
  PROVE  /\ \A r \in {OpenAccept(l, local), OpenReject(l, local),
                      ConfirmAccept(l, local, peer), Close(l, local, peer),
                      StateMachine(l, "CNCL")} : Tells(l, r) /\ Learns(l, r, local)
         /\ Steady(l, StateMachine(l, "CNCL"))
<1>1. /\ {"OPN_RJCT", "CNF_ACPT", "CLS_ACPT", "CNCL"} \subseteq Events \ {"OPN_ACPT"}
      /\ "OPN_ACPT" \in Events
  BY DEF Events
<1>2. Tells(l, OpenAccept(l, local)) /\ Learns(l, OpenAccept(l, local), local)
  <2> DEFINE m == [l EXCEPT !.peerId = local]
  <2>1. m \in Link /\ m.localId = l.localId /\ m.peerId = local
    BY DEF Link
  <2> HIDE DEF m
  <2>2. Keeps(m, "OPN_ACPT", StateMachine(m, "OPN_ACPT"))
    BY <1>1, <2>1, StateMachineKeeps
  <2>3. OpenAccept(l, local) = StateMachine(m, "OPN_ACPT")
    BY DEF OpenAccept, m
  <2>4. QED
    BY <2>1, <2>2, <2>3 DEF Keeps, Tells, Learns
<1>3. \A e \in {"OPN_RJCT", "CNF_ACPT", "CLS_ACPT"} :
        /\ Tells(l, StateMachine(Learn(l, local), e))
        /\ Learns(l, StateMachine(Learn(l, local), e), local)
  BY <1>1, LearnKeeps
<1>4. /\ Tells(l, Ignore(l)) /\ Steady(l, Ignore(l))
      /\ Keeps(l, "CNCL", StateMachine(l, "CNCL"))
  BY <1>1, SameKeeps
<1>5. Tells(l, StateMachine(l, "CNCL")) /\ Steady(l, StateMachine(l, "CNCL"))
  BY <1>4 DEF Keeps
<1>6. QED
  BY <1>2, <1>3, <1>4, <1>5 DEF OpenReject, ConfirmAccept, Close, Learns

LEMMA TransmissionSteady ==
  ASSUME NEW l \in Link
  PROVE  \A r \in {TransmissionSuccess(l), TransmissionFailure(l)} :
           Tells(l, r) /\ Steady(l, r)
<1> DEFINE zero == [l EXCEPT !.fails = 0]
           more == [l EXCEPT !.fails = @ + 1]
<1>1. /\ zero \in Link /\ zero.state = l.state /\ zero.localId = l.localId
      /\ zero.peerId = l.peerId
      /\ more.state = l.state /\ more.localId = l.localId /\ more.peerId = l.peerId
      /\ l.fails + 1 # MaxPacketFailure => more \in Link
  BY MaxPacketFailureAssumption DEF Link
<1>2. "CNCL" \in Events
  BY DEF Events
<1>3. TransmissionSuccess(l) = Ignore(zero)
  BY DEF TransmissionSuccess
<1>4. TransmissionFailure(l) = IF l.fails + 1 = MaxPacketFailure
                               THEN StateMachine(zero, "CNCL") ELSE Ignore(more)
  BY DEF TransmissionFailure
<1> HIDE DEF zero, more
<1>5. QED
  BY <1>1, <1>2, <1>3, <1>4, SameKeeps DEF Keeps

LEMMA TimeoutsSteady ==
  ASSUME NEW l \in Link
  PROVE  \A r \in {RetryTimeout(l), ConfirmTimeout(l), HoldingTimeout(l), BeaconLoss(l)} :
           Tells(l, r) /\ Steady(l, r)
<1>1. {"TOR1", "TOR2", "TOC", "TOH", "CNCL"} \subseteq Events
  BY DEF Events
<1>2. \A t : /\ Fired(l, t) \in Link /\ Fired(l, t).state = l.state
             /\ Fired(l, t).localId = l.localId /\ Fired(l, t).peerId = l.peerId
  BY DEF Fired, Link
<1>3. \A t : \A e \in {"TOR1", "TOR2", "TOC", "TOH", "CNCL"} :
        Keeps(l, e, StateMachine(Fired(l, t), e))
  BY <1>1, <1>2, SameKeeps
<1>4. \A t : \A e \in {"TOR1", "TOR2", "TOC", "TOH", "CNCL"} :
        Tells(l, StateMachine(Fired(l, t), e)) /\ Steady(l, StateMachine(Fired(l, t), e))
  BY <1>3 DEF Keeps
<1>5. QED
  BY <1>4 DEF RetryTimeout, ConfirmTimeout, HoldingTimeout, BeaconLoss

LEMMA OpenedSteady ==
  ASSUME NEW l \in Link, l.state = "IDLE"
  PROVE  LET opened == StateMachine(l, "ACTOPN")
             r == [opened EXCEPT !.link = HearBeacon(@)]
         IN  Tells(l, r) /\ Steady(l, r)
<1> DEFINE opened == StateMachine(l, "ACTOPN")
           r == [opened EXCEPT !.link = HearBeacon(@)]
<1>1. Keeps(l, "ACTOPN", opened) /\ "ACTOPN" \in Events
  BY StateMachineKeeps DEF Events
<1>2. opened.link \in Link
  BY <1>1, StateMachineProper DEF Proper
<1>3. r.link = HearBeacon(opened.link) /\ r.sent = opened.sent
  BY DEF StateMachine, InIdle, Go, Result
<1> HIDE DEF r, opened
<1>4. /\ r.link.state = opened.link.state /\ r.link.localId = opened.link.localId
      /\ r.link.peerId = opened.link.peerId
  BY <1>2, <1>3 DEF HearBeacon, Link
<1>5. Tells(l, r) /\ Steady(l, r)
  BY <1>1, <1>3, <1>4 DEF Keeps, Tells, Steady
<1>6. QED
  BY <1>5 DEF r, opened

-----------------------------------------------------------------------------
(* The order of the ids between one station and its peer.                  *)

\* The ids of the peer that a station holds: in its link l, and in the pairs
\* that it has confirmed.
Told(l, issued) == {l.peerId} \cup {ids[2] : ids \in issued}

\* An id c of the station that keeps the link peer and gives n as its next.
Given(c, peer, n) == c < n /\ (peer.state # "IDLE" => c <= peer.localId)

\* l and issued are what a station holds of the other, whose queue for it is q.
Ordered(l, issued, q, peer, n) ==
  /\ \A c \in Told(l, issued) : Given(c, peer, n)
  /\ \A k \in 1..Len(q) : Given(q[k].frame.local, peer, n)
  /\ peer.state # "IDLE" => peer.localId < n
  /\ \A k, m \in 1..Len(q) : k <= m => q[k].frame.local <= q[m].frame.local
  /\ \A k \in 1..Len(q) :
       ~q[k].received => \A c \in Told(l, issued) : c <= q[k].frame.local
  /\ l.state \in Met => \A ids \in issued : ids[2] <= l.peerId

Typed(l, issued, q, peer, n) ==
  /\ l \in Link /\ peer \in Link /\ n \in Nat
  /\ issued \subseteq Nat \X Nat
  /\ q \in Seq(QueuedFrame)

\* The station goes from l to l2 and from issued to issued2; frames of q may be
\* received. What is new to it is the id in the first of them.
HearsMore(l, l2, issued, issued2, q, q2) ==
  /\ Len(q2) = Len(q)
  /\ \A k \in 1..Len(q) : /\ q2[k].frame = q[k].frame
                          /\ q[k].received => q2[k].received
  /\ \/ l2.peerId = l.peerId /\ (l2.state \in Met => l.state \in Met)
     \/ l2.peerId = Unknown /\ l2.state \notin Met
     \/ q # << >> /\ ~q[1].received /\ l2.peerId = q[1].frame.local
  /\ \A ids \in issued2 : ids \in issued \/ ids[2] = l2.peerId

\* The peer goes to peer2: its id, if it has one, is the one it had or n; the
\* queue loses d of its first frames, and what is new in it carries that id.
SaysMore(peer, peer2, q, q2, n, n2) ==
  \E id \in Nat, d \in Nat :
    /\ d <= Len(q)
    /\ id = IF peer.state = "IDLE" THEN n ELSE peer.localId
    /\ peer2.state # "IDLE" => peer2.localId = id /\ id < n2
    /\ \A k \in 1..Len(q2) :
         \/ k + d \in 1..Len(q) /\ q2[k] = q[k + d]
         \/ k + d > Len(q) /\ q2[k].frame.local = id /\ id < n2

LEMMA ToldFacts ==
  ASSUME NEW l \in Link, NEW issued, issued \subseteq Nat \X Nat
  PROVE  /\ Told(l, issued) \subseteq Nat
         /\ l.peerId \in Told(l, issued)
         /\ \A ids \in issued : ids[2] \in Told(l, issued)
         /\ \A c \in Told(l, issued) : c = l.peerId \/ \E ids \in issued : c = ids[2]
BY DEF Told, Link

LEMMA QueueFacts ==
  ASSUME NEW q \in Seq(QueuedFrame)
  PROVE  /\ Len(q) \in Nat
         /\ \A k \in 1..Len(q) : q[k].frame.local \in Nat /\ q[k].received \in BOOLEAN
         /\ q # << >> => 1 \in 1..Len(q)
<1>1. Len(q) \in Nat /\ \A k \in 1..Len(q) : q[k] \in QueuedFrame
  OBVIOUS
<1>2. q # << >> => 1 \in 1..Len(q)
  OBVIOUS
<1>3. QED
  BY <1>1, <1>2 DEF QueuedFrame, Frame

LEMMA HearsOrdered ==
  ASSUME NEW l, NEW issued, NEW q, NEW peer, NEW n, Typed(l, issued, q, peer, n),
         NEW l2, NEW issued2, NEW q2, NEW n2, Typed(l2, issued2, q2, peer, n2),
         Ordered(l, issued, q, peer, n), n <= n2,
         HearsMore(l, l2, issued, issued2, q, q2)
  PROVE  Ordered(l2, issued2, q2, peer, n2)
<1>0. /\ l \in Link /\ l2 \in Link /\ peer \in Link /\ n \in Nat /\ n2 \in Nat
      /\ issued \subseteq Nat \X Nat /\ issued2 \subseteq Nat \X Nat
      /\ q \in Seq(QueuedFrame) /\ q2 \in Seq(QueuedFrame)
  BY DEF Typed
<1>1. /\ peer.localId \in Nat /\ l.peerId \in Nat /\ l2.peerId \in Nat
      /\ \A ids \in issued \cup issued2 : ids[2] \in Nat
      /\ Len(q2) = Len(q)
      /\ Told(l, issued) \subseteq Nat /\ Told(l2, issued2) \subseteq Nat
  BY <1>0, ToldFacts DEF Link, HearsMore
<1>2. /\ \A k \in 1..Len(q) : q[k].frame.local \in Nat /\ q2[k].frame.local = q[k].frame.local
      /\ Len(q) \in Nat /\ (q # << >> => 1 \in 1..Len(q))
  BY <1>0, QueueFacts DEF HearsMore
<1> DEFINE first == q # << >> /\ ~q[1].received /\ l2.peerId = q[1].frame.local
\* The id that the station holds after the step.
<1>3. /\ Given(l2.peerId, peer, n)
      /\ \A k \in 1..Len(q) : ~q[k].received => l2.peerId <= q[k].frame.local
      /\ first => \A c \in Told(l, issued) : c <= l2.peerId
  <2>1. CASE l2.peerId = l.peerId /\ ~first
    BY <2>1, <1>0, ToldFacts DEF Ordered
  <2>2. CASE l2.peerId = Unknown /\ ~first
    <3>1. Given(l.peerId, peer, n)
      BY <1>0, ToldFacts DEF Ordered
    <3>2. QED
      BY <2>2, <3>1, <1>0, <1>1, <1>2 DEF Given, Unknown
  <2>3. CASE first
    <3>1. 1 \in 1..Len(q) /\ l2.peerId = q[1].frame.local /\ ~q[1].received
      BY <2>3, <1>2
    <3>2. \A k \in 1..Len(q) : q[1].frame.local <= q[k].frame.local
      <4>1. \A k \in 1..Len(q) : 1 <= k
        BY <1>2
      <4>2. QED
        BY <3>1, <4>1 DEF Ordered
    <3>3. \A c \in Told(l, issued) : c <= q[1].frame.local
      BY <3>1 DEF Ordered
    <3>4. Given(q[1].frame.local, peer, n)
      BY <3>1 DEF Ordered
    <3>5. QED
      BY <3>1, <3>2, <3>3, <3>4
  <2>4. QED
    BY <2>1, <2>2, <2>3 DEF HearsMore
\* What it holds after the step, it held before, or is that id.
<1>4. \A c \in Told(l2, issued2) : c \in Told(l, issued) \/ c = l2.peerId
  <2> TAKE c \in Told(l2, issued2)
  <2>1. CASE c = l2.peerId
    BY <2>1
  <2>2. CASE \E ids \in issued2 : c = ids[2]
    BY <2>2, <1>0, ToldFacts DEF HearsMore
  <2>3. QED
    BY <2>1, <2>2, <1>0, ToldFacts
<1>5. \A c \in Nat : Given(c, peer, n) => Given(c, peer, n2)
  BY <1>0 DEF Given
<1>6. \A c \in Told(l2, issued2) : Given(c, peer, n2)
  BY <1>1, <1>3, <1>4, <1>5 DEF Ordered
<1>7. \A k \in 1..Len(q2) : Given(q2[k].frame.local, peer, n2)
  BY <1>1, <1>2, <1>5 DEF Ordered
<1>8. peer.state # "IDLE" => peer.localId < n2
  BY <1>0, <1>1 DEF Ordered
<1>9. \A k, m \in 1..Len(q2) : k <= m => q2[k].frame.local <= q2[m].frame.local
  BY <1>1, <1>2 DEF Ordered
<1>10. \A k \in 1..Len(q2) :
         ~q2[k].received => \A c \in Told(l2, issued2) : c <= q2[k].frame.local
  <2> TAKE k \in 1..Len(q2)
  <2>1. /\ k \in 1..Len(q) /\ (~q2[k].received => ~q[k].received)
        /\ q2[k].frame.local = q[k].frame.local
    BY <1>1, <1>2 DEF HearsMore
  <2>2. ~q[k].received => \A c \in Told(l, issued) : c <= q[k].frame.local
    BY <2>1 DEF Ordered
  <2>3. ~q[k].received => l2.peerId <= q[k].frame.local
    BY <2>1, <1>3
  <2>4. QED
    BY <2>1, <2>2, <2>3, <1>4
<1>11. ASSUME l2.state \in Met, NEW ids \in issued2
       PROVE  ids[2] <= l2.peerId
  <2>1. CASE ids[2] = l2.peerId
    BY <2>1, <1>1
  <2>2. CASE ids \in issued /\ first
    <3>1. ids[2] \in Told(l, issued)
      BY <2>2, <1>0, ToldFacts
    <3>2. QED
      BY <2>2, <3>1, <1>3
  <2>3. CASE ids \in issued /\ ~first
    <3>1. l2.peerId = l.peerId /\ l.state \in Met
      BY <2>3, <1>11 DEF HearsMore
    <3>2. QED
      BY <2>3, <3>1 DEF Ordered
  <2>4. QED
    BY <2>1, <2>2, <2>3 DEF HearsMore
<1>12. QED
  BY <1>6, <1>7, <1>8, <1>9, <1>10, <1>11 DEF Ordered

LEMMA SaysOrdered ==
  ASSUME NEW l, NEW issued, NEW q, NEW peer, NEW n, Typed(l, issued, q, peer, n),
         NEW q2, NEW peer2, NEW n2, Typed(l, issued, q2, peer2, n2),
         Ordered(l, issued, q, peer, n), n <= n2,
         SaysMore(peer, peer2, q, q2, n, n2)
  PROVE  Ordered(l, issued, q2, peer2, n2)
<1>0. /\ l \in Link /\ peer \in Link /\ peer2 \in Link /\ n \in Nat /\ n2 \in Nat
      /\ issued \subseteq Nat \X Nat
      /\ q \in Seq(QueuedFrame) /\ q2 \in Seq(QueuedFrame)
      /\ peer.localId \in Nat /\ peer2.localId \in Nat
      /\ Told(l, issued) \subseteq Nat
  BY ToldFacts DEF Typed, Link
<1>1. PICK id \in Nat, d \in Nat :
        /\ d <= Len(q)
        /\ id = IF peer.state = "IDLE" THEN n ELSE peer.localId
        /\ peer2.state # "IDLE" => peer2.localId = id /\ id < n2
        /\ \A k \in 1..Len(q2) :
             \/ k + d \in 1..Len(q) /\ q2[k] = q[k + d]
             \/ k + d > Len(q) /\ q2[k].frame.local = id /\ id < n2
  BY DEF SaysMore
<1>2. /\ \A k \in 1..Len(q) : q[k].frame.local \in Nat
      /\ \A k \in 1..Len(q2) : q2[k].frame.local \in Nat
      /\ Len(q) \in Nat /\ Len(q2) \in Nat
  BY <1>0, QueueFacts
\* An id given out before is not beyond the one that is used now.
<1>3. \A c \in Nat : Given(c, peer, n) => c <= id /\ c < n2
  BY <1>0, <1>1 DEF Given
<1>4. \A c \in Nat : c <= id /\ c < n2 => Given(c, peer2, n2)
  BY <1>0, <1>1 DEF Given
<1>5. \A c \in Told(l, issued) : c <= id /\ c < n2
  BY <1>0, <1>3 DEF Ordered
<1>6. \A k \in 1..Len(q2) : q2[k].frame.local <= id /\ q2[k].frame.local < n2
  <2> TAKE k \in 1..Len(q2)
  <2>1. CASE k + d \in 1..Len(q) /\ q2[k] = q[k + d]
    <3>1. Given(q[k + d].frame.local, peer, n) /\ q[k + d].frame.local \in Nat
      BY <2>1, <1>2 DEF Ordered
    <3>2. QED
      BY <2>1, <3>1, <1>3
  <2>2. CASE q2[k].frame.local = id /\ id < n2
    BY <2>2
  <2>3. QED
    BY <2>1, <2>2, <1>1
<1>7. \A k, m \in 1..Len(q2) : k <= m => q2[k].frame.local <= q2[m].frame.local
  <2> SUFFICES ASSUME NEW k \in 1..Len(q2), NEW m \in 1..Len(q2), k <= m
               PROVE  q2[k].frame.local <= q2[m].frame.local
    OBVIOUS
  <2>1. CASE m + d \in 1..Len(q) /\ q2[m] = q[m + d]
    <3>1. k + d \in 1..Len(q) /\ q2[k] = q[k + d] /\ k + d <= m + d
      BY <2>1, <1>1, <1>2
    <3>2. q[k + d].frame.local <= q[m + d].frame.local
      BY <2>1, <3>1 DEF Ordered
    <3>3. QED
      BY <2>1, <3>1, <3>2
  <2>2. CASE q2[m].frame.local = id
    BY <2>2, <1>6
  <2>3. QED
    BY <2>1, <2>2, <1>1
<1>8. \A k \in 1..Len(q2) :
        ~q2[k].received => \A c \in Told(l, issued) : c <= q2[k].frame.local
  <2> TAKE k \in 1..Len(q2)
  <2>1. CASE k + d \in 1..Len(q) /\ q2[k] = q[k + d]
    BY <2>1 DEF Ordered
  <2>2. CASE q2[k].frame.local = id
    BY <2>2, <1>5
  <2>3. QED
    BY <2>1, <2>2, <1>1
<1>9. \A c \in Told(l, issued) : Given(c, peer2, n2)
  BY <1>0, <1>4, <1>5
<1>10. \A k \in 1..Len(q2) : Given(q2[k].frame.local, peer2, n2)
  BY <1>2, <1>4, <1>6
<1>11. peer2.state # "IDLE" => peer2.localId < n2
  BY <1>1
<1>12. l.state \in Met => \A ids \in issued : ids[2] <= l.peerId
  BY DEF Ordered
<1>13. QED
  BY <1>7, <1>8, <1>9, <1>10, <1>11, <1>12 DEF Ordered

-----------------------------------------------------------------------------
(* The order in the network, and what a step of i about j does to it.      *)

\* The ids of every station are in order at every other; a station has no link
\* with itself.
IdsInv ==
  \A i, j \in Iface :
    /\ Ordered(links[i][j], confirmed[i][j], air[j][i], links[j][i],
               lastLocalLinkId[mp[j]])
    /\ i = j => links[i][j] = NoLink /\ air[i][j] = << >>

\* The id of the link that i has with j or would create now.
OwnId(i, j) == IF Exists(i, j) THEN links[i][j].localId ELSE lastLocalLinkId[mp[i]]

LEMMA InvTyped ==
  ASSUME IInv, NEW i \in Iface, NEW j \in Iface
  PROVE  /\ Typed(links[i][j], confirmed[i][j], air[j][i], links[j][i],
                  lastLocalLinkId[mp[j]])
         /\ OwnId(i, j) \in Nat
<1>1. mp[i] \in MeshPoint /\ mp[j] \in MeshPoint
  BY NetworkAssumption
<1>2. /\ links[i][j] \in Link /\ links[j][i] \in Link
      /\ lastLocalLinkId[mp[i]] \in Nat /\ lastLocalLinkId[mp[j]] \in Nat
      /\ confirmed[i][j] \subseteq Nat \X Nat
      /\ air[j][i] \in Seq(QueuedFrame)
  BY <1>1 DEF IInv, TypeOK
<1>3. links[i][j].localId \in Nat
  BY <1>2 DEF Link
<1>4. QED
  BY <1>2, <1>3 DEF Typed, OwnId

LEMMA TypedNext ==
  ASSUME TypeOK', NEW i \in Iface, NEW j \in Iface
  PROVE  Typed(links'[i][j], confirmed'[i][j], air'[j][i], links'[j][i],
               lastLocalLinkId'[mp[j]])
<1>1. mp[j] \in MeshPoint
  BY NetworkAssumption
<1>2. links' \in [Iface -> [Iface -> Link]] /\ lastLocalLinkId' \in [MeshPoint -> Nat]
  BY DEF TypeOK
<1>3. /\ air' \in [Iface -> [Iface -> Seq(QueuedFrame)]]
      /\ confirmed' \in [Iface -> [Iface -> SUBSET (Nat \X Nat)]]
  BY DEF TypeOK
<1>4. links'[i][j] \in Link /\ links'[j][i] \in Link /\ lastLocalLinkId'[mp[j]] \in Nat
  BY <1>1, <1>2
<1>5. air'[j][i] \in Seq(QueuedFrame) /\ confirmed'[i][j] \subseteq Nat \X Nat
  BY <1>3
<1>6. QED
  BY <1>4, <1>5 DEF Typed

\* No station ever takes back a link id.
IdsGrow == \A m \in MeshPoint : lastLocalLinkId[m] <= lastLocalLinkId'[m]

\* A step of i about j keeps the order if i hears from j and says to j what
\* the order allows.
LEMMA PairOrdered ==
  ASSUME IInv, IInv', IdsInv, NEW i \in Iface, NEW j \in Iface, i # j, IdsGrow,
         \A x, y \in Iface : <<x, y>> # <<i, j>> =>
           links'[x][y] = links[x][y] /\ confirmed'[x][y] = confirmed[x][y],
         \A x, y \in Iface : <<x, y>> \notin {<<i, j>>, <<j, i>>} =>
           air'[x][y] = air[x][y],
         HearsMore(links[i][j], links'[i][j], confirmed[i][j], confirmed'[i][j],
                   air[j][i], air'[j][i]),
         SaysMore(links[i][j], links'[i][j], air[i][j], air'[i][j],
                  lastLocalLinkId[mp[i]], lastLocalLinkId'[mp[i]])
  PROVE  IdsInv'
<1>1. ASSUME NEW x \in Iface, NEW y \in Iface
      PROVE  Ordered(links[x][y], confirmed[x][y], air[y][x], links[y][x],
                     lastLocalLinkId[mp[y]])'
  <2>1. /\ Typed(links[x][y], confirmed[x][y], air[y][x], links[y][x],
                 lastLocalLinkId[mp[y]])
        /\ Typed(links'[x][y], confirmed'[x][y], air'[y][x], links'[y][x],
                 lastLocalLinkId'[mp[y]])
    <3>1. Typed(links[x][y], confirmed[x][y], air[y][x], links[y][x],
                lastLocalLinkId[mp[y]])
      BY InvTyped
    <3>2. Typed(links'[x][y], confirmed'[x][y], air'[y][x], links'[y][x],
                lastLocalLinkId'[mp[y]])
      <4>1. TypeOK'
        BY DEF IInv
      <4>2. QED
        BY <4>1, TypedNext
    <3>3. QED
      BY <3>1, <3>2
  <2>2. /\ Ordered(links[x][y], confirmed[x][y], air[y][x], links[y][x],
                   lastLocalLinkId[mp[y]])
        /\ lastLocalLinkId[mp[y]] <= lastLocalLinkId'[mp[y]]
    <3>1. mp[y] \in MeshPoint
      BY NetworkAssumption
    <3>2. QED
      BY <3>1 DEF IdsInv, IdsGrow
  <2>3. CASE x = j /\ y = i
    <3>1. links'[x][y] = links[x][y] /\ confirmed'[x][y] = confirmed[x][y]
      BY <2>3
    <3>2. SaysMore(links[y][x], links'[y][x], air[y][x], air'[y][x],
                   lastLocalLinkId[mp[y]], lastLocalLinkId'[mp[y]])
      BY <2>3
    <3>3. Ordered(links[x][y], confirmed[x][y], air'[y][x], links'[y][x],
                  lastLocalLinkId'[mp[y]])
      BY <2>1, <2>2, <3>1, <3>2, SaysOrdered
    <3>4. QED
      BY <3>1, <3>3
  <2>4. CASE ~(x = j /\ y = i)
    <3>1. links'[y][x] = links[y][x]
      BY <2>4
    <3>2. HearsMore(links[x][y], links'[x][y], confirmed[x][y], confirmed'[x][y],
                    air[y][x], air'[y][x])
      <4>1. CASE x = i /\ y = j
        BY <4>1
      <4>2. CASE ~(x = i /\ y = j)
        <5>1. /\ links'[x][y] = links[x][y] /\ confirmed'[x][y] = confirmed[x][y]
              /\ air'[y][x] = air[y][x]
          BY <2>4, <4>2
        <5>2. QED
          BY <5>1 DEF HearsMore
      <4>3. QED
        BY <4>1, <4>2
    <3>3. Ordered(links'[x][y], confirmed'[x][y], air'[y][x], links[y][x],
                  lastLocalLinkId'[mp[y]])
      BY <2>1, <2>2, <3>1, <3>2, HearsOrdered
    <3>4. QED
      BY <3>1, <3>3
  <2>5. QED
    BY <2>3, <2>4
<1>2. \A x \in Iface : links'[x][x] = NoLink /\ air'[x][x] = << >>
  <2> TAKE x \in Iface
  <2>1. <<x, x>> \notin {<<i, j>>, <<j, i>>}
    OBVIOUS
  <2>2. links'[x][x] = links[x][x] /\ air'[x][x] = air[x][x]
    BY <2>1
  <2>3. QED
    BY <2>2 DEF IdsInv
<1>3. QED
  BY <1>1, <1>2 DEF IdsInv, NoLink

\* What touches no link, no id and no management frame keeps it.
LEMMA UnmovedOrdered ==
  ASSUME IdsInv, UNCHANGED <<links, lastLocalLinkId, air, confirmed>>
  PROVE  IdsInv'
<1>1. ASSUME NEW x \in Iface, NEW y \in Iface
      PROVE  /\ Ordered(links'[x][y], confirmed'[x][y], air'[y][x], links'[y][x],
                        lastLocalLinkId'[mp[y]])
             /\ x = y => links'[x][y] = NoLink /\ air'[x][y] = << >>
  BY DEF IdsInv
<1>2. QED
  BY <1>1 DEF IdsInv

\* Enqueue appends frames behind those in the queue.
LEMMA EnqueueOrder ==
  ASSUME NEW queue \in Seq(QueuedFrame), NEW frames \in Seq(Frame)
  PROVE  \A k \in 1..Len(Enqueue(queue, frames)) :
           \/ k \in 1..Len(queue) /\ Enqueue(queue, frames)[k] = queue[k]
           \/ /\ k > Len(queue)
              /\ \E n \in 1..Len(frames) : Enqueue(queue, frames)[k].frame = frames[n]
<1> DEFINE n == IF Fitting(queue, frames) < 0 THEN 0 ELSE Fitting(queue, frames)
           new == [k \in 1..n |-> [frame |-> frames[k], received |-> FALSE]]
<1>1. n \in Nat /\ n <= Len(frames) /\ 1..Fitting(queue, frames) = 1..n
  BY BoundsAssumption DEF Fitting
<1>2. \A k \in 1..n : k \in 1..Len(frames) /\ frames[k] \in Frame
  BY <1>1
<1> HIDE DEF n
<1>3. new \in [1..n -> QueuedFrame]
  BY <1>2 DEF QueuedFrame
<1>4. new \in Seq(QueuedFrame) /\ Len(new) = n
  BY <1>1, <1>3
<1>5. Enqueue(queue, frames) = queue \o new
  BY <1>1 DEF Enqueue
<1>6. \A k \in 1..n : new[k].frame = frames[k]
  OBVIOUS
<1> HIDE DEF new
<1>7. ASSUME NEW k \in 1..Len(queue \o new)
      PROVE  \/ k \in 1..Len(queue) /\ (queue \o new)[k] = queue[k]
             \/ k > Len(queue) /\ \E m \in 1..Len(frames) : (queue \o new)[k].frame = frames[m]
  <2>1. CASE k <= Len(queue)
    BY <2>1, <1>4
  <2>2. CASE k > Len(queue)
    <3>1. k - Len(queue) \in 1..n /\ (queue \o new)[k] = new[k - Len(queue)]
      BY <2>2, <1>1, <1>4
    <3>2. QED
      BY <2>2, <3>1, <1>2, <1>6
  <2>3. QED
    BY <2>1, <2>2
<1>8. QED
  BY <1>5, <1>7

-----------------------------------------------------------------------------
(* Committing the result of a method.                                      *)

\* What else a step of i about j may do in the air: receive frames of j, and
\* take frames from the head of the queue for j.
Carried(i, j, base) ==
  /\ base \in [Iface -> [Iface -> Seq(QueuedFrame)]]
  /\ \A x, y \in Iface : <<x, y>> \notin {<<i, j>>, <<j, i>>} => base[x][y] = air[x][y]
  /\ Len(base[j][i]) = Len(air[j][i])
  /\ \A k \in 1..Len(air[j][i]) :
       /\ base[j][i][k].frame = air[j][i][k].frame
       /\ air[j][i][k].received => base[j][i][k].received
  /\ \E d \in Nat :
       /\ d <= Len(air[i][j])
       /\ Len(base[i][j]) = Len(air[i][j]) - d
       /\ \A k \in 1..Len(base[i][j]) : base[i][j][k] = air[i][j][k + d]

\* The id in the frame of j that i may receive.
Offers(i, j, id) ==
  air[j][i] # << >> /\ ~air[j][i][1].received /\ id = air[j][i][1].frame.local

\* base is air with another queue from i to j.
Requeued(base, i, j, queue) ==
  /\ base \in [Iface -> [Iface -> Seq(QueuedFrame)]]
  /\ \A x, y \in Iface : base[x][y] = IF x = i /\ y = j THEN queue ELSE air[x][y]

LEMMA QueueSet ==
  ASSUME TypeOK, NEW i \in Iface, NEW j \in Iface, NEW queue \in Seq(QueuedFrame)
  PROVE  Requeued([air EXCEPT ![i][j] = queue], i, j, queue)
BY DEF TypeOK, Requeued

LEMMA AirCarried ==
  ASSUME TypeOK, NEW i \in Iface, NEW j \in Iface
  PROVE  Carried(i, j, air)
<1>1. air[i][j] \in Seq(QueuedFrame)
  BY DEF TypeOK
<1>2. /\ 0 \in Nat /\ 0 <= Len(air[i][j]) /\ Len(air[i][j]) = Len(air[i][j]) - 0
      /\ \A k \in 1..Len(air[i][j]) : air[i][j][k] = air[i][j][k + 0]
  BY <1>1
<1>3. QED
  BY <1>2 DEF Carried, TypeOK

LEMMA ReceivedCarried ==
  ASSUME TypeOK, NEW i \in Iface, NEW j \in Iface, i # j, NEW type, Arrives(i, j, type)
  PROVE  /\ Carried(i, j, Received(i, j))
         /\ Offers(i, j, Arriving(i, j).local)
<1> DEFINE q == air[j][i]
           q2 == [q EXCEPT ![1] = [q[1] EXCEPT !.received = TRUE]]
<1>1. q \in Seq(QueuedFrame) /\ q # << >> /\ ~Head(q).received
  BY DEF TypeOK, Arrives
<1>2. /\ q \in [1..Len(q) -> QueuedFrame] /\ Len(q) \in Nat /\ 1 \in 1..Len(q)
      /\ Head(q) = q[1]
  <2> HIDE DEF q
  <2> QED  BY <1>1
<1>3. /\ [q[1] EXCEPT !.received = TRUE] \in QueuedFrame
      /\ [q[1] EXCEPT !.received = TRUE].frame = q[1].frame
      /\ [q[1] EXCEPT !.received = TRUE].received
  BY <1>2 DEF QueuedFrame
<1> DEFINE new == [q[1] EXCEPT !.received = TRUE]
<1>4. /\ q2 \in Seq(QueuedFrame) /\ Len(q2) = Len(q)
      /\ \A k \in 1..Len(q) : /\ q2[k].frame = q[k].frame
                              /\ q[k].received => q2[k].received
  <2> HIDE DEF q, new
  <2>1. q2 \in [1..Len(q) -> QueuedFrame]
    BY <1>2, <1>3 DEF new
  <2>2. \A k \in 1..Len(q) : q2[k] = IF k = 1 THEN new ELSE q[k]
    BY <1>2 DEF new
  <2> HIDE DEF q2
  <2>3. q2 \in Seq(QueuedFrame) /\ Len(q2) = Len(q)
    BY <1>2, <2>1
  <2>4. new.frame = q[1].frame /\ new.received
    BY <1>3 DEF new
  <2>5. QED
    BY <2>2, <2>3, <2>4
<1>5. Received(i, j) = [air EXCEPT ![j][i] = q2]
  BY DEF Received
<1> HIDE DEF q2
<1>6. /\ Received(i, j) \in [Iface -> [Iface -> Seq(QueuedFrame)]]
      /\ \A x, y \in Iface :
           Received(i, j)[x][y] = IF x = j /\ y = i THEN q2 ELSE air[x][y]
  <2>1. q2 \in Seq(QueuedFrame)
    BY <1>4
  <2>2. Requeued([air EXCEPT ![j][i] = q2], j, i, q2)
    BY <2>1, QueueSet
  <2>3. Requeued(Received(i, j), j, i, q2)
    BY <1>5, <2>2
  <2>4. QED
    BY <2>3 DEF Requeued
<1>7. /\ Received(i, j)[i][j] = air[i][j] /\ Received(i, j)[j][i] = q2
      /\ \A x, y \in Iface : <<x, y>> \notin {<<i, j>>, <<j, i>>} =>
           Received(i, j)[x][y] = air[x][y]
  BY <1>6
<1>8. air[i][j] \in Seq(QueuedFrame)
  BY DEF TypeOK
<1>9. /\ 0 \in Nat /\ 0 <= Len(air[i][j]) /\ Len(air[i][j]) = Len(air[i][j]) - 0
      /\ \A k \in 1..Len(air[i][j]) : air[i][j][k] = air[i][j][k + 0]
  BY <1>8
<1>10. Carried(i, j, Received(i, j))
  BY <1>4, <1>6, <1>7, <1>9 DEF Carried
<1>11. Offers(i, j, Arriving(i, j).local)
  BY <1>1, <1>2 DEF Offers, Arriving
<1>12. QED
  BY <1>10, <1>11

LEMMA SentCarried ==
  ASSUME TypeOK, NEW i \in Iface, NEW j \in Iface, i # j, air[i][j] # << >>
  PROVE  Carried(i, j, Sent(i, j))
<1> DEFINE q == air[i][j]
           q2 == Tail(q)
<1>1. q \in Seq(QueuedFrame) /\ q # << >>
  BY DEF TypeOK
<1>2. /\ q2 \in Seq(QueuedFrame) /\ Len(q2) = Len(q) - 1 /\ 1 <= Len(q) /\ 1 \in Nat
      /\ \A k \in 1..Len(q2) : q2[k] = q[k + 1]
  <2> HIDE DEF q
  <2> QED  BY <1>1
<1>3. Sent(i, j) = [air EXCEPT ![i][j] = q2]
  BY DEF Sent
<1> HIDE DEF q2
<1>4. /\ Sent(i, j) \in [Iface -> [Iface -> Seq(QueuedFrame)]]
      /\ \A x, y \in Iface :
           Sent(i, j)[x][y] = IF x = i /\ y = j THEN q2 ELSE air[x][y]
  <2>1. q2 \in Seq(QueuedFrame)
    BY <1>2
  <2>2. Requeued([air EXCEPT ![i][j] = q2], i, j, q2)
    BY <2>1, QueueSet
  <2>3. Requeued(Sent(i, j), i, j, q2)
    BY <1>3, <2>2
  <2>4. QED
    BY <2>3 DEF Requeued
<1>5. /\ Sent(i, j)[j][i] = air[j][i] /\ Sent(i, j)[i][j] = q2
      /\ \A x, y \in Iface : <<x, y>> \notin {<<i, j>>, <<j, i>>} =>
           Sent(i, j)[x][y] = air[x][y]
  BY <1>4
<1>6. QED
  BY <1>2, <1>4, <1>5 DEF Carried

\* A step that only moves frames keeps the order.
LEMMA CarriedOrdered ==
  ASSUME IInv, IInv', IdsInv, NEW i \in Iface, NEW j \in Iface, i # j,
         Carried(i, j, air'), UNCHANGED <<links, lastLocalLinkId, confirmed>>
  PROVE  IdsInv'
<1>1. HearsMore(links[i][j], links[i][j], confirmed[i][j], confirmed[i][j],
                air[j][i], air'[j][i])
  BY DEF Carried, HearsMore
<1>2. SaysMore(links[i][j], links[i][j], air[i][j], air'[i][j],
               lastLocalLinkId[mp[i]], lastLocalLinkId[mp[i]])
  <2> DEFINE n == lastLocalLinkId[mp[i]]
             id == OwnId(i, j)
  <2>1. PICK d \in Nat :
          /\ d <= Len(air[i][j])
          /\ Len(air'[i][j]) = Len(air[i][j]) - d
          /\ \A k \in 1..Len(air'[i][j]) : air'[i][j][k] = air[i][j][k + d]
    BY DEF Carried
  <2>2. /\ id \in Nat /\ id = IF links[i][j].state = "IDLE" THEN n ELSE links[i][j].localId
        /\ links[i][j].state # "IDLE" => links[i][j].localId = id /\ id < n
    BY InvTyped DEF OwnId, Exists, IdsInv, Ordered
  <2>3. Len(air[i][j]) \in Nat
    BY DEF IInv, TypeOK
  <2>4. \A k \in 1..Len(air'[i][j]) : k + d \in 1..Len(air[i][j])
    BY <2>1, <2>3
  <2> HIDE DEF id
  <2>5. QED
    BY <2>1, <2>2, <2>4 DEF SaysMore
<1>3. IdsGrow
  <2>1. \A m \in MeshPoint : lastLocalLinkId[m] \in Nat
    BY DEF IInv, TypeOK
  <2>2. QED
    BY <2>1 DEF IdsGrow
<1>4. \A x, y \in Iface : <<x, y>> \notin {<<i, j>>, <<j, i>>} => air'[x][y] = air[x][y]
  BY DEF Carried
<1>5. QED
  BY <1>1, <1>2, <1>3, <1>4, PairOrdered

\* What a result must say and what it may have learnt to be committed.
Fits(i, j, r, id) ==
  /\ r.link.state # "IDLE" => r.link.localId = id /\ id < lastLocalLinkId'[mp[i]]
  /\ \A k \in 1..Len(r.sent) :
       /\ r.sent[k].local = id /\ id < lastLocalLinkId'[mp[i]]
       /\ r.sent[k].type = "Confirm" =>
            r.sent[k].peer = r.link.peerId /\ r.link.state # "IDLE"
  /\ r.link.state # "IDLE" =>
       \/ r.link.peerId = links[i][j].peerId
          /\ (r.link.state \in Met => links[i][j].state \in Met)
       \/ r.link.peerId = Unknown /\ r.link.state \notin Met
       \/ Offers(i, j, r.link.peerId)

LEMMA FitsOrdered ==
  ASSUME IInv, IInv', IdsInv, NEW i \in Iface, NEW j \in Iface, i # j, IdsGrow,
         NEW r, Sound(i, j, r), Fits(i, j, r, OwnId(i, j)),
         NEW base, Carried(i, j, base), Commit(i, j, r, base)
  PROVE  IdsInv'
<1> DEFINE l == links[i][j]
           l2 == IF r.link.state = "IDLE" THEN NoLink ELSE r.link
           id == OwnId(i, j)
<1>0. /\ TypeOK /\ r.link \in Link /\ r.sent \in Seq(Frame) /\ id \in Nat
      /\ air[i][j] \in Seq(QueuedFrame) /\ base[i][j] \in Seq(QueuedFrame)
  <2>1. TypeOK /\ id \in Nat
    BY InvTyped DEF IInv
  <2>2. air[i][j] \in Seq(QueuedFrame)
    BY <2>1 DEF TypeOK
  <2>3. base[i][j] \in Seq(QueuedFrame)
    BY DEF Carried
  <2>4. QED
    BY <2>1, <2>2, <2>3 DEF Sound
<1>1. \A x, y \in Iface : links'[x][y] = IF x = i /\ y = j THEN l2 ELSE links[x][y]
  <2>1. links' = [links EXCEPT ![i][j] = l2]
    BY DEF Commit, Put
  <2> HIDE DEF l2
  <2>2. QED
    BY <1>0, <2>1 DEF TypeOK
<1>2. \A x, y \in Iface : confirmed'[x][y] =
        IF x = i /\ y = j THEN confirmed[x][y] \cup Confirms(r.sent) ELSE confirmed[x][y]
  BY <1>0 DEF Commit, TypeOK
<1>3. \A x, y \in Iface : air'[x][y] =
        IF x = i /\ y = j THEN Enqueue(base[x][y], r.sent) ELSE base[x][y]
  BY DEF Commit, Carried
<1>4. l2.peerId = IF r.link.state = "IDLE" THEN Unknown ELSE r.link.peerId
  BY DEF NoLink, NewLink
<1>5. l2.state = r.link.state
  BY DEF NoLink, NewLink
<1> HIDE DEF l2, id
<1>6. HearsMore(l, l2, confirmed[i][j], confirmed'[i][j], air[j][i], air'[j][i])
  <2>1. air'[j][i] = base[j][i]
    BY <1>3
  <2>2. \A ids \in confirmed'[i][j] : ids \in confirmed[i][j] \/ ids[2] = l2.peerId
    <3>1. \A ids \in Confirms(r.sent) : ids[2] = l2.peerId
      BY <1>4 DEF Fits, Confirms
    <3>2. QED
      BY <1>2, <3>1
  <2>3. \/ l2.peerId = l.peerId /\ (l2.state \in Met => l.state \in Met)
        \/ l2.peerId = Unknown /\ l2.state \notin Met
        \/ Offers(i, j, l2.peerId)
    <3>1. CASE r.link.state = "IDLE"
      BY <3>1, <1>4, <1>5 DEF Met
    <3>2. CASE r.link.state # "IDLE"
      BY <3>2, <1>4, <1>5 DEF Fits
    <3>3. QED
      BY <3>1, <3>2
  <2>4. QED
    BY <2>1, <2>2, <2>3 DEF HearsMore, Carried, Offers
<1>7. SaysMore(l, l2, air[i][j], air'[i][j], lastLocalLinkId[mp[i]], lastLocalLinkId'[mp[i]])
  <2>1. PICK d \in Nat :
          /\ d <= Len(air[i][j])
          /\ Len(base[i][j]) = Len(air[i][j]) - d
          /\ \A k \in 1..Len(base[i][j]) : base[i][j][k] = air[i][j][k + d]
    BY DEF Carried
  <2>2. id = IF l.state = "IDLE" THEN lastLocalLinkId[mp[i]] ELSE l.localId
    BY DEF id, OwnId, Exists
  <2>3. l2.state # "IDLE" => l2.localId = id /\ id < lastLocalLinkId'[mp[i]]
    BY DEF Fits, l2, id, NoLink, NewLink
  <2>4. ASSUME NEW k \in 1..Len(air'[i][j])
        PROVE  \/ k + d \in 1..Len(air[i][j]) /\ air'[i][j][k] = air[i][j][k + d]
               \/ /\ k + d > Len(air[i][j]) /\ air'[i][j][k].frame.local = id
                  /\ id < lastLocalLinkId'[mp[i]]
    <3> DEFINE queue == Enqueue(base[i][j], r.sent)
    <3>1. air'[i][j] = queue /\ k \in 1..Len(queue)
      BY <1>3, <2>4
    <3>2. \/ k \in 1..Len(base[i][j]) /\ queue[k] = base[i][j][k]
          \/ /\ k > Len(base[i][j])
             /\ \E n \in 1..Len(r.sent) : queue[k].frame = r.sent[n]
      BY <1>0, <3>1, EnqueueOrder
    <3> HIDE DEF queue
    <3>3. Len(air[i][j]) \in Nat /\ k \in Nat
      BY <1>0, <3>1
    <3>4. CASE k \in 1..Len(base[i][j]) /\ queue[k] = base[i][j][k]
      <4>1. k + d \in 1..Len(air[i][j])
        BY <3>3, <3>4, <2>1
      <4>2. QED
        BY <3>1, <3>4, <4>1, <2>1
    <3>5. CASE k > Len(base[i][j]) /\ \E n \in 1..Len(r.sent) : queue[k].frame = r.sent[n]
      <4>1. k + d > Len(air[i][j])
        BY <3>3, <3>5, <2>1
      <4>2. queue[k].frame.local = id /\ id < lastLocalLinkId'[mp[i]]
        BY <3>5 DEF Fits, id
      <4>3. QED
        BY <3>1, <4>1, <4>2
    <3>6. QED
      BY <3>2, <3>4, <3>5
  <2>5. QED
    BY <1>0, <2>1, <2>2, <2>3, <2>4 DEF SaysMore
<1>8. /\ \A x, y \in Iface : <<x, y>> # <<i, j>> =>
           links'[x][y] = links[x][y] /\ confirmed'[x][y] = confirmed[x][y]
      /\ \A x, y \in Iface : <<x, y>> \notin {<<i, j>>, <<j, i>>} =>
           air'[x][y] = air[x][y]
      /\ links'[i][j] = l2
  <2>1. \A x, y \in Iface : <<x, y>> # <<i, j>> => ~(x = i /\ y = j)
    OBVIOUS
  <2>2. \A x, y \in Iface : <<x, y>> # <<i, j>> =>
          links'[x][y] = links[x][y] /\ confirmed'[x][y] = confirmed[x][y]
    BY <1>1, <1>2, <2>1
  <2>3. ASSUME NEW x \in Iface, NEW y \in Iface, <<x, y>> \notin {<<i, j>>, <<j, i>>}
        PROVE  air'[x][y] = air[x][y]
    <3>1. base[x][y] = air[x][y]
      BY <2>3 DEF Carried
    <3>2. air'[x][y] = base[x][y]
      BY <1>3, <2>1, <2>3
    <3>3. QED
      BY <3>1, <3>2
  <2>4. links'[i][j] = l2
    BY <1>1
  <2>5. QED
    BY <2>2, <2>3, <2>4
<1>9. QED
  BY <1>6, <1>7, <1>8, PairOrdered

\* The id of the link that meets an Open has been given out when the step ends.
LEMMA MeetIds ==
  ASSUME IdsLast, IInv, IdsInv, NEW i \in Iface, NEW j \in Iface,
         MayMeetOpen(i, j), TakeLinkIdForOpen(i, j)
  PROVE  /\ IdsGrow
         /\ LinkForOpen(i, j).localId = OwnId(i, j)
         /\ OwnId(i, j) < lastLocalLinkId'[mp[i]]
<1> DEFINE m == mp[i]
           n == lastLocalLinkId[m]
<1>0. /\ TypeOK /\ m \in MeshPoint /\ n \in Nat
      /\ \A x \in MeshPoint : lastLocalLinkId[x] \in Nat
  BY NetworkAssumption DEF IInv, TypeOK
<1>1. CASE Exists(i, j)
  <2>1. lastLocalLinkId' = lastLocalLinkId
    BY <1>1 DEF TakeLinkIdForOpen
  <2>2. links[i][j].localId < n
    BY <1>1 DEF IdsInv, Ordered, Exists
  <2>3. IdsGrow
    BY <1>0, <2>1 DEF IdsGrow
  <2>4. QED
    BY <1>1, <2>1, <2>2, <2>3 DEF OwnId, LinkForOpen
<1>2. CASE ~Exists(i, j)
  <2>1. MayInitiate(i) /\ TakeLinkId(i)
    BY <1>2 DEF MayMeetOpen, TakeLinkIdForOpen
  <2>2. MaxLinkId[m] \in Nat /\ n <= MaxLinkId[m] /\ MaxLinkId[m] + 1 < LinkIdModulus
    BY <1>0, <2>1, BoundsAssumption DEF MayInitiate, IdsLast
  <2>3. n + 1 \in 0..(LinkIdModulus - 1) /\ LinkIdModulus \in Nat \ {0}
    BY <1>0, <2>2, BoundsAssumption
  <2>4. (n + 1) % LinkIdModulus = n + 1
    BY <2>3
  <2>5. lastLocalLinkId' = [lastLocalLinkId EXCEPT ![m] = n + 1]
    BY <2>1, <2>4 DEF TakeLinkId
  <2>6. \A x \in MeshPoint :
          lastLocalLinkId'[x] = IF x = m THEN n + 1 ELSE lastLocalLinkId[x]
    BY <1>0, <2>5 DEF TypeOK
  <2>7. IdsGrow /\ n < lastLocalLinkId'[m]
    BY <1>0, <2>6 DEF IdsGrow
  <2>8. LinkForOpen(i, j).localId = n /\ OwnId(i, j) = n
    BY <1>2 DEF LinkForOpen, FreshLink, NewLink, OwnId
  <2>9. QED
    BY <2>7, <2>8
<1>3. QED
  BY <1>1, <1>2

\* Committing what a method returns for the link there is, or for a new one.
LEMMA MeetOrdered ==
  ASSUME IdsLast, IInv, IInv', IdsInv, NEW i \in Iface, NEW j \in Iface, i # j,
         MayMeetOpen(i, j), TakeLinkIdForOpen(i, j),
         NEW r, Sound(i, j, r), Advances(LinkForOpen(i, j), r),
         Tells(LinkForOpen(i, j), r),
         Steady(LinkForOpen(i, j), r) \/ Offers(i, j, r.link.peerId),
         NEW base, Carried(i, j, base), Commit(i, j, r, base)
  PROVE  IdsInv'
<1> DEFINE l == LinkForOpen(i, j)
           id == OwnId(i, j)
<1>1. IdsGrow /\ l.localId = id /\ id < lastLocalLinkId'[mp[i]]
  BY MeetIds
<1>2. \/ l = links[i][j]
      \/ l.peerId = Unknown /\ l.state \notin Met
  BY DEF LinkForOpen, FreshLink, NewLink, Met
<1>3. r.link.localId = id /\ \A k \in 1..Len(r.sent) : r.sent[k].local = id
  BY <1>1 DEF Tells
<1>4. \A k \in 1..Len(r.sent) : r.sent[k].type = "Confirm" =>
        r.sent[k].peer = r.link.peerId /\ r.link.state # "IDLE"
  BY DEF Tells, Advances, Trying
<1>5. \/ /\ r.link.peerId = links[i][j].peerId
         /\ r.link.state \in Met => links[i][j].state \in Met
      \/ r.link.peerId = Unknown /\ r.link.state \notin Met
      \/ Offers(i, j, r.link.peerId)
  BY <1>2 DEF Steady
<1>6. Fits(i, j, r, id)
  BY <1>1, <1>3, <1>4, <1>5 DEF Fits
<1>7. QED
  BY <1>1, <1>6, FitsOrdered

LEMMA ExistsOrdered ==
  ASSUME IdsLast, IInv, IInv', IdsInv, NEW i \in Iface, NEW j \in Iface, i # j,
         Exists(i, j), UNCHANGED lastLocalLinkId,
         NEW r, Sound(i, j, r), Advances(links[i][j], r), Tells(links[i][j], r),
         Steady(links[i][j], r) \/ Offers(i, j, r.link.peerId),
         NEW base, Carried(i, j, base), Commit(i, j, r, base)
  PROVE  IdsInv'
<1>1. /\ LinkForOpen(i, j) = links[i][j]
      /\ MayMeetOpen(i, j) /\ TakeLinkIdForOpen(i, j)
  BY DEF LinkForOpen, MayMeetOpen, TakeLinkIdForOpen
<1>2. QED
  BY <1>1, MeetOrdered

-----------------------------------------------------------------------------
(* The actions.                                                            *)

LEMMA BeaconOrdered ==
  ASSUME IdsLast, IInv, IInv', IdsInv, NEW i \in Iface, NEW j \in Iface,
         ReceiveBeacon(i, j)
  PROVE  IdsInv'
<1>0. TypeOK /\ i # j
  BY DEF IInv, ReceiveBeacon, BeaconOpensLink, BeaconRefreshesLink, HearsBeacon
<1>1. CASE BeaconOpensLink(i, j)
  <2> DEFINE opened == StateMachine(FreshLink(i), "ACTOPN")
             r == [opened EXCEPT !.link = HearBeacon(@)]
  <2>1. Sound(i, j, r)
    BY <1>0, OpenedSound
  <2>2. FreshLink(i) \in Link /\ FreshLink(i).state = "IDLE"
    BY <1>0, FreshLinkFacts DEF FreshLink, NewLink
  <2>3. Advances(FreshLink(i), r)
    BY <2>2, OpenedAdvances
  <2>4. Tells(FreshLink(i), r) /\ Steady(FreshLink(i), r)
    BY <2>2, OpenedSteady
  <2>5. /\ Commit(i, j, r, air) /\ TakeLinkIdForOpen(i, j) /\ MayMeetOpen(i, j)
        /\ LinkForOpen(i, j) = FreshLink(i)
    BY <1>1 DEF BeaconOpensLink, TakeLinkIdForOpen, MayMeetOpen, LinkForOpen
  <2>6. Carried(i, j, air)
    BY <1>0, AirCarried
  <2> HIDE DEF r
  <2>7. QED
    BY <1>0, <2>1, <2>3, <2>4, <2>5, <2>6, MeetOrdered
<1>2. CASE BeaconRefreshesLink(i, j)
  <2> DEFINE l == HearBeacon(links[i][j])
  <2>1. /\ links' = [links EXCEPT ![i][j] = l]
        /\ UNCHANGED <<lastLocalLinkId, air, confirmed>>
    BY <1>2 DEF BeaconRefreshesLink
  <2>2. /\ l.state = links[i][j].state /\ l.localId = links[i][j].localId
        /\ l.peerId = links[i][j].peerId
    <3>1. links[i][j] \in Link
      BY <1>0 DEF TypeOK
    <3>2. QED
      BY <3>1 DEF HearBeacon, Link
  <2> HIDE DEF l
  <2>3. \A x, y \in Iface : links'[x][y] = IF x = i /\ y = j THEN l ELSE links[x][y]
    BY <1>0, <2>1 DEF TypeOK
  <2>4. \A x, y \in Iface : /\ links'[x][y].state = links[x][y].state
                            /\ links'[x][y].localId = links[x][y].localId
                            /\ links'[x][y].peerId = links[x][y].peerId
    BY <2>2, <2>3
  <2>5. ASSUME NEW x \in Iface, NEW y \in Iface
        PROVE  Ordered(links'[x][y], confirmed'[x][y], air'[y][x], links'[y][x],
                       lastLocalLinkId'[mp[y]])
    <3>1. Ordered(links[x][y], confirmed[x][y], air[y][x], links[y][x],
                  lastLocalLinkId[mp[y]])
      BY DEF IdsInv
    <3>2. QED
      BY <2>1, <2>4, <3>1 DEF Ordered, Told, Given
  <2>6. \A x \in Iface : links'[x][x] = NoLink /\ air'[x][x] = << >>
    BY <1>0, <2>1, <2>3 DEF IdsInv
  <2>7. QED
    BY <2>5, <2>6 DEF IdsInv, NoLink
<1>3. QED
  BY <1>1, <1>2 DEF ReceiveBeacon

LEMMA FrameOrdered ==
  ASSUME IdsLast, IInv, IInv', IdsInv, NEW i \in Iface, NEW j \in Iface,
         ReceivePeerLinkFrame(i, j)
  PROVE  IdsInv'
<1> DEFINE l == links[i][j]
           local == Arriving(i, j).local
           peer == Arriving(i, j).peer
<1>0. /\ TypeOK /\ l \in Link /\ Progress(i, j, l) /\ Match(l.state, l.timers)
  BY InvFacts DEF IInv
<1>1. /\ LinkForOpen(i, j) \in Link
      /\ Progress(i, j, LinkForOpen(i, j))
      /\ Match(LinkForOpen(i, j).state, LinkForOpen(i, j).timers)
  BY <1>0, FreshLinkFacts DEF LinkForOpen
<1>2. PICK type : Arrives(i, j, type)
  BY DEF ReceivePeerLinkFrame, ReceiveMismatch, AcceptOpen, RejectOpen, ReceiveConfirm,
         ReceiveClose, ReceiveStray
<1>3. i # j
  BY <1>2 DEF Arrives, IdsInv
<1>4. /\ Carried(i, j, Received(i, j)) /\ Offers(i, j, local)
      /\ local \in Nat /\ peer \in Nat
  BY <1>0, <1>2, <1>3, ReceivedCarried, ArrivingFacts
<1>5. \A m \in Link : \A r \in {OpenAccept(m, local), OpenReject(m, local),
                                ConfirmAccept(m, local, peer), Close(m, local, peer),
                                StateMachine(m, "CNCL")} :
        /\ Advances(m, r) /\ Tells(m, r)
        /\ Steady(m, r) \/ Offers(i, j, r.link.peerId)
  <2>1. \A m \in Link : \A r \in {OpenAccept(m, local), OpenReject(m, local),
                                  ConfirmAccept(m, local, peer), Close(m, local, peer),
                                  StateMachine(m, "CNCL")} :
          Tells(m, r) /\ Learns(m, r, local)
    BY <1>4, MethodsLearn
  <2>2. \A m \in Link : \A r \in {OpenAccept(m, local), OpenReject(m, local),
                                  ConfirmAccept(m, local, peer), Close(m, local, peer),
                                  StateMachine(m, "CNCL")} : Advances(m, r)
    BY <1>4, MethodsAdvance
  <2>3. QED
    BY <1>4, <2>1, <2>2 DEF Learns
\* A step that only receives the frame.
<1>6. ASSUME air' = Received(i, j), UNCHANGED <<links, lastLocalLinkId, confirmed>>
      PROVE  IdsInv'
  BY <1>3, <1>4, <1>6, CarriedOrdered
<1>7. CASE ReceiveMismatch(i, j)
  <2>1. CASE Exists(i, j)
    <3>1. /\ Commit(i, j, StateMachine(l, "CNCL"), Received(i, j))
          /\ UNCHANGED lastLocalLinkId
      BY <1>7, <2>1 DEF ReceiveMismatch
    <3>2. Sound(i, j, StateMachine(l, "CNCL"))
      BY <1>0, CancelSound
    <3>3. QED
      BY <1>0, <1>3, <1>4, <1>5, <2>1, <3>1, <3>2, ExistsOrdered
  <2>2. CASE ~Exists(i, j)
    BY <1>6, <1>7, <2>2 DEF ReceiveMismatch
  <2>3. QED
    BY <2>1, <2>2
<1>8. CASE AcceptOpen(i, j)
  <2>1. /\ Commit(i, j, OpenAccept(LinkForOpen(i, j), local), Received(i, j))
        /\ MayMeetOpen(i, j) /\ TakeLinkIdForOpen(i, j)
        /\ <<i, j>> \in Compatible
    BY <1>8 DEF AcceptOpen
  <2>2. Sound(i, j, OpenAccept(LinkForOpen(i, j), local))
    BY <1>1, <1>4, <2>1, OpenAcceptSound
  <2>3. QED
    BY <1>1, <1>3, <1>4, <1>5, <2>1, <2>2, MeetOrdered
<1>9. CASE RejectOpen(i, j)
  <2>1. /\ Commit(i, j, OpenReject(LinkForOpen(i, j), local), Received(i, j))
        /\ MayMeetOpen(i, j) /\ TakeLinkIdForOpen(i, j)
    BY <1>9 DEF RejectOpen
  <2>2. Sound(i, j, OpenReject(LinkForOpen(i, j), local))
    BY <1>1, <1>4, OpenRejectSound
  <2>3. QED
    BY <1>1, <1>3, <1>4, <1>5, <2>1, <2>2, MeetOrdered
<1>10. CASE ReceiveConfirm(i, j)
  <2>1. /\ Commit(i, j, ConfirmAccept(l, local, peer), Received(i, j))
        /\ UNCHANGED lastLocalLinkId /\ Arrives(i, j, "Confirm") /\ Exists(i, j)
    BY <1>10 DEF ReceiveConfirm
  <2>2. <<local, peer>> \in confirmed[j][i]
    BY <2>1, ArrivingFacts
  <2>3. Sound(i, j, ConfirmAccept(l, local, peer))
    BY <1>0, <1>4, <2>2, ConfirmAcceptSound
  <2>4. QED
    BY <1>0, <1>3, <1>4, <1>5, <2>1, <2>3, ExistsOrdered
<1>11. CASE ReceiveClose(i, j)
  <2>1. /\ Commit(i, j, Close(l, local, peer), Received(i, j))
        /\ UNCHANGED lastLocalLinkId /\ Exists(i, j)
    BY <1>11 DEF ReceiveClose
  <2>2. Sound(i, j, Close(l, local, peer))
    BY <1>0, <1>4, CloseSound
  <2>3. QED
    BY <1>0, <1>3, <1>4, <1>5, <2>1, <2>2, ExistsOrdered
<1>12. CASE ReceiveStray(i, j)
  BY <1>6, <1>12 DEF ReceiveStray, linkVars
<1>13. QED
  BY <1>7, <1>8, <1>9, <1>10, <1>11, <1>12 DEF ReceivePeerLinkFrame

LEMMA TransmitOrdered ==
  ASSUME IdsLast, IInv, IInv', IdsInv, NEW i \in Iface, NEW j \in Iface,
         Transmit(i, j)
  PROVE  IdsInv'
<1> DEFINE l == links[i][j]
<1>0. TypeOK /\ l \in Link /\ Progress(i, j, l) /\ Match(l.state, l.timers)
  BY InvFacts DEF IInv
<1>1. \A r \in {TransmissionSuccess(l), TransmissionFailure(l)} :
        Sound(i, j, r) /\ Advances(l, r) /\ Tells(l, r) /\ Steady(l, r)
  BY <1>0, TransmissionSound, TransmissionAdvances, TransmissionSteady
<1>2. ASSUME NEW r \in {TransmissionSuccess(l), TransmissionFailure(l)},
             NEW base, Carried(i, j, base), OnLink(i, j, r, base), i # j
      PROVE  IdsInv'
  <2>1. CASE Exists(i, j)
    <3>1. Commit(i, j, r, base) /\ UNCHANGED lastLocalLinkId
      BY <1>2, <2>1 DEF OnLink
    <3>2. Sound(i, j, r) /\ Advances(l, r) /\ Tells(l, r) /\ Steady(l, r)
      BY <1>1, <1>2
    <3>3. QED
      BY <1>2, <2>1, <3>1, <3>2, ExistsOrdered
  <2>2. CASE ~Exists(i, j)
    <3>1. air' = base /\ UNCHANGED <<links, lastLocalLinkId, confirmed>>
      BY <1>2, <2>2 DEF OnLink
    <3>2. QED
      BY <1>2, <3>1, CarriedOrdered
  <2>3. QED
    BY <2>1, <2>2
<1>3. CASE TxOk(i, j) \/ TxError(i, j)
  <2>1. i # j /\ air[i][j] # << >>
    BY <1>3 DEF TxOk, TxError, IdsInv
  <2>2. Carried(i, j, Sent(i, j))
    BY <1>0, <2>1, SentCarried
  <2>3. QED
    BY <1>2, <1>3, <2>1, <2>2 DEF TxOk, TxError
<1>4. CASE SendData(i, j)
  BY <1>4, UnmovedOrdered DEF SendData, linkVars
<1>5. CASE DataTxOk(i, j) \/ DataTxError(i, j)
  <2>1. CASE i = j
    <3>1. ~Exists(i, j)
      BY <2>1 DEF IdsInv, NoLink, NewLink, Exists
    <3>2. UNCHANGED <<links, lastLocalLinkId, air, confirmed>>
      BY <1>5, <3>1 DEF DataTxOk, DataTxError, OnLink
    <3>3. QED
      BY <3>2, UnmovedOrdered
  <2>2. CASE i # j
    <3>1. Carried(i, j, air)
      BY <1>0, AirCarried
    <3>2. QED
      BY <1>2, <1>5, <2>2, <3>1 DEF DataTxOk, DataTxError
  <2>3. QED
    BY <2>1, <2>2
<1>6. QED
  BY <1>3, <1>4, <1>5 DEF Transmit

LEMMA TimerOrdered ==
  ASSUME IdsLast, IInv, IInv', IdsInv, NEW i \in Iface, NEW j \in Iface,
         HandshakeTimer(i, j) \/ BeaconTimer(i, j)
  PROVE  IdsInv'
<1> DEFINE l == links[i][j]
<1>0. TypeOK /\ l \in Link /\ Progress(i, j, l) /\ Match(l.state, l.timers)
  BY InvFacts DEF IInv
<1>1. i # j
  <2>1. l.timers # {}
    BY DEF HandshakeTimer, RetryTimer, ConfirmTimer, HoldingTimer, BeaconTimer, Pending
  <2>2. QED
    BY <2>1 DEF IdsInv, NoLink, NewLink
<1>2. Carried(i, j, air)
  BY <1>0, AirCarried
<1>3. \A r \in {RetryTimeout(l), ConfirmTimeout(l), HoldingTimeout(l), BeaconLoss(l)} :
        Advances(l, r) /\ Tells(l, r) /\ Steady(l, r)
  BY <1>0, TimeoutsAdvance, TimeoutsSteady
<1>4. ASSUME NEW r \in {RetryTimeout(l), ConfirmTimeout(l), HoldingTimeout(l), BeaconLoss(l)},
             Sound(i, j, r), Fire(i, j, r), Exists(i, j)
      PROVE  IdsInv'
  <2>1. Commit(i, j, r, air) /\ UNCHANGED lastLocalLinkId
    BY <1>4 DEF Fire
  <2>2. Advances(l, r) /\ Tells(l, r) /\ Steady(l, r)
    BY <1>3, <1>4
  <2>3. QED
    BY <1>1, <1>2, <1>4, <2>1, <2>2, ExistsOrdered
<1>5. CASE HandshakeTimer(i, j)
  <2>1. Exists(i, j)
    BY <1>0, <1>5
    DEF HandshakeTimer, RetryTimer, ConfirmTimer, HoldingTimer, Pending, Match, Exists
  <2>2. QED
    BY <1>0, <1>4, <1>5, <2>1, TimeoutsSound
    DEF HandshakeTimer, RetryTimer, ConfirmTimer, HoldingTimer, Pending
<1>6. CASE BeaconTimer(i, j)
  <2> DEFINE r == BeaconLoss(l)
  <2>1. Fire(i, j, r) /\ Sound(i, j, r)
    BY <1>0, <1>6, TimeoutsSound DEF BeaconTimer, Pending
  <2>2. CASE Exists(i, j)
    BY <1>4, <2>1, <2>2
\* The loss of a link that is gone already.
  <2>3. CASE ~Exists(i, j)
    <3>1. r.link.state = "IDLE" /\ 1..Len(r.sent) = {}
      BY <1>0, <2>3
      DEF Exists, BeaconLoss, StateMachine, InIdle, Ignore, Result, Fired, Link
    <3> HIDE DEF r
    <3>2. Commit(i, j, r, air) /\ UNCHANGED lastLocalLinkId
      BY <2>1 DEF Fire
    <3>3. Fits(i, j, r, OwnId(i, j))
      BY <3>1 DEF Fits
    <3>4. IdsGrow
      <4>1. \A m \in MeshPoint : lastLocalLinkId[m] \in Nat
        BY <1>0 DEF TypeOK
      <4>2. QED
        BY <3>2, <4>1 DEF IdsGrow
    <3>5. QED
      BY <1>1, <1>2, <2>1, <3>2, <3>3, <3>4, FitsOrdered
  <2>4. QED
    BY <2>2, <2>3
<1>7. QED
  BY <1>5, <1>6

LEMMA InitOrdered ==
  Init => IdsInv
<1> SUFFICES ASSUME Init
             PROVE  IdsInv
  OBVIOUS
<1>1. \A i, j \in Iface : /\ links[i][j] = NoLink /\ air[i][j] = << >>
                          /\ confirmed[i][j] = {} /\ lastLocalLinkId[mp[j]] = 1
  BY NetworkAssumption DEF Init
<1>2. Told(NoLink, {}) = {0} /\ NoLink.state = "IDLE" /\ NoLink.state \notin Met
  BY DEF Told, NoLink, NewLink, Unknown, Met
<1>3. Ordered(NoLink, {}, << >>, NoLink, 1)
  BY <1>2 DEF Ordered, Given
<1>4. QED
  BY <1>1, <1>3 DEF IdsInv

-----------------------------------------------------------------------------
\* Whatever instances of a link were confirmed, lost, torn down and begun anew
\* before, two stations that both hold it established hold the same instance,
\* as long as link ids do not wrap around: OpenAccept and
\* ConfirmAccept leave no stale id behind.
THEOREM IdsAgreeCorrect == IdsLast => (Spec => []IdsAgree)
<1> SUFFICES ASSUME IdsLast
             PROVE  Spec => []IdsAgree
  OBVIOUS
<1>1. IInv /\ IInv' /\ IdsInv /\ [Next]_vars => IdsInv'
  <2> SUFFICES ASSUME IInv, IInv', IdsInv, [Next]_vars
               PROVE  IdsInv'
    OBVIOUS
  <2>1. CASE Next
    <3>1. PICK i, j \in Iface : \/ ReceiveBeacon(i, j)
                                \/ ReceivePeerLinkFrame(i, j)
                                \/ Transmit(i, j)
                                \/ HandshakeTimer(i, j)
                                \/ BeaconTimer(i, j)
      BY <2>1 DEF Next
    <3>2. QED
      BY <3>1, BeaconOrdered, FrameOrdered, TransmitOrdered, TimerOrdered
  <2>2. CASE UNCHANGED vars
    BY <2>2, UnmovedOrdered DEF vars
  <2>3. QED
    BY <2>1, <2>2
<1>2. IInv /\ IdsInv => IdsAgree
  <2> SUFFICES ASSUME IInv, IdsInv, NEW i \in Iface, NEW j \in Iface,
                      IsActiveLink(i, j), IsActiveLink(j, i)
               PROVE  links[i][j].peerId = links[j][i].localId
    BY DEF IdsAgree
  <2> DEFINE own == links[j][i].localId
  <2>1. PICK ids \in confirmed[i][j] : ids[2] = own
    BY DEF IInv, HandshakeInv, PeerConfirmed, IsActiveLink
  <2>2. /\ links[i][j].peerId \in Nat /\ own \in Nat
        /\ links[i][j].peerId \in Told(links[i][j], confirmed[i][j])
    BY InvTyped, ToldFacts DEF Typed, Link
  <2>3. own <= links[i][j].peerId
    BY <2>1 DEF IdsInv, Ordered, IsActiveLink, Met
  <2>4. links[i][j].peerId <= own
    BY <2>2 DEF IdsInv, Ordered, Given, IsActiveLink
  <2>5. QED
    BY <2>2, <2>3, <2>4
<1>3. QED
  BY <1>1, <1>2, InitOrdered, Invariance, PTL DEF Spec
=============================================================================
