------------------------ MODULE PeerManagement_proofs ------------------------
(***************************************************************************)
(* Proofs about PeerManagement, for every network, every bound and every   *)
(* value of the attributes.                                                *)
(*                                                                         *)
(* Every action but the data and the beacon refresh commits the result of  *)
(* one PeerLink method. The lemmas say what every such result satisfies    *)
(* (Sound), and what committing a sound result preserves.                  *)
(***************************************************************************)
EXTENDS PeerManagement, FiniteSetTheorems, SequenceTheorems, TLAPS

-----------------------------------------------------------------------------
(* The state machine of one link.                                          *)

\* The frames a link sends are frames.
LEMMA LinkFrames ==
  ASSUME NEW l \in Link
  PROVE  /\ OpenFrame(l) \in Frame
         /\ ConfirmFrame(l) \in Frame
         /\ CloseFrame(l) \in Frame
         /\ OpenFrame(l).type = "Open" /\ CloseFrame(l).type = "Close"
         /\ ConfirmFrame(l).type = "Confirm" /\ ConfirmFrame(l).local = l.localId
BY DEF OpenFrame, ConfirmFrame, CloseFrame, Frame, Link, Unknown

\* The timer whose expiry raises event e; it is no longer pending then.
Due(e) == CASE e \in {"TOR1", "TOR2"} -> {"retry"}
            [] e = "TOC"              -> {"confirm"}
            [] e = "TOH"              -> {"holding"}
            [] OTHER                  -> {}

\* What TimersMatch demands of the timers T of a link in state s.
Match(s, T) ==
  /\ "retry" \in T <=> s \in {"OPN_SNT", "OPN_RCVD"}
  /\ "confirm" \in T <=> s = "CNF_RCVD"
  /\ "holding" \in T <=> s = "HOLDING"

\* The timers are right when the handler of event e starts.
Before(l, e) == Match(l.state, l.timers \cup Due(e)) /\ Due(e) \cap l.timers = {}

\* What the state machine may return for event e on link l: a link of the same
\* instance; Confirms of that instance only, and only for an Open; OPN_RCVD and
\* ESTAB are only entered with a Confirm, CNF_RCVD and ESTAB only on a Confirm,
\* unless the link was past that point already.
Proper(l, e, r) ==
  /\ r.link \in Link
  /\ r.link.localId = l.localId
  /\ r.sent \in Seq(Frame)
  /\ \A k \in 1..Len(r.sent) :
       r.sent[k].type = "Confirm" => e = "OPN_ACPT" /\ r.sent[k].local = l.localId
  /\ r.link.state \in {"OPN_RCVD", "ESTAB"} =>
       \/ l.state \in {"OPN_RCVD", "ESTAB"}
       \/ \E k \in 1..Len(r.sent) : r.sent[k].type = "Confirm"
  /\ r.link.state \in {"CNF_RCVD", "ESTAB"} =>
       l.state \in {"CNF_RCVD", "ESTAB"} \/ e = "CNF_ACPT"
  /\ Before(l, e) => Match(r.link.state, r.link.timers)

\* A transition to state s is proper if its frames are and its timers match.
LEMMA GoProper ==
  ASSUME NEW l \in Link, NEW e \in Events,
         NEW s \in States, NEW told, NEW off, NEW on \in SUBSET Timers,
         NEW frames \in Seq(Frame),
         \A k \in 1..Len(frames) :
           frames[k].type = "Confirm" => e = "OPN_ACPT" /\ frames[k].local = l.localId,
         s \in {"OPN_RCVD", "ESTAB"} =>
           \/ l.state \in {"OPN_RCVD", "ESTAB"}
           \/ \E k \in 1..Len(frames) : frames[k].type = "Confirm",
         s \in {"CNF_RCVD", "ESTAB"} => l.state \in {"CNF_RCVD", "ESTAB"} \/ e = "CNF_ACPT",
         Before(l, e) => Match(s, (l.timers \ off) \cup on)
  PROVE  Proper(l, e, Go(l, s, told, off, on, frames))
<1> DEFINE r == Go(l, s, told, off, on, frames)
<1>1. r.link \in Link
  BY DEF Go, Result, Link
<1>2. /\ r.link.state = s
      /\ r.link.localId = l.localId
      /\ r.link.timers = (l.timers \ off) \cup on
      /\ r.sent = frames
  BY DEF Go, Result, Link
<1>3. QED
  BY <1>1, <1>2 DEF Proper

\* An event that leaves the link alone.
LEMMA StayProper ==
  ASSUME NEW l \in Link, NEW e \in Events,
         NEW told, NEW frames \in Seq(Frame),
         \A k \in 1..Len(frames) :
           frames[k].type = "Confirm" => e = "OPN_ACPT" /\ frames[k].local = l.localId,
         Before(l, e) => Match(l.state, l.timers)
  PROVE  Proper(l, e, Result(l, told, frames))
<1>1. Result(l, told, frames).link = l /\ Result(l, told, frames).sent = frames
  BY DEF Result
<1>2. QED
  BY <1>1 DEF Proper

\* The sequences of frames that the transitions send: those without a Confirm,
\* and those that answer an Open.
Plain(l) == {<< >>, <<OpenFrame(l)>>, <<CloseFrame(l)>>}
Answer(l) == {<<ConfirmFrame(l)>>, <<ConfirmFrame(l), OpenFrame(l)>>}

LEMMA FrameSequences ==
  ASSUME NEW l \in Link
  PROVE  /\ \A frames \in Plain(l) :
              /\ frames \in Seq(Frame)
              /\ \A k \in 1..Len(frames) : frames[k].type # "Confirm"
         /\ \A frames \in Answer(l) :
              /\ frames \in Seq(Frame)
              /\ 1 \in 1..Len(frames) /\ frames[1].type = "Confirm"
              /\ \A k \in 1..Len(frames) :
                   frames[k].type = "Confirm" => frames[k].local = l.localId
<1>1. ASSUME NEW frames \in Plain(l)
      PROVE  /\ frames \in Seq(Frame)
             /\ \A k \in 1..Len(frames) : frames[k].type # "Confirm"
  <2>1. CASE frames = << >>
    BY <2>1
  <2>2. CASE frames = <<OpenFrame(l)>>
    BY <2>2, LinkFrames
  <2>3. CASE frames = <<CloseFrame(l)>>
    BY <2>3, LinkFrames
  <2>4. QED
    BY <2>1, <2>2, <2>3 DEF Plain
<1>2. ASSUME NEW frames \in Answer(l)
      PROVE  /\ frames \in Seq(Frame)
             /\ 1 \in 1..Len(frames) /\ frames[1].type = "Confirm"
             /\ \A k \in 1..Len(frames) :
                  frames[k].type = "Confirm" => frames[k].local = l.localId
  <2>1. CASE frames = <<ConfirmFrame(l)>>
    BY <2>1, LinkFrames
  <2>2. CASE frames = <<ConfirmFrame(l), OpenFrame(l)>>
    BY <2>2, LinkFrames
  <2>3. QED
    BY <2>1, <2>2 DEF Answer
<1>3. QED
  BY <1>1, <1>2

\* A transition that sends no Confirm.
LEMMA PlainGo ==
  ASSUME NEW l \in Link, NEW e \in Events,
         NEW s \in States, NEW told, NEW off, NEW on \in SUBSET Timers,
         NEW frames \in Plain(l),
         s \in {"OPN_RCVD", "ESTAB"} => l.state \in {"OPN_RCVD", "ESTAB"},
         s \in {"CNF_RCVD", "ESTAB"} => l.state \in {"CNF_RCVD", "ESTAB"} \/ e = "CNF_ACPT",
         Before(l, e) => Match(s, (l.timers \ off) \cup on)
  PROVE  Proper(l, e, Go(l, s, told, off, on, frames))
<1>1. frames \in Seq(Frame) /\ \A k \in 1..Len(frames) : frames[k].type # "Confirm"
  BY FrameSequences
<1>2. QED
  BY <1>1, GoProper

\* A transition that answers an Open.
LEMMA AnswerGo ==
  ASSUME NEW l \in Link,
         NEW s \in States, NEW told, NEW off, NEW on \in SUBSET Timers,
         NEW frames \in Answer(l),
         s \in {"CNF_RCVD", "ESTAB"} => l.state \in {"CNF_RCVD", "ESTAB"},
         Before(l, "OPN_ACPT") => Match(s, (l.timers \ off) \cup on)
  PROVE  Proper(l, "OPN_ACPT", Go(l, s, told, off, on, frames))
<1>1. /\ frames \in Seq(Frame)
      /\ 1 \in 1..Len(frames) /\ frames[1].type = "Confirm"
      /\ \A k \in 1..Len(frames) :
           frames[k].type = "Confirm" => frames[k].local = l.localId
  BY FrameSequences
<1>2. "OPN_ACPT" \in Events
  BY DEF Events
<1>3. QED
  BY <1>1, <1>2, GoProper

\* An event that leaves the link alone.
LEMMA PlainStay ==
  ASSUME NEW l \in Link, NEW e \in Events, NEW told, NEW frames \in Plain(l),
         Before(l, e) => Match(l.state, l.timers)
  PROVE  Proper(l, e, Result(l, told, frames))
<1>1. frames \in Seq(Frame) /\ \A k \in 1..Len(frames) : frames[k].type # "Confirm"
  BY FrameSequences
<1>2. QED
  BY <1>1, StayProper

LEMMA IgnoreProper ==
  ASSUME NEW l \in Link, NEW e \in Events,
         Before(l, e) => Match(l.state, l.timers)
  PROVE  Proper(l, e, Ignore(l))
<1>1. << >> \in Plain(l)
  BY DEF Plain
<1>2. QED
  BY <1>1, PlainStay DEF Ignore

\* Giving up a link is proper.
LEMMA HoldProper ==
  ASSUME NEW l \in Link, NEW e \in Events, NEW ostate, NEW off,
         Before(l, e) =>
           Match("HOLDING", (l.timers \ off) \cup {"holding"})
  PROVE  Proper(l, e, Hold(l, ostate, off))
<1>1. /\ "HOLDING" \in States /\ {"holding"} \in SUBSET Timers
      /\ <<CloseFrame(l)>> \in Plain(l)
  BY DEF States, Timers, Plain
<1>2. QED
  BY <1>1, PlainGo DEF Hold

\* Sending the Open again is proper.
LEMMA RetryProper ==
  ASSUME NEW l \in Link, l.retries < MaxRetries,
         l.state \in {"OPN_SNT", "OPN_RCVD"}
  PROVE  Proper(l, "TOR1", Retry(l))
<1> DEFINE m == [l EXCEPT !.retries = @ + 1]
           r == Go(m, l.state, Silence, {}, {"retry"}, <<OpenFrame(l)>>)
<1>2. l.retries + 1 \in 0..MaxRetries
  BY MaxRetriesAssumption DEF Link
<1>3. m \in Link /\ m.localId = l.localId /\ m.state = l.state /\ m.timers = l.timers
  BY <1>2 DEF Link
<1>4. "TOR1" \in Events /\ {"retry"} \in SUBSET Timers /\ l.state \in States
  BY DEF Events, Timers, Link
<1>5. Before(m, "TOR1") =>
        Match(l.state, (m.timers \ {}) \cup {"retry"})
  BY <1>3 DEF Before, Match, Due
<1>6. <<OpenFrame(l)>> \in Plain(m)
  BY <1>3 DEF Plain, OpenFrame
<1>7. Proper(m, "TOR1", r)
  <2> HIDE DEF m
  <2> QED  BY <1>3, <1>4, <1>5, <1>6, PlainGo
<1>8. Proper(l, "TOR1", r)
  <2> HIDE DEF m, r
  <2> QED  BY <1>3, <1>7 DEF Proper, Before
<1>9. QED
  BY <1>8 DEF Retry

-----------------------------------------------------------------------------
(* Every transition of the state machine is proper.                        *)

LEMMA IdleProper ==
  ASSUME NEW l \in Link, NEW e \in Events, l.state = "IDLE"
  PROVE  Proper(l, e, InIdle(l, e))
<1>0. /\ {"OPN_SNT", "OPN_RCVD"} \subseteq States /\ {"retry"} \in SUBSET Timers
      /\ {<<OpenFrame(l)>>, <<CloseFrame(l)>>} \subseteq Plain(l)
      /\ <<ConfirmFrame(l), OpenFrame(l)>> \in Answer(l)
  BY DEF States, Timers, Plain, Answer
<1>1. CASE e = "ACTOPN"
  <2>1. Before(l, e) =>
          Match("OPN_SNT", (l.timers \ {}) \cup {"retry"})
    BY <1>1 DEF Before, Match, Due
  <2>2. QED
    BY <1>0, <1>1, <2>1, PlainGo DEF InIdle
<1>2. CASE e = "OPN_ACPT"
  <2>1. Before(l, e) =>
          Match("OPN_RCVD", (l.timers \ {}) \cup {"retry"})
    BY <1>2 DEF Before, Match, Due
  <2>2. QED
    BY <1>0, <1>2, <2>1, AnswerGo DEF InIdle
<1>3. CASE e \notin {"ACTOPN", "OPN_ACPT"}
  <2>1. Before(l, e) => Match(l.state, l.timers)
    BY <1>3 DEF Before, Match, Due
  <2>2. CASE e \in {"CNCL", "CLS_ACPT"}
    <3>1. << >> \in Plain(l) /\ InIdle(l, e) = Result(l, <<"IDLE", "IDLE">>, << >>)
      BY <2>2 DEF Plain, InIdle
    <3>2. QED
      BY <2>1, <3>1, PlainStay
  <2>3. CASE e \notin {"CNCL", "CLS_ACPT"}
    BY <1>0, <1>3, <2>1, <2>3, IgnoreProper, PlainStay DEF InIdle
  <2>4. QED
    BY <2>2, <2>3
<1>4. QED
  BY <1>1, <1>2, <1>3

LEMMA OpnSntProper ==
  ASSUME NEW l \in Link, NEW e \in Events, l.state = "OPN_SNT",
         e = "TOR1" => l.retries < MaxRetries
  PROVE  Proper(l, e, InOpnSnt(l, e))
<1>0. /\ {"CNF_RCVD", "OPN_RCVD"} \subseteq States
      /\ {{}, {"confirm"}} \subseteq SUBSET Timers
      /\ << >> \in Plain(l) /\ <<ConfirmFrame(l)>> \in Answer(l)
  BY DEF States, Timers, Plain, Answer
<1>1. CASE e = "TOR1"
  BY <1>1, RetryProper DEF InOpnSnt, Ending
<1>2. CASE e = "CNF_ACPT"
  <2>1. Before(l, e) =>
          Match("CNF_RCVD", (l.timers \ {"retry"}) \cup {"confirm"})
    BY <1>2 DEF Before, Match, Due
  <2>2. QED
    BY <1>0, <1>2, <2>1, PlainGo DEF InOpnSnt, Ending
<1>3. CASE e = "OPN_ACPT"
  <2>1. Before(l, e) =>
          Match("OPN_RCVD", (l.timers \ {}) \cup {})
    BY <1>3 DEF Before, Match, Due
  <2>2. QED
    BY <1>0, <1>3, <2>1, AnswerGo DEF InOpnSnt, Ending
<1>4. CASE e \in Ending \cup {"TOR2"}
  <2>1. Before(l, e) =>
          Match("HOLDING", (l.timers \ {"retry"}) \cup {"holding"})
    BY <1>4 DEF Before, Match, Due, Ending
  <2>2. e \notin {"TOR1", "CNF_ACPT", "OPN_ACPT"}
    BY <1>4 DEF Ending
  <2>3. QED
    BY <1>4, <2>1, <2>2, HoldProper DEF InOpnSnt, Ending
<1>5. CASE e \notin Ending \cup {"TOR1", "TOR2", "CNF_ACPT", "OPN_ACPT"}
  <2>1. Before(l, e) => Match(l.state, l.timers)
    BY <1>5 DEF Before, Match, Due
  <2>2. QED
    BY <1>5, <2>1, IgnoreProper DEF InOpnSnt, Ending
<1>6. QED
  BY <1>1, <1>2, <1>3, <1>4, <1>5

LEMMA CnfRcvdProper ==
  ASSUME NEW l \in Link, NEW e \in Events, l.state = "CNF_RCVD"
  PROVE  Proper(l, e, InCnfRcvd(l, e))
<1>0. /\ "ESTAB" \in States /\ {} \in SUBSET Timers
      /\ <<ConfirmFrame(l)>> \in Answer(l)
  BY DEF States, Timers, Answer
<1>1. CASE e = "OPN_ACPT"
  <2>1. Before(l, e) =>
          Match("ESTAB", (l.timers \ {"confirm"}) \cup {})
    BY <1>1 DEF Before, Match, Due
  <2>2. QED
    BY <1>0, <1>1, <2>1, AnswerGo DEF InCnfRcvd, Ending
<1>2. CASE e \in Ending
  <2>1. Before(l, e) =>
          Match("HOLDING", (l.timers \ {"confirm"}) \cup {"holding"})
    BY <1>2 DEF Before, Match, Due, Ending
  <2>2. e \notin {"OPN_ACPT", "TOC"}
    BY <1>2 DEF Ending
  <2>3. QED
    BY <1>2, <2>1, <2>2, HoldProper DEF InCnfRcvd, Ending
<1>3. CASE e = "TOC"
  <2>1. Before(l, e) =>
          Match("HOLDING", (l.timers \ {}) \cup {"holding"})
    BY <1>3 DEF Before, Match, Due
  <2>2. e \notin Ending \cup {"OPN_ACPT"}
    BY <1>3 DEF Ending
  <2>3. QED
    BY <1>3, <2>1, <2>2, HoldProper DEF InCnfRcvd, Ending
<1>4. CASE e \notin Ending \cup {"OPN_ACPT", "TOC"}
  <2>1. Before(l, e) => Match(l.state, l.timers)
    BY <1>4 DEF Before, Match, Due
  <2>2. QED
    BY <1>4, <2>1, IgnoreProper DEF InCnfRcvd, Ending
<1>5. QED
  BY <1>1, <1>2, <1>3, <1>4

LEMMA OpnRcvdProper ==
  ASSUME NEW l \in Link, NEW e \in Events, l.state = "OPN_RCVD",
         e = "TOR1" => l.retries < MaxRetries
  PROVE  Proper(l, e, InOpnRcvd(l, e))
<1>0. "ESTAB" \in States /\ {} \in SUBSET Timers /\ << >> \in Plain(l)
  BY DEF States, Timers, Plain
<1>1. CASE e = "TOR1"
  BY <1>1, RetryProper DEF InOpnRcvd, Ending
<1>2. CASE e = "CNF_ACPT"
  <2>1. Before(l, e) =>
          Match("ESTAB", (l.timers \ {"retry"}) \cup {})
    BY <1>2 DEF Before, Match, Due
  <2>2. QED
    BY <1>0, <1>2, <2>1, PlainGo DEF InOpnRcvd, Ending
<1>3. CASE e \in Ending \cup {"TOR2"}
  <2>1. Before(l, e) =>
          Match("HOLDING", (l.timers \ {"retry"}) \cup {"holding"})
    BY <1>3 DEF Before, Match, Due, Ending
  <2>2. e \notin {"TOR1", "CNF_ACPT"}
    BY <1>3 DEF Ending
  <2>3. QED
    BY <1>3, <2>1, <2>2, HoldProper DEF InOpnRcvd, Ending
<1>4. CASE e \notin Ending \cup {"TOR1", "TOR2", "CNF_ACPT"}
  <2>1. Before(l, e) => Match(l.state, l.timers)
    BY <1>4 DEF Before, Match, Due
  <2>2. QED
    BY <1>4, <2>1, IgnoreProper DEF InOpnRcvd, Ending
<1>5. QED
  BY <1>1, <1>2, <1>3, <1>4

LEMMA EstabProper ==
  ASSUME NEW l \in Link, NEW e \in Events, l.state = "ESTAB"
  PROVE  Proper(l, e, InEstab(l, e))
<1>1. CASE e = "OPN_ACPT"
  <2>1. Before(l, e) => Match(l.state, l.timers)
    BY <1>1 DEF Before, Match, Due
  <2>2. <<ConfirmFrame(l)>> \in Answer(l)
    BY DEF Answer
  <2>3. /\ <<ConfirmFrame(l)>> \in Seq(Frame)
        /\ \A k \in 1..Len(<<ConfirmFrame(l)>>) :
             <<ConfirmFrame(l)>>[k].type = "Confirm" =>
               <<ConfirmFrame(l)>>[k].local = l.localId
    BY <2>2, FrameSequences
  <2>4. QED
    BY <1>1, <2>1, <2>3, StayProper DEF InEstab
<1>2. CASE e \in {"OPN_RJCT", "CNF_RJCT"}
  <2>1. Before(l, e) =>
          Match("HOLDING", (l.timers \ {"retry"}) \cup {"holding"})
    BY <1>2 DEF Before, Match, Due
  <2>2. QED
    BY <1>2, <2>1, HoldProper DEF InEstab
<1>3. CASE e \in {"CLS_ACPT", "CNCL"}
  <2>1. Before(l, e) =>
          Match("HOLDING", (l.timers \ {}) \cup {"holding"})
    BY <1>3 DEF Before, Match, Due
  <2>2. QED
    BY <1>3, <2>1, HoldProper DEF InEstab
<1>4. CASE e \notin Ending \cup {"OPN_ACPT"}
  <2>1. Before(l, e) => Match(l.state, l.timers)
    BY <1>4 DEF Before, Match, Due
  <2>2. QED
    BY <1>4, <2>1, IgnoreProper DEF InEstab, Ending
<1>5. QED
  BY <1>1, <1>2, <1>3, <1>4 DEF Ending

LEMMA HoldingProper ==
  ASSUME NEW l \in Link, NEW e \in Events, l.state = "HOLDING"
  PROVE  Proper(l, e, InHolding(l, e))
<1>0. /\ "IDLE" \in States /\ {} \in SUBSET Timers
      /\ {<< >>, <<CloseFrame(l)>>} \subseteq Plain(l)
  BY DEF States, Timers, Plain
<1>1. CASE e = "CLS_ACPT"
  <2>1. Before(l, e) =>
          Match("IDLE", (l.timers \ {"holding"}) \cup {})
    BY <1>1 DEF Before, Match, Due
  <2>2. QED
    BY <1>0, <1>1, <2>1, PlainGo DEF InHolding
<1>2. CASE e = "TOH"
  <2>1. Before(l, e) =>
          Match("IDLE", (l.timers \ {}) \cup {})
    BY <1>2 DEF Before, Match, Due
  <2>2. QED
    BY <1>0, <1>2, <2>1, PlainGo DEF InHolding
<1>3. CASE e \notin {"CLS_ACPT", "TOH"}
  <2>1. Before(l, e) => Match(l.state, l.timers)
    BY <1>3 DEF Before, Match, Due
  <2>2. QED
    BY <1>0, <1>3, <2>1, PlainStay, IgnoreProper DEF InHolding
<1>4. QED
  BY <1>1, <1>2, <1>3

LEMMA StateMachineProper ==
  ASSUME NEW l \in Link, NEW e \in Events, e = "TOR1" => l.retries < MaxRetries
  PROVE  Proper(l, e, StateMachine(l, e))
<1>1. l.state \in States
  BY DEF Link
<1>2. QED
  BY <1>1, IdleProper, OpnSntProper, CnfRcvdProper, OpnRcvdProper, EstabProper,
     HoldingProper DEF StateMachine, States

\* What the result r of a call on a link that was in state s tells of it is true:
\* the old and the new state, or nothing if the state is the same.
Truthful(s, r) ==
  \/ r.told = <<s, r.link.state>>
  \/ r.told = Silence /\ r.link.state = s

\* Each pair that StateMachine reports is the move it made.
LEMMA StateMachineTruthful ==
  ASSUME NEW l \in Link, NEW e
  PROVE  Truthful(l.state, StateMachine(l, e))
<1>1. l.state \in States
  BY DEF Link
<1>2. Truthful(l.state, Ignore(l))
  BY DEF Truthful, Ignore, Result
<1>3. \A told, frames :
        told \in {<<l.state, l.state>>, Silence} =>
          Truthful(l.state, Result(l, told, frames))
  BY DEF Truthful, Result
<1>4. \A t, off, on, frames : Truthful(l.state, Go(l, t, <<l.state, t>>, off, on, frames))
  BY DEF Truthful, Go, Result, Link
<1>5. \A off : Truthful(l.state, Hold(l, l.state, off))
  BY <1>4 DEF Hold
<1>6. Truthful(l.state, Retry(l))
  BY DEF Truthful, Retry, Go, Result, Link
<1>7. CASE l.state = "IDLE"
  BY <1>2, <1>3, <1>4, <1>7 DEF StateMachine, InIdle
<1>8. CASE l.state = "OPN_SNT"
  BY <1>2, <1>4, <1>5, <1>6, <1>8 DEF StateMachine, InOpnSnt
<1>9. CASE l.state = "CNF_RCVD"
  BY <1>2, <1>4, <1>5, <1>9 DEF StateMachine, InCnfRcvd
<1>10. CASE l.state = "OPN_RCVD"
  BY <1>2, <1>4, <1>5, <1>6, <1>10 DEF StateMachine, InOpnRcvd
<1>11. CASE l.state = "ESTAB"
  BY <1>2, <1>3, <1>5, <1>11 DEF StateMachine, InEstab
<1>12. CASE l.state = "HOLDING"
  BY <1>2, <1>3, <1>4, <1>12 DEF StateMachine, InHolding
<1>13. QED
  BY <1>1, <1>7, <1>8, <1>9, <1>10, <1>11, <1>12 DEF States

\* So is what the methods report: before StateMachine they leave the state alone.
LEMMA MethodsTruthful ==
  ASSUME NEW l \in Link, NEW local \in Nat, NEW peer
  PROVE  /\ Truthful(l.state, StateMachine(l, "CNCL"))
         /\ Truthful(l.state, OpenAccept(l, local))
         /\ Truthful(l.state, OpenReject(l, local))
         /\ Truthful(l.state, ConfirmAccept(l, local, peer))
         /\ Truthful(l.state, Close(l, local, peer))
         /\ Truthful(l.state, TransmissionSuccess(l))
         /\ Truthful(l.state, TransmissionFailure(l))
         /\ Truthful(l.state, RetryTimeout(l))
         /\ Truthful(l.state, ConfirmTimeout(l))
         /\ Truthful(l.state, HoldingTimeout(l))
         /\ Truthful(l.state, BeaconLoss(l))
<1>1. ASSUME NEW m \in Link, m.state = l.state, NEW e
      PROVE  Truthful(l.state, StateMachine(m, e))
  BY <1>1, StateMachineTruthful
<1>2. \A m : m.state = l.state => Truthful(l.state, Ignore(m))
  BY DEF Truthful, Ignore, Result
<1>3. /\ [l EXCEPT !.peerId = local] \in Link
      /\ [l EXCEPT !.peerId = local].state = l.state
      /\ Learn(l, local) \in Link /\ Learn(l, local).state = l.state
  BY DEF Learn, Link
<1>4. /\ [l EXCEPT !.fails = 0] \in Link /\ [l EXCEPT !.fails = 0].state = l.state
      /\ [l EXCEPT !.fails = @ + 1].state = l.state
  BY MaxPacketFailureAssumption DEF Link
<1>5. \A t : Fired(l, t) \in Link /\ Fired(l, t).state = l.state
  BY DEF Fired, Link
<1>6. /\ Truthful(l.state, StateMachine(l, "CNCL"))
      /\ Truthful(l.state, OpenAccept(l, local))
      /\ Truthful(l.state, OpenReject(l, local))
  BY <1>1, <1>3 DEF OpenAccept, OpenReject
<1>7. /\ Truthful(l.state, ConfirmAccept(l, local, peer))
      /\ Truthful(l.state, Close(l, local, peer))
  BY <1>1, <1>2, <1>3 DEF ConfirmAccept, Close
<1>8. /\ Truthful(l.state, TransmissionSuccess(l))
      /\ Truthful(l.state, TransmissionFailure(l))
  BY <1>1, <1>2, <1>4 DEF TransmissionSuccess, TransmissionFailure
<1>9. /\ Truthful(l.state, RetryTimeout(l))
      /\ Truthful(l.state, ConfirmTimeout(l))
      /\ Truthful(l.state, HoldingTimeout(l))
      /\ Truthful(l.state, BeaconLoss(l))
  BY <1>1, <1>5 DEF RetryTimeout, ConfirmTimeout, HoldingTimeout, BeaconLoss
<1>10. QED
  BY <1>6, <1>7, <1>8, <1>9

-----------------------------------------------------------------------------
(* From one link to the network.                                           *)

\* What the invariant says of the link l that i keeps for j, timers aside.
Progress(i, j, l) ==
  /\ l.state \in {"CNF_RCVD", "ESTAB"} => PeerConfirmed(i, j, l)
  /\ l.state \in {"OPN_RCVD", "ESTAB"} => HasConfirmed(l, confirmed[i][j])

\* What the result of a method on that link must satisfy to be committed.
Sound(i, j, r) ==
  /\ r.link \in Link
  /\ r.sent \in Seq(Frame)
  /\ Match(r.link.state, r.link.timers)
  /\ \A k \in 1..Len(r.sent) :
       r.sent[k].type = "Confirm" =>
         r.sent[k].local = r.link.localId /\ <<i, j>> \in Compatible
  /\ r.link.state \in {"CNF_RCVD", "ESTAB"} => PeerConfirmed(i, j, r.link)
  /\ r.link.state \in {"OPN_RCVD", "ESTAB"} =>
       \/ HasConfirmed(r.link, confirmed[i][j])
       \/ \E k \in 1..Len(r.sent) : r.sent[k].type = "Confirm"

LEMMA StateMachineSound ==
  ASSUME NEW i \in Iface, NEW j \in Iface, NEW l \in Link, NEW e \in Events,
         e = "TOR1" => l.retries < MaxRetries,
         Progress(i, j, l), Before(l, e),
         e = "CNF_ACPT" => PeerConfirmed(i, j, l),
         e = "OPN_ACPT" => <<i, j>> \in Compatible
  PROVE  Sound(i, j, StateMachine(l, e))
<1> DEFINE r == StateMachine(l, e)
<1>1. Proper(l, e, r)
  BY StateMachineProper
<1>2. PeerConfirmed(i, j, l) => PeerConfirmed(i, j, r.link)
  BY <1>1 DEF Proper, PeerConfirmed
<1>3. HasConfirmed(l, confirmed[i][j]) => HasConfirmed(r.link, confirmed[i][j])
  BY <1>1 DEF Proper, HasConfirmed
<1>4. Match(r.link.state, r.link.timers)
  BY <1>1 DEF Proper
<1>5. Sound(i, j, r)
  <2> HIDE DEF r
  <2> QED  BY <1>1, <1>2, <1>3, <1>4 DEF Proper, Progress, Sound
<1>6. QED
  BY <1>5

\* An event no timer raises.
LEMMA NotDue ==
  ASSUME NEW l \in Link, NEW e \in Events \ {"TOR1", "TOR2", "TOC", "TOH"},
         Match(l.state, l.timers)
  PROVE  Before(l, e)
BY DEF Before, Due, Match

\* Changing the peer id or the failure counter changes nothing the invariant
\* looks at.
LEMMA SameProgress ==
  ASSUME NEW i \in Iface, NEW j \in Iface, NEW l \in Link, NEW m \in Link,
         m.state = l.state, m.localId = l.localId, Progress(i, j, l)
  PROVE  Progress(i, j, m)
BY DEF Progress, PeerConfirmed, HasConfirmed

LEMMA IgnoreSound ==
  ASSUME NEW i \in Iface, NEW j \in Iface, NEW l \in Link,
         Progress(i, j, l), Match(l.state, l.timers)
  PROVE  Sound(i, j, Ignore(l))
<1>1. << >> \in Seq(Frame) /\ 1..Len(<< >>) = {}
  OBVIOUS
<1>2. Ignore(l).link = l /\ Ignore(l).sent = << >>
  BY DEF Ignore, Result
<1>3. QED
  BY <1>1, <1>2 DEF Sound, Progress

-----------------------------------------------------------------------------
(* The methods are sound.                                                  *)

LEMMA LearnFacts ==
  ASSUME NEW l \in Link, NEW local \in Nat
  PROVE  /\ Learn(l, local) \in Link
         /\ Learn(l, local).state = l.state
         /\ Learn(l, local).localId = l.localId
         /\ Learn(l, local).timers = l.timers
BY DEF Learn, Link

\* After it has learnt the peer's id, a link is as ready for an event as before.
LEMMA LearnSound ==
  ASSUME NEW i \in Iface, NEW j \in Iface, NEW l \in Link, NEW local \in Nat,
         NEW e \in {"CNF_ACPT", "CLS_ACPT"},
         Progress(i, j, l), Match(l.state, l.timers),
         e = "CNF_ACPT" => PeerConfirmed(i, j, Learn(l, local))
  PROVE  Sound(i, j, StateMachine(Learn(l, local), e))
<1>1. e \in Events \ {"TOR1", "TOR2", "TOC", "TOH"} /\ e \notin {"TOR1", "OPN_ACPT"}
  BY DEF Events
<1>2. /\ Learn(l, local) \in Link
      /\ Match(Learn(l, local).state, Learn(l, local).timers)
  BY LearnFacts
<1>3. Before(Learn(l, local), e)
  BY <1>1, <1>2, NotDue
<1>4. Progress(i, j, Learn(l, local))
  BY LearnFacts, SameProgress
<1>5. QED
  BY <1>1, <1>2, <1>3, <1>4, StateMachineSound

LEMMA OpenAcceptSound ==
  ASSUME NEW i \in Iface, NEW j \in Iface, NEW l \in Link, NEW local \in Nat,
         Progress(i, j, l), Match(l.state, l.timers), <<i, j>> \in Compatible
  PROVE  Sound(i, j, OpenAccept(l, local))
<1> DEFINE m == [l EXCEPT !.peerId = local]
<1>1. /\ m \in Link /\ m.state = l.state /\ m.localId = l.localId
      /\ m.timers = l.timers
  BY DEF Link
<1>2. "OPN_ACPT" \in Events
  BY DEF Events
<1>3. Sound(i, j, StateMachine(m, "OPN_ACPT"))
  <2> HIDE DEF m
  <2> QED  BY <1>1, <1>2, StateMachineSound, SameProgress, NotDue
<1>4. QED
  BY <1>3 DEF OpenAccept

LEMMA OpenRejectSound ==
  ASSUME NEW i \in Iface, NEW j \in Iface, NEW l \in Link, NEW local \in Nat,
         Progress(i, j, l), Match(l.state, l.timers)
  PROVE  Sound(i, j, OpenReject(l, local))
<1>1. "OPN_RJCT" \in Events
  BY DEF Events
<1>2. QED
  BY <1>1, LearnFacts, StateMachineSound, SameProgress, NotDue DEF OpenReject

LEMMA ConfirmAcceptSound ==
  ASSUME NEW i \in Iface, NEW j \in Iface, NEW l \in Link,
         NEW local \in Nat, NEW peer \in Nat,
         Progress(i, j, l), Match(l.state, l.timers),
         <<local, peer>> \in confirmed[j][i]
  PROVE  Sound(i, j, ConfirmAccept(l, local, peer))
<1>1. CASE l.localId = peer /\ l.peerId \in {Unknown, local}
  <2>1. PeerConfirmed(i, j, Learn(l, local))
    <3>1. <<local, peer>>[2] = Learn(l, local).localId
      BY <1>1, LearnFacts
    <3>2. QED
      BY <3>1 DEF PeerConfirmed
  <2>2. Sound(i, j, StateMachine(Learn(l, local), "CNF_ACPT"))
    BY <2>1, LearnSound
  <2>3. QED
    BY <1>1, <2>2 DEF ConfirmAccept
<1>2. CASE ~(l.localId = peer /\ l.peerId \in {Unknown, local})
  BY <1>2, IgnoreSound DEF ConfirmAccept
<1>3. QED
  BY <1>1, <1>2

LEMMA CloseSound ==
  ASSUME NEW i \in Iface, NEW j \in Iface, NEW l \in Link,
         NEW local \in Nat, NEW peer \in Nat,
         Progress(i, j, l), Match(l.state, l.timers)
  PROVE  Sound(i, j, Close(l, local, peer))
<1>1. Sound(i, j, StateMachine(Learn(l, local), "CLS_ACPT"))
  BY LearnSound
<1>2. QED
  BY <1>1, IgnoreSound DEF Close

LEMMA CancelSound ==
  ASSUME NEW i \in Iface, NEW j \in Iface, NEW l \in Link,
         Progress(i, j, l), Match(l.state, l.timers)
  PROVE  Sound(i, j, StateMachine(l, "CNCL"))
<1>1. "CNCL" \in Events
  BY DEF Events
<1>2. Before(l, "CNCL")
  BY <1>1, NotDue
<1>3. QED
  BY <1>1, <1>2, StateMachineSound

LEMMA TransmissionSound ==
  ASSUME NEW i \in Iface, NEW j \in Iface, NEW l \in Link,
         Progress(i, j, l), Match(l.state, l.timers)
  PROVE  /\ Sound(i, j, TransmissionSuccess(l))
         /\ Sound(i, j, TransmissionFailure(l))
<1> DEFINE zero == [l EXCEPT !.fails = 0]
           more == [l EXCEPT !.fails = @ + 1]
<1>1. /\ zero \in Link /\ zero.state = l.state /\ zero.localId = l.localId
      /\ zero.timers = l.timers
  BY MaxPacketFailureAssumption DEF Link
<1>2. Sound(i, j, Ignore(zero)) /\ Sound(i, j, StateMachine(zero, "CNCL"))
  <2> HIDE DEF zero
  <2> QED  BY <1>1, IgnoreSound, CancelSound, SameProgress
<1>3. ASSUME l.fails + 1 # MaxPacketFailure
      PROVE  Sound(i, j, Ignore(more))
  <2>1. l.fails + 1 \in 0..(MaxPacketFailure - 1)
    BY <1>3, MaxPacketFailureAssumption DEF Link
  <2>2. /\ more \in Link /\ more.state = l.state /\ more.localId = l.localId
        /\ more.timers = l.timers
    BY <2>1 DEF Link
  <2> HIDE DEF more
  <2>3. QED
    BY <2>2, IgnoreSound, SameProgress
<1>4. QED
  BY <1>2, <1>3 DEF TransmissionSuccess, TransmissionFailure

\* A timer event, once its timer has fired.
LEMMA TimerSound ==
  ASSUME NEW i \in Iface, NEW j \in Iface, NEW l \in Link,
         NEW e \in {"TOR1", "TOR2", "TOC", "TOH"}, NEW t \in l.timers,
         Due(e) = {t}, e = "TOR1" => l.retries < MaxRetries,
         Progress(i, j, l), Match(l.state, l.timers)
  PROVE  Sound(i, j, StateMachine(Fired(l, t), e))
<1> DEFINE m == Fired(l, t)
<1>1. /\ m \in Link /\ m.state = l.state /\ m.localId = l.localId
      /\ m.retries = l.retries /\ m.timers = l.timers \ {t}
  BY DEF Fired, Link
<1>2. m.timers \cup {t} = l.timers /\ {t} \cap m.timers = {}
  BY <1>1
<1>3. Before(m, e)
  BY <1>1, <1>2 DEF Before
<1>4. e \in Events /\ e # "CNF_ACPT" /\ e # "OPN_ACPT"
  BY DEF Events
<1>5. Progress(i, j, m)
  <2> HIDE DEF m
  <2> QED  BY <1>1, SameProgress
<1>6. Sound(i, j, StateMachine(m, e))
  <2> HIDE DEF m
  <2> QED  BY <1>1, <1>3, <1>4, <1>5, StateMachineSound
<1>7. QED
  BY <1>6

LEMMA TimeoutsSound ==
  ASSUME NEW i \in Iface, NEW j \in Iface, NEW l \in Link,
         Progress(i, j, l), Match(l.state, l.timers)
  PROVE  /\ "retry" \in l.timers => Sound(i, j, RetryTimeout(l))
         /\ "confirm" \in l.timers => Sound(i, j, ConfirmTimeout(l))
         /\ "holding" \in l.timers => Sound(i, j, HoldingTimeout(l))
         /\ "beacon" \in l.timers => Sound(i, j, BeaconLoss(l))
<1>1. ASSUME "retry" \in l.timers
      PROVE  Sound(i, j, RetryTimeout(l))
  <2>1. Due("TOR1") = {"retry"} /\ Due("TOR2") = {"retry"}
    BY DEF Due
  <2>2. (Fired(l, "retry")).retries = l.retries
    BY DEF Fired, Link
  <2>3. QED
    BY <1>1, <2>1, <2>2, TimerSound DEF RetryTimeout
<1>2. ASSUME "confirm" \in l.timers
      PROVE  Sound(i, j, ConfirmTimeout(l))
  <2>1. Due("TOC") = {"confirm"}
    BY DEF Due
  <2>2. QED
    BY <1>2, <2>1, TimerSound DEF ConfirmTimeout
<1>3. ASSUME "holding" \in l.timers
      PROVE  Sound(i, j, HoldingTimeout(l))
  <2>1. Due("TOH") = {"holding"}
    BY DEF Due
  <2>2. QED
    BY <1>3, <2>1, TimerSound DEF HoldingTimeout
<1>4. Sound(i, j, BeaconLoss(l))
  <2> DEFINE m == Fired(l, "beacon")
  <2>1. /\ m \in Link /\ m.state = l.state /\ m.localId = l.localId
        /\ Match(m.state, m.timers)
    BY DEF Fired, Link, Match
  <2>2. Sound(i, j, StateMachine(m, "CNCL"))
    <3> HIDE DEF m
    <3> QED  BY <2>1, CancelSound, SameProgress
  <2>3. QED
    BY <2>2 DEF BeaconLoss
<1>5. QED
  BY <1>1, <1>2, <1>3, <1>4

\* A new link knows nothing, and opening it on a beacon is sound.
LEMMA FreshLinkFacts ==
  ASSUME NEW i \in Iface, NEW j \in Iface, TypeOK
  PROVE  /\ FreshLink(i) \in Link
         /\ Progress(i, j, FreshLink(i))
         /\ Match(FreshLink(i).state, FreshLink(i).timers)
<1>1. lastLocalLinkId[mp[i]] \in Nat
  BY NetworkAssumption DEF TypeOK
<1>2. QED
  BY <1>1, MaxRetriesAssumption, MaxPacketFailureAssumption
  DEF FreshLink, NewLink, Link, States, Unknown, Progress, Match

LEMMA OpenedSound ==
  ASSUME NEW i \in Iface, NEW j \in Iface, TypeOK
  PROVE  LET opened == StateMachine(FreshLink(i), "ACTOPN")
         IN  Sound(i, j, [opened EXCEPT !.link = HearBeacon(@)])
<1> DEFINE l == FreshLink(i)
           told == <<"IDLE", "OPN_SNT">>
           r == Result(HearBeacon(Go(l, "OPN_SNT", told, {}, {"retry"},
                                     <<OpenFrame(l)>>).link),
                       told, <<OpenFrame(l)>>)
<1>1. [StateMachine(l, "ACTOPN") EXCEPT !.link = HearBeacon(@)] = r
  BY DEF StateMachine, InIdle, Go, Result, FreshLink, NewLink
<1>2. l \in Link
  BY FreshLinkFacts
<1>3. <<OpenFrame(l)>> \in Plain(l)
  BY DEF Plain
<1>4. /\ <<OpenFrame(l)>> \in Seq(Frame)
      /\ \A k \in 1..Len(<<OpenFrame(l)>>) : <<OpenFrame(l)>>[k].type # "Confirm"
  BY <1>2, <1>3, FrameSequences
<1>5. l.timers = {} /\ l.state = "IDLE"
  BY DEF FreshLink, NewLink
<1>6. /\ r.link \in Link /\ r.link.state = "OPN_SNT" /\ r.sent = <<OpenFrame(l)>>
      /\ r.link.timers = {"retry", "beacon"}
  <2> HIDE DEF l
  <2> QED  BY <1>2, <1>5 DEF Result, HearBeacon, Go, Link, States, Timers
<1>7. Sound(i, j, r)
  <2> HIDE DEF r, l
  <2> QED  BY <1>4, <1>6 DEF Sound, Match
<1>8. QED
  BY <1>1, <1>7

LEMMA OpenedTruthful ==
  ASSUME NEW i \in Iface, TypeOK
  PROVE  LET opened == StateMachine(FreshLink(i), "ACTOPN")
         IN  Truthful("IDLE", [opened EXCEPT !.link = HearBeacon(@)])
<1>1. FreshLink(i) \in Link /\ FreshLink(i).state = "IDLE"
  BY FreshLinkFacts DEF FreshLink, NewLink
<1>2. QED
  BY <1>1 DEF StateMachine, InIdle, Go, Result, HearBeacon, Truthful, Link

-----------------------------------------------------------------------------
(* The MAC queues.                                                         *)

\* Every Confirm in the air has been issued by the station it comes from.
AirOK(base, issued) ==
  /\ base \in [Iface -> [Iface -> Seq(QueuedFrame)]]
  /\ \A i, j \in Iface : \A k \in 1..Len(base[i][j]) :
       base[i][j][k].frame.type = "Confirm" =>
         <<base[i][j][k].frame.local, base[i][j][k].frame.peer>> \in issued[i][j]

\* Replacing one queue.
LEMMA SetQueue ==
  ASSUME NEW base, NEW issued, AirOK(base, issued),
         NEW i \in Iface, NEW j \in Iface, NEW queue \in Seq(QueuedFrame),
         \A k \in 1..Len(queue) :
           queue[k].frame.type = "Confirm" =>
             <<queue[k].frame.local, queue[k].frame.peer>> \in issued[i][j]
  PROVE  AirOK([base EXCEPT ![i][j] = queue], issued)
<1> DEFINE new == [base EXCEPT ![i][j] = queue]
<1>1. new \in [Iface -> [Iface -> Seq(QueuedFrame)]]
  BY DEF AirOK
<1>2. \A x, y \in Iface :
        new[x][y] = IF x = i /\ y = j THEN queue ELSE base[x][y]
  BY DEF AirOK
<1>3. AirOK(new, issued)
  <2> HIDE DEF new
  <2>1. ASSUME NEW x \in Iface, NEW y \in Iface, NEW k \in 1..Len(new[x][y]),
               new[x][y][k].frame.type = "Confirm"
        PROVE  <<new[x][y][k].frame.local, new[x][y][k].frame.peer>> \in issued[x][y]
    <3>1. CASE x = i /\ y = j
      <4>1. new[x][y] = queue
        BY <3>1, <1>2
      <4>2. QED
        BY <2>1, <3>1, <4>1
    <3>2. CASE ~(x = i /\ y = j)
      <4>1. new[x][y] = base[x][y]
        BY <3>2, <1>2
      <4>2. QED
        BY <2>1, <4>1 DEF AirOK
    <3>3. QED
      BY <3>1, <3>2
  <2>2. QED
    BY <1>1, <2>1 DEF AirOK
<1>4. QED
  BY <1>3

\* Enqueue appends some of the frames.
LEMMA EnqueueFacts ==
  ASSUME NEW queue \in Seq(QueuedFrame), NEW frames \in Seq(Frame)
  PROVE  /\ Enqueue(queue, frames) \in Seq(QueuedFrame)
         /\ \A k \in 1..Len(Enqueue(queue, frames)) :
              \/ k \in 1..Len(queue) /\ Enqueue(queue, frames)[k] = queue[k]
              \/ \E n \in 1..Len(frames) : Enqueue(queue, frames)[k].frame = frames[n]
<1> DEFINE n == IF Fitting(queue, frames) < 0 THEN 0 ELSE Fitting(queue, frames)
           new == [k \in 1..n |-> [frame |-> frames[k], received |-> FALSE]]
<1>1. n \in Nat /\ n <= Len(frames) /\ 1..Fitting(queue, frames) = 1..n
  BY BoundsAssumption DEF Fitting
<1>2. \A k \in 1..n : k \in 1..Len(frames) /\ frames[k] \in Frame
  BY <1>1
<1> HIDE DEF n
<1>3. new \in [1..n -> QueuedFrame]
  BY <1>2 DEF QueuedFrame
<1>4. new \in Seq(QueuedFrame) /\ Len(new) = n
  BY <1>1, <1>3
<1>5. Enqueue(queue, frames) = queue \o new
  BY <1>1 DEF Enqueue
<1>6. \A k \in 1..n : new[k].frame = frames[k]
  OBVIOUS
<1> HIDE DEF new
<1>7. ASSUME NEW k \in 1..Len(queue \o new)
      PROVE  \/ k \in 1..Len(queue) /\ (queue \o new)[k] = queue[k]
             \/ \E m \in 1..Len(frames) : (queue \o new)[k].frame = frames[m]
  <2>1. CASE k <= Len(queue)
    BY <2>1, <1>4
  <2>2. CASE k > Len(queue)
    <3>1. k - Len(queue) \in 1..n /\ (queue \o new)[k] = new[k - Len(queue)]
      BY <2>2, <1>1, <1>4
    <3>2. QED
      BY <3>1, <1>2, <1>6
  <2>3. QED
    BY <2>1, <2>2
<1>8. QED
  BY <1>4, <1>5, <1>7

\* A frame marked as received is the same frame.
LEMMA ReceivedAirOK ==
  ASSUME AirOK(air, confirmed), NEW i \in Iface, NEW j \in Iface, air[j][i] # << >>
  PROVE  AirOK(Received(i, j), confirmed)
<1> DEFINE q == air[j][i]
           q2 == [q EXCEPT ![1].received = TRUE]
<1>1. q \in Seq(QueuedFrame) /\ q # << >>
  BY DEF AirOK
<1>2. /\ q2 \in Seq(QueuedFrame) /\ Len(q2) = Len(q)
      /\ \A k \in 1..Len(q) : q2[k].frame = q[k].frame
  <2>1. q \in [1..Len(q) -> QueuedFrame] /\ Len(q) \in Nat /\ 1 \in 1..Len(q)
    BY <1>1
  <2>2. [q[1] EXCEPT !.received = TRUE] \in QueuedFrame
        /\ [q[1] EXCEPT !.received = TRUE].frame = q[1].frame
    BY <2>1 DEF QueuedFrame
  <2>3. q2 = [q EXCEPT ![1] = [q[1] EXCEPT !.received = TRUE]]
    OBVIOUS
  <2> HIDE DEF q
  <2>4. q2 \in [1..Len(q) -> QueuedFrame]
    BY <2>1, <2>2, <2>3
  <2>5. \A k \in 1..Len(q) : q2[k].frame = q[k].frame
    BY <2>1, <2>2, <2>3
  <2> HIDE DEF q2
  <2>6. QED
    BY <2>1, <2>4, <2>5
<1>3. Received(i, j) = [air EXCEPT ![j][i] = q2]
  BY DEF Received
<1>4. \A k \in 1..Len(q) : q[k].frame.type = "Confirm" =>
        <<q[k].frame.local, q[k].frame.peer>> \in confirmed[j][i]
  BY DEF AirOK
<1>5. \A k \in 1..Len(q2) : q2[k].frame.type = "Confirm" =>
        <<q2[k].frame.local, q2[k].frame.peer>> \in confirmed[j][i]
  <2> HIDE DEF q2, q
  <2> QED  BY <1>2, <1>4
<1>6. AirOK([air EXCEPT ![j][i] = q2], confirmed)
  <2> HIDE DEF q2
  <2> QED  BY <1>2, <1>5, SetQueue
<1>7. QED
  BY <1>3, <1>6

\* Dequeuing a frame leaves the others.
LEMMA SentAirOK ==
  ASSUME AirOK(air, confirmed), NEW i \in Iface, NEW j \in Iface, air[i][j] # << >>
  PROVE  AirOK(Sent(i, j), confirmed)
<1> DEFINE q == air[i][j]
           q2 == Tail(q)
<1>1. q \in Seq(QueuedFrame) /\ q # << >>
  BY DEF AirOK
<1>2. /\ q2 \in Seq(QueuedFrame) /\ Len(q2) = Len(q) - 1
      /\ \A k \in 1..Len(q2) : q2[k] = q[k + 1] /\ k + 1 \in 1..Len(q)
  <2> HIDE DEF q
  <2> QED  BY <1>1
<1>3. Sent(i, j) = [air EXCEPT ![i][j] = q2]
  BY DEF Sent
<1>4. \A k \in 1..Len(q) : q[k].frame.type = "Confirm" =>
        <<q[k].frame.local, q[k].frame.peer>> \in confirmed[i][j]
  BY DEF AirOK
<1>5. \A k \in 1..Len(q2) : q2[k].frame.type = "Confirm" =>
        <<q2[k].frame.local, q2[k].frame.peer>> \in confirmed[i][j]
  <2> HIDE DEF q2, q
  <2> QED  BY <1>2, <1>4
<1>6. AirOK([air EXCEPT ![i][j] = q2], confirmed)
  <2> HIDE DEF q2
  <2> QED  BY <1>2, <1>5, SetQueue
<1>7. QED
  BY <1>3, <1>6

\* Sending the frames of a result, with the Confirms it issues on record.
Send(base, i, j, frames) == [base EXCEPT ![i][j] = Enqueue(@, frames)]
Issue(i, j, frames) == [confirmed EXCEPT ![i][j] = @ \cup Confirms(frames)]

LEMMA SendAirOK ==
  ASSUME NEW base, AirOK(base, confirmed), TypeOK,
         NEW i \in Iface, NEW j \in Iface, NEW frames \in Seq(Frame)
  PROVE  /\ AirOK(Send(base, i, j, frames), Issue(i, j, frames))
         /\ Issue(i, j, frames) \in [Iface -> [Iface -> SUBSET (Nat \X Nat)]]
         /\ \A x, y \in Iface : confirmed[x][y] \subseteq Issue(i, j, frames)[x][y]
         /\ \A x, y \in Iface :
              <<x, y>> # <<i, j>> => Issue(i, j, frames)[x][y] = confirmed[x][y]
         /\ Issue(i, j, frames)[i][j] = confirmed[i][j] \cup Confirms(frames)
<1> DEFINE issued == Issue(i, j, frames)
<1>1. Confirms(frames) \in SUBSET (Nat \X Nat)
  <2>1. \A n \in 1..Len(frames) : frames[n].local \in Nat /\ frames[n].peer \in Nat
    <3>1. \A n \in 1..Len(frames) : frames[n] \in Frame
      OBVIOUS
    <3>2. QED
      BY <3>1 DEF Frame
  <2>2. QED
    BY <2>1 DEF Confirms
<1>2. \A x, y \in Iface :
        issued[x][y] = IF x = i /\ y = j THEN confirmed[x][y] \cup Confirms(frames)
                                         ELSE confirmed[x][y]
  BY DEF Issue, TypeOK
<1>3. issued \in [Iface -> [Iface -> SUBSET (Nat \X Nat)]]
  BY <1>1 DEF Issue, TypeOK
<1> HIDE DEF issued
<1>4. AirOK(base, issued)
  <2>1. \A x, y \in Iface : confirmed[x][y] \subseteq issued[x][y]
    BY <1>2
  <2>2. QED
    BY <2>1 DEF AirOK
<1>5. base[i][j] \in Seq(QueuedFrame)
  BY DEF AirOK
<1> DEFINE queue == Enqueue(base[i][j], frames)
<1>6. /\ queue \in Seq(QueuedFrame)
      /\ \A k \in 1..Len(queue) :
           \/ k \in 1..Len(base[i][j]) /\ queue[k] = base[i][j][k]
           \/ \E n \in 1..Len(frames) : queue[k].frame = frames[n]
  BY <1>5, EnqueueFacts
<1> HIDE DEF queue
<1>7. ASSUME NEW k \in 1..Len(queue), queue[k].frame.type = "Confirm"
      PROVE  <<queue[k].frame.local, queue[k].frame.peer>> \in issued[i][j]
  <2>1. CASE k \in 1..Len(base[i][j]) /\ queue[k] = base[i][j][k]
    <3>1. base[i][j][k].frame.type = "Confirm"
      BY <2>1, <1>7
    <3>2. <<base[i][j][k].frame.local, base[i][j][k].frame.peer>> \in issued[i][j]
      BY <2>1, <3>1, <1>4 DEF AirOK
    <3>3. QED
      BY <2>1, <3>2
  <2>2. CASE \E n \in 1..Len(frames) : queue[k].frame = frames[n]
    <3>1. PICK n \in 1..Len(frames) : queue[k].frame = frames[n]
      BY <2>2
    <3>2. frames[n].type = "Confirm"
      BY <3>1, <1>7
    <3>3. <<frames[n].local, frames[n].peer>> \in Confirms(frames)
      BY <3>2 DEF Confirms
    <3>4. issued[i][j] = confirmed[i][j] \cup Confirms(frames)
      BY <1>2
    <3>5. <<frames[n].local, frames[n].peer>> \in issued[i][j]
      BY <3>3, <3>4
    <3>6. QED
      BY <3>1, <3>5
  <2>3. QED
    BY <1>6, <2>1, <2>2
<1>8. AirOK([base EXCEPT ![i][j] = queue], issued)
  BY <1>4, <1>6, <1>7, SetQueue
<1>9. Send(base, i, j, frames) = [base EXCEPT ![i][j] = queue]
  BY DEF Send, queue
<1>10. QED
  BY <1>2, <1>3, <1>8, <1>9 DEF issued

-----------------------------------------------------------------------------
(* The links.                                                              *)

IInv == TypeOK /\ LinksCounted /\ TimersMatchState /\ HandshakeInv

\* What the invariant gives of the two parts.
LEMMA InvFacts ==
  ASSUME IInv
  PROVE  /\ AirOK(air, confirmed)
         /\ \A i, j \in Iface : /\ links[i][j] \in Link
                                /\ Progress(i, j, links[i][j])
                                /\ Match(links[i][j].state, links[i][j].timers)
BY DEF IInv, TypeOK, HandshakeInv, TimersMatchState, TimersMatch, AirOK, Progress, Match

\* Storing a link keeps the count of the established ones, if PeerLinkStatus is
\* told the truth about it.
LEMMA PutCounts ==
  ASSUME TypeOK, LinksCounted, NEW i \in Iface, NEW j \in Iface,
         NEW link \in Link, Put(i, j, link),
         NEW told, PeerLinkStatus(i, told),
         \/ told = <<links[i][j].state, link.state>>
         \/ told = Silence /\ link.state = links[i][j].state
  PROVE  /\ links' \in [Iface -> [Iface -> Link]]
         /\ linksTotal' \in [MeshPoint -> Int]
         /\ LinksCounted'
<1> DEFINE new == IF link.state = "IDLE" THEN NoLink ELSE link
<1>1. new \in Link /\ (new.state = "ESTAB" <=> link.state = "ESTAB")
  BY MaxRetriesAssumption, MaxPacketFailureAssumption
  DEF NoLink, NewLink, Link, States, Unknown
<1>2. links' = [links EXCEPT ![i][j] = new]
  BY DEF Put
<1> HIDE DEF new
<1>3. links' \in [Iface -> [Iface -> Link]]
  BY <1>1, <1>2 DEF TypeOK
<1>4. \A x, y \in Iface : links'[x][y] = IF x = i /\ y = j THEN new ELSE links[x][y]
  BY <1>2 DEF TypeOK
<1>5. mp[i] \in MeshPoint
  BY NetworkAssumption
<1>6. linksTotal' \in [MeshPoint -> Int]
  BY <1>5 DEF PeerLinkStatus, TypeOK
<1>7. ASSUME NEW m \in MeshPoint
      PROVE  linksTotal'[m] = Cardinality(ActiveLinks(m)')
  <2> DEFINE before == ActiveLinks(m)
             after == ActiveLinks(m)'
  <2>1. IsFiniteSet(before)
    <3>1. IsFiniteSet(Pair)
      BY NetworkAssumption, FS_Product DEF Pair
    <3>2. before \subseteq Pair
      BY DEF ActiveLinks
    <3>3. QED
      BY <3>1, <3>2, FS_Subset
  <2>2. linksTotal[m] = Cardinality(before)
    BY DEF LinksCounted
  <2>3. \A x, y \in Iface : <<x, y>> \in before <=> mp[x] = m /\ links[x][y].state = "ESTAB"
    BY DEF ActiveLinks, IsActiveLink, Pair
  <2>4. \A x, y \in Iface :
          <<x, y>> \in after <=> mp[x] = m /\ links'[x][y].state = "ESTAB"
    BY DEF ActiveLinks, IsActiveLink, Pair
  <2>5. before \subseteq Iface \X Iface /\ after \subseteq Iface \X Iface
    BY DEF ActiveLinks, Pair
  <2>6. linksTotal'[m] = IF m # mp[i] THEN linksTotal[m] ELSE
          CASE link.state = "ESTAB" /\ ~IsActiveLink(i, j) -> linksTotal[m] + 1
            [] link.state # "ESTAB" /\ IsActiveLink(i, j)  -> linksTotal[m] - 1
            [] OTHER                                       -> linksTotal[m]
    <3>1. linksTotal'[m] = IF m # mp[i] THEN linksTotal[m] ELSE
            CASE told[2] = "ESTAB" /\ told[1] # "ESTAB" -> linksTotal[m] + 1
              [] told[1] = "ESTAB" /\ told[2] # "ESTAB" -> linksTotal[m] - 1
              [] OTHER                                   -> linksTotal[m]
      BY <1>5 DEF PeerLinkStatus, TypeOK
    <3>2. CASE told = <<links[i][j].state, link.state>>
      BY <3>1, <3>2 DEF IsActiveLink
    <3>3. CASE told = Silence /\ link.state = links[i][j].state
      BY <3>1, <3>3 DEF IsActiveLink, Silence
    <3>4. QED
      BY <3>2, <3>3
  <2> HIDE DEF before, after
  <2>7. CASE m = mp[i] /\ link.state = "ESTAB" /\ ~IsActiveLink(i, j)
    <3>1. after = before \cup {<<i, j>>} /\ <<i, j>> \notin before
      BY <2>3, <2>4, <2>5, <2>7, <1>1, <1>4 DEF IsActiveLink
    <3>2. Cardinality(after) = Cardinality(before) + 1
      BY <3>1, <2>1, FS_AddElement
    <3>3. QED
      BY <2>2, <2>6, <2>7, <3>2 DEF after
  <2>8. CASE m = mp[i] /\ link.state # "ESTAB" /\ IsActiveLink(i, j)
    <3>1. after = before \ {<<i, j>>} /\ <<i, j>> \in before
      BY <2>3, <2>4, <2>5, <2>8, <1>1, <1>4 DEF IsActiveLink
    <3>2. Cardinality(after) = Cardinality(before) - 1
      BY <3>1, <2>1, FS_RemoveElement
    <3>3. QED
      BY <2>2, <2>6, <2>8, <3>2 DEF after
  <2>9. CASE m # mp[i] \/ (link.state = "ESTAB" <=> IsActiveLink(i, j))
    <3>1. ASSUME NEW x \in Iface, NEW y \in Iface
          PROVE  <<x, y>> \in after <=> <<x, y>> \in before
      <4>1. CASE x = i /\ y = j
        <5>1. links'[x][y] = new
          BY <4>1, <1>4
        <5>2. CASE m # mp[i]
          BY <4>1, <5>2, <2>3, <2>4
        <5>3. CASE link.state = "ESTAB" <=> IsActiveLink(i, j)
          BY <4>1, <5>1, <5>3, <2>3, <2>4, <1>1 DEF IsActiveLink
        <5>4. QED
          BY <5>2, <5>3, <2>9
      <4>2. CASE ~(x = i /\ y = j)
        <5>1. links'[x][y] = links[x][y]
          BY <4>2, <1>4
        <5>2. QED
          BY <5>1, <2>3, <2>4
      <4>3. QED
        BY <4>1, <4>2
    <3>2. after = before
      BY <3>1, <2>5
    <3>3. QED
      BY <2>2, <2>6, <2>9, <3>2 DEF after
  <2>10. QED
    BY <2>7, <2>8, <2>9
<1>8. QED
  BY <1>3, <1>6, <1>7 DEF LinksCounted

-----------------------------------------------------------------------------
(* Committing a sound result preserves the invariant.                      *)

LEMMA CommitSound ==
  ASSUME IInv, NEW i \in Iface, NEW j \in Iface, NEW r, Sound(i, j, r),
         Truthful(links[i][j].state, r),
         NEW base, AirOK(base, confirmed), Commit(i, j, r, base),
         lastLocalLinkId' \in [MeshPoint -> Nat],
         data' \in [Iface -> [Iface -> Nat]]
  PROVE  IInv'
<1>0. TypeOK /\ LinksCounted /\ TimersMatchState /\ HandshakeInv
  BY DEF IInv
<1>1. r.link \in Link /\ r.sent \in Seq(Frame)
  BY DEF Sound
<1>2. Put(i, j, r.link) /\ PeerLinkStatus(i, r.told)
  BY DEF Commit
<1>3. /\ links' \in [Iface -> [Iface -> Link]]
      /\ linksTotal' \in [MeshPoint -> Int]
      /\ LinksCounted'
  BY <1>0, <1>1, <1>2, PutCounts DEF Truthful
<1>5. /\ AirOK(air', confirmed')
      /\ confirmed' \in [Iface -> [Iface -> SUBSET (Nat \X Nat)]]
      /\ \A x, y \in Iface : confirmed[x][y] \subseteq confirmed'[x][y]
      /\ \A x, y \in Iface : <<x, y>> # <<i, j>> => confirmed'[x][y] = confirmed[x][y]
      /\ confirmed'[i][j] = confirmed[i][j] \cup Confirms(r.sent)
  <2>1. air' = Send(base, i, j, r.sent) /\ confirmed' = Issue(i, j, r.sent)
    BY DEF Commit, Send, Issue
  <2> DEFINE sent == r.sent
  <2>2. sent \in Seq(Frame)
    BY <1>1
  <2>3. air' = Send(base, i, j, sent) /\ confirmed' = Issue(i, j, sent)
    BY <2>1
  <2>4. /\ AirOK(air', confirmed')
        /\ confirmed' \in [Iface -> [Iface -> SUBSET (Nat \X Nat)]]
        /\ \A x, y \in Iface : confirmed[x][y] \subseteq confirmed'[x][y]
        /\ \A x, y \in Iface : <<x, y>> # <<i, j>> => confirmed'[x][y] = confirmed[x][y]
        /\ confirmed'[i][j] = confirmed[i][j] \cup Confirms(sent)
    <3> HIDE DEF sent
    <3>1. AirOK(air', confirmed')
      BY <1>0, <2>2, <2>3, SendAirOK, Zenon
    <3>2. QED
      BY <1>0, <2>2, <2>3, <3>1, SendAirOK
  <2>5. QED
    BY <2>4
<1>6. TypeOK'
  BY <1>3, <1>5 DEF TypeOK, AirOK
<1>7. \A x, y \in Iface : <<x, y>> # <<i, j>> => links'[x][y] = links[x][y]
  BY <1>0, <1>2 DEF Put, TypeOK
<1>8. links'[i][j] = IF r.link.state = "IDLE" THEN NoLink ELSE r.link
  BY <1>0, <1>2 DEF Put, TypeOK
<1>9. TimersMatchState'
  <2>1. ASSUME NEW x \in Iface, NEW y \in Iface
        PROVE  Match(links'[x][y].state, links'[x][y].timers)
    <3>1. CASE <<x, y>> = <<i, j>>
      BY <3>1, <1>8 DEF Sound, NoLink, NewLink, Match
    <3>2. CASE <<x, y>> # <<i, j>>
      BY <3>2, <1>7, InvFacts
    <3>3. QED
      BY <3>1, <3>2
  <2>2. QED
    BY <2>1 DEF TimersMatchState, TimersMatch, Match
<1>10. ASSUME NEW x \in Iface, NEW y \in Iface
       PROVE  /\ links'[x][y].state \in {"CNF_RCVD", "ESTAB"} =>
                   PeerConfirmed(x, y, links[x][y])'
              /\ links'[x][y].state \in {"OPN_RCVD", "ESTAB"} =>
                   HasConfirmed(links'[x][y], confirmed'[x][y])
  <2>1. CASE <<x, y>> = <<i, j>>
    <3>1. x = i /\ y = j
      BY <2>1
    <3>2. CASE r.link.state = "IDLE"
      BY <3>1, <3>2, <1>8 DEF NoLink, NewLink
    <3>3. CASE r.link.state # "IDLE"
      <4>1. links'[x][y] = r.link
        BY <3>1, <3>3, <1>8
      <4>2. r.link.state \in {"CNF_RCVD", "ESTAB"} => PeerConfirmed(x, y, links[x][y])'
        BY <3>1, <4>1, <1>5 DEF Sound, PeerConfirmed
      <4>3. ASSUME NEW k \in 1..Len(r.sent), r.sent[k].type = "Confirm"
            PROVE  HasConfirmed(r.link, confirmed'[x][y])
        <5>1. <<r.sent[k].local, r.sent[k].peer>> \in Confirms(r.sent)
          BY <4>3 DEF Confirms
        <5>2. r.sent[k].local = r.link.localId
          BY <4>3 DEF Sound
        <5>3. <<r.sent[k].local, r.sent[k].peer>> \in confirmed'[x][y]
          BY <5>1, <3>1, <1>5
        <5>4. QED
          BY <5>2, <5>3 DEF HasConfirmed
      <4>4. HasConfirmed(r.link, confirmed[i][j]) => HasConfirmed(r.link, confirmed'[x][y])
        BY <3>1, <1>5 DEF HasConfirmed
      <4>5. QED
        BY <4>1, <4>2, <4>3, <4>4 DEF Sound
    <3>4. QED
      BY <3>2, <3>3
  <2>2. CASE <<x, y>> # <<i, j>>
    <3>1. links'[x][y] = links[x][y] /\ Progress(x, y, links[x][y])
      BY <2>2, <1>7, InvFacts
    <3>2. QED
      BY <3>1, <1>5 DEF Progress, PeerConfirmed, HasConfirmed
  <2>3. QED
    BY <2>1, <2>2
<1>11. ASSUME NEW x \in Iface, NEW y \in Iface, confirmed'[x][y] # {}
       PROVE  <<x, y>> \in Compatible
  <2>1. CASE confirmed[x][y] # {}
    BY <2>1, <1>0 DEF HandshakeInv
  <2>2. CASE confirmed[x][y] = {}
    <3>1. <<x, y>> = <<i, j>>
      BY <2>2, <1>5, <1>11
    <3>2. Confirms(r.sent) # {}
      BY <3>1, <2>2, <1>5, <1>11
    <3>3. \E k \in 1..Len(r.sent) : r.sent[k].type = "Confirm"
      BY <3>2 DEF Confirms
    <3>4. QED
      BY <3>1, <3>3 DEF Sound
  <2>3. QED
    BY <2>1, <2>2
<1>12. HandshakeInv'
  BY <1>5, <1>10, <1>11 DEF HandshakeInv, AirOK
<1>13. QED
  BY <1>3, <1>6, <1>9, <1>12 DEF IInv

\* A step that touches neither the links nor the record of the Confirms.
LEMMA AirStep ==
  ASSUME IInv, AirOK(air', confirmed),
         UNCHANGED linkVars, data' \in [Iface -> [Iface -> Nat]]
  PROVE  IInv'
<1>1. TypeOK' /\ TimersMatchState' /\ HandshakeInv'
  BY DEF IInv, TypeOK, TimersMatchState, HandshakeInv, PeerConfirmed, AirOK, linkVars
<1>2. LinksCounted'
  <2>1. \A m \in MeshPoint : ActiveLinks(m)' = ActiveLinks(m)
    BY DEF ActiveLinks, IsActiveLink, linkVars
  <2>2. QED
    BY <2>1 DEF IInv, LinksCounted, linkVars
<1>3. QED
  BY <1>1, <1>2 DEF IInv

\* Counting a link id and counting a data frame keep their types.
LEMMA CounterTypes ==
  ASSUME TypeOK, NEW i \in Iface, NEW j \in Iface
  PROVE  /\ TakeLinkId(i) => lastLocalLinkId' \in [MeshPoint -> Nat]
         /\ TakeLinkIdForOpen(i, j) => lastLocalLinkId' \in [MeshPoint -> Nat]
         /\ data[i][j] > 0 /\ data' = [data EXCEPT ![i][j] = @ - 1] =>
              data' \in [Iface -> [Iface -> Nat]]
<1>1. TakeLinkId(i) => lastLocalLinkId' \in [MeshPoint -> Nat]
  <2>1. mp[i] \in MeshPoint /\ lastLocalLinkId[mp[i]] \in Nat
    BY NetworkAssumption DEF TypeOK
  <2>2. (lastLocalLinkId[mp[i]] + 1) % LinkIdModulus \in Nat
    BY <2>1, BoundsAssumption
  <2>3. QED
    BY <2>1, <2>2 DEF TypeOK, TakeLinkId
<1>2. data[i][j] > 0 /\ data' = [data EXCEPT ![i][j] = @ - 1] =>
        data' \in [Iface -> [Iface -> Nat]]
  <2>1. data[i][j] > 0 => data[i][j] - 1 \in Nat
    BY DEF TypeOK
  <2>2. QED
    BY <2>1 DEF TypeOK
<1>3. QED
  BY <1>1, <1>2 DEF TakeLinkIdForOpen, TypeOK

\* The frame at the head of a queue.
LEMMA ArrivingFacts ==
  ASSUME IInv, NEW i \in Iface, NEW j \in Iface, NEW type, Arrives(i, j, type)
  PROVE  /\ Arriving(i, j).local \in Nat /\ Arriving(i, j).peer \in Nat
         /\ type = "Confirm" =>
              <<Arriving(i, j).local, Arriving(i, j).peer>> \in confirmed[j][i]
         /\ AirOK(Received(i, j), confirmed)
<1> DEFINE q == air[j][i]
<1>1. AirOK(air, confirmed)
  BY InvFacts
<1>2. q \in Seq(QueuedFrame) /\ q # << >>
  BY <1>1 DEF AirOK, Arrives
<1>3. 1 \in 1..Len(q) /\ Head(q) = q[1] /\ q[1] \in QueuedFrame
  <2> HIDE DEF q
  <2> QED  BY <1>2
<1>4. Arriving(i, j) = q[1].frame /\ q[1].frame \in Frame
  BY <1>3 DEF Arriving, QueuedFrame
<1>5. type = "Confirm" =>
        <<Arriving(i, j).local, Arriving(i, j).peer>> \in confirmed[j][i]
  <2>1. type = "Confirm" => air[j][i][1].frame.type = "Confirm"
    BY <1>3 DEF Arrives
  <2>2. QED
    BY <2>1, <1>1, <1>3, <1>4 DEF AirOK
<1>6. AirOK(Received(i, j), confirmed)
  BY <1>1, <1>2, ReceivedAirOK
<1>7. QED
  BY <1>4, <1>5, <1>6 DEF Frame

-----------------------------------------------------------------------------
(* Every action preserves the invariant.                                   *)

LEMMA BeaconStep ==
  ASSUME IInv, NEW i \in Iface, NEW j \in Iface, ReceiveBeacon(i, j)
  PROVE  IInv'
<1>0. TypeOK
  BY DEF IInv
<1>1. CASE BeaconOpensLink(i, j)
  <2> DEFINE opened == StateMachine(FreshLink(i), "ACTOPN")
             r == [opened EXCEPT !.link = HearBeacon(@)]
  <2>1. Sound(i, j, r) /\ Truthful(links[i][j].state, r)
    <3>1. links[i][j].state = "IDLE"
      BY <1>1 DEF BeaconOpensLink, Exists
    <3>2. QED
      BY <1>0, <3>1, OpenedSound, OpenedTruthful
  <2>2. Commit(i, j, r, air) /\ UNCHANGED data /\ TakeLinkId(i)
    BY <1>1 DEF BeaconOpensLink
  <2>3. /\ lastLocalLinkId' \in [MeshPoint -> Nat]
        /\ data' \in [Iface -> [Iface -> Nat]]
    BY <2>2, <1>0, CounterTypes DEF TypeOK
  <2> HIDE DEF r
  <2>4. QED
    BY <2>1, <2>2, <2>3, InvFacts, CommitSound
<1>2. CASE BeaconRefreshesLink(i, j)
  <2> DEFINE l == HearBeacon(links[i][j])
  <2>1. /\ l \in Link /\ l.state = links[i][j].state /\ l.localId = links[i][j].localId
        /\ l.timers = links[i][j].timers \cup {"beacon"}
    <3>1. links[i][j] \in Link
      BY InvFacts
    <3>2. QED
      BY <3>1 DEF HearBeacon, Link, Timers
  <2>2. links' = [links EXCEPT ![i][j] = l]
    BY <1>2 DEF BeaconRefreshesLink
  <2>3. UNCHANGED <<linksTotal, lastLocalLinkId, air, data, confirmed>>
    BY <1>2 DEF BeaconRefreshesLink
  <2> HIDE DEF l
  <2>4. links' \in [Iface -> [Iface -> Link]]
    BY <2>1, <2>2, <1>0 DEF TypeOK
  <2>5. \A x, y \in Iface : links'[x][y] = IF x = i /\ y = j THEN l ELSE links[x][y]
    BY <2>2, <1>0 DEF TypeOK
  <2>6. \A x, y \in Iface : /\ links'[x][y].state = links[x][y].state
                            /\ links'[x][y].localId = links[x][y].localId
                            /\ Match(links[x][y].state, links[x][y].timers) =>
                                 Match(links[x][y].state, links'[x][y].timers)
    BY <2>1, <2>5 DEF Match
  <2>7. TypeOK'
    BY <2>3, <2>4, <1>0 DEF TypeOK
  <2>8. LinksCounted'
    <3>1. \A m \in MeshPoint : ActiveLinks(m)' = ActiveLinks(m)
      BY <2>6 DEF ActiveLinks, IsActiveLink, Pair
    <3>2. QED
      BY <3>1, <2>3 DEF IInv, LinksCounted
  <2>9. TimersMatchState'
    <3>1. \A x, y \in Iface : Match(links'[x][y].state, links'[x][y].timers)
      BY <2>6, InvFacts
    <3>2. QED
      BY <3>1 DEF TimersMatchState, TimersMatch, Match
  <2>10. HandshakeInv'
    <3>1. ASSUME NEW x \in Iface, NEW y \in Iface
          PROVE  Progress(x, y, links[x][y])'
      <4>1. Progress(x, y, links[x][y])
        BY InvFacts
      <4>2. QED
        BY <4>1, <2>3, <2>6 DEF Progress, PeerConfirmed, HasConfirmed
    <3>2. QED
      BY <3>1, <2>3 DEF IInv, HandshakeInv, Progress
  <2>11. QED
    BY <2>7, <2>8, <2>9, <2>10 DEF IInv
<1>3. QED
  BY <1>1, <1>2 DEF ReceiveBeacon

LEMMA FrameStep ==
  ASSUME IInv, NEW i \in Iface, NEW j \in Iface, ReceivePeerLinkFrame(i, j)
  PROVE  IInv'
<1>0. TypeOK /\ data \in [Iface -> [Iface -> Nat]]
      /\ lastLocalLinkId \in [MeshPoint -> Nat]
  BY DEF IInv, TypeOK
<1> DEFINE l == links[i][j]
           local == Arriving(i, j).local
           peer == Arriving(i, j).peer
<1>1. l \in Link /\ Progress(i, j, l) /\ Match(l.state, l.timers)
  BY InvFacts
<1>2. CASE ReceiveMismatch(i, j)
  <2>1. AirOK(Received(i, j), confirmed)
    BY <1>2, ArrivingFacts DEF ReceiveMismatch
  <2>2. UNCHANGED <<lastLocalLinkId, data>>
    BY <1>2 DEF ReceiveMismatch
  <2>3. CASE Exists(i, j)
    <3>1. Commit(i, j, StateMachine(l, "CNCL"), Received(i, j))
      BY <1>2, <2>3 DEF ReceiveMismatch
    <3>2. Sound(i, j, StateMachine(l, "CNCL")) /\ Truthful(l.state, StateMachine(l, "CNCL"))
      BY <1>1, CancelSound, StateMachineTruthful
    <3>3. QED
      BY <1>0, <2>1, <2>2, <3>1, <3>2, CommitSound
  <2>4. CASE ~Exists(i, j)
    <3>1. air' = Received(i, j) /\ UNCHANGED <<links, linksTotal, confirmed>>
      BY <1>2, <2>4 DEF ReceiveMismatch
    <3>2. QED
      BY <1>0, <2>1, <2>2, <3>1, AirStep DEF linkVars
  <2>5. QED
    BY <2>3, <2>4
<1>3. ASSUME NEW result, Commit(i, j, result, Received(i, j)), Sound(i, j, result),
             Truthful(l.state, result),
             AirOK(Received(i, j), confirmed), UNCHANGED data,
             lastLocalLinkId' \in [MeshPoint -> Nat]
      PROVE  IInv'
  BY <1>0, <1>3, CommitSound
<1>4. /\ LinkForOpen(i, j) \in Link
      /\ Progress(i, j, LinkForOpen(i, j))
      /\ Match(LinkForOpen(i, j).state, LinkForOpen(i, j).timers)
      /\ LinkForOpen(i, j).state = l.state
  BY <1>0, <1>1, FreshLinkFacts DEF LinkForOpen, Exists, FreshLink, NewLink
<1>5. CASE AcceptOpen(i, j)
  <2>1. /\ Commit(i, j, OpenAccept(LinkForOpen(i, j), local), Received(i, j))
        /\ UNCHANGED data /\ TakeLinkIdForOpen(i, j)
        /\ <<i, j>> \in Compatible /\ Arrives(i, j, "Open")
    BY <1>5 DEF AcceptOpen
  <2>2. local \in Nat /\ AirOK(Received(i, j), confirmed)
    BY <2>1, ArrivingFacts
  <2>3. /\ Sound(i, j, OpenAccept(LinkForOpen(i, j), local))
        /\ Truthful(l.state, OpenAccept(LinkForOpen(i, j), local))
    BY <1>4, <2>1, <2>2, OpenAcceptSound, MethodsTruthful
  <2>4. QED
    BY <1>0, <1>3, <2>1, <2>2, <2>3, CounterTypes
<1>6. CASE RejectOpen(i, j)
  <2>1. /\ Commit(i, j, OpenReject(LinkForOpen(i, j), local), Received(i, j))
        /\ UNCHANGED data /\ TakeLinkIdForOpen(i, j)
        /\ Arrives(i, j, "Open")
    BY <1>6 DEF RejectOpen
  <2>2. local \in Nat /\ AirOK(Received(i, j), confirmed)
    BY <2>1, ArrivingFacts
  <2>3. /\ Sound(i, j, OpenReject(LinkForOpen(i, j), local))
        /\ Truthful(l.state, OpenReject(LinkForOpen(i, j), local))
    BY <1>4, <2>2, OpenRejectSound, MethodsTruthful
  <2>4. QED
    BY <1>0, <1>3, <2>1, <2>2, <2>3, CounterTypes
<1>7. CASE ReceiveConfirm(i, j)
  <2>1. /\ Commit(i, j, ConfirmAccept(l, local, peer), Received(i, j))
        /\ UNCHANGED <<lastLocalLinkId, data>> /\ Arrives(i, j, "Confirm")
    BY <1>7 DEF ReceiveConfirm
  <2>2. /\ local \in Nat /\ peer \in Nat /\ <<local, peer>> \in confirmed[j][i]
        /\ AirOK(Received(i, j), confirmed)
    BY <2>1, ArrivingFacts
  <2>3. /\ Sound(i, j, ConfirmAccept(l, local, peer))
        /\ Truthful(l.state, ConfirmAccept(l, local, peer))
    BY <1>1, <2>2, ConfirmAcceptSound, MethodsTruthful
  <2>4. QED
    BY <1>0, <1>3, <2>1, <2>2, <2>3
<1>8. CASE ReceiveClose(i, j)
  <2>1. /\ Commit(i, j, Close(l, local, peer), Received(i, j))
        /\ UNCHANGED <<lastLocalLinkId, data>> /\ Arrives(i, j, "Close")
    BY <1>8 DEF ReceiveClose
  <2>2. local \in Nat /\ peer \in Nat /\ AirOK(Received(i, j), confirmed)
    BY <2>1, ArrivingFacts
  <2>3. /\ Sound(i, j, Close(l, local, peer))
        /\ Truthful(l.state, Close(l, local, peer))
    BY <1>1, <2>2, CloseSound, MethodsTruthful
  <2>4. QED
    BY <1>0, <1>3, <2>1, <2>2, <2>3
<1>9. CASE ReceiveStray(i, j)
  <2>1. AirOK(Received(i, j), confirmed)
    BY <1>9, ArrivingFacts DEF ReceiveStray
  <2>2. QED
    BY <1>0, <1>9, <2>1, AirStep DEF ReceiveStray
<1>10. QED
  BY <1>2, <1>5, <1>6, <1>7, <1>8, <1>9 DEF ReceivePeerLinkFrame

\* FindPeerLink, then a sound method, if there is a link.
LEMMA OnLinkStep ==
  ASSUME IInv, NEW i \in Iface, NEW j \in Iface, NEW r, Sound(i, j, r),
         Truthful(links[i][j].state, r),
         NEW base, AirOK(base, confirmed), OnLink(i, j, r, base),
         data' \in [Iface -> [Iface -> Nat]]
  PROVE  IInv'
<1>1. UNCHANGED lastLocalLinkId /\ lastLocalLinkId \in [MeshPoint -> Nat]
  BY DEF OnLink, IInv, TypeOK
<1>2. CASE Exists(i, j)
  <2>1. Commit(i, j, r, base)
    BY <1>2 DEF OnLink
  <2>2. QED
    BY <1>1, <2>1, CommitSound
<1>3. CASE ~Exists(i, j)
  <2>1. air' = base /\ UNCHANGED <<links, linksTotal, confirmed>>
    BY <1>3 DEF OnLink
  <2>2. QED
    BY <1>1, <2>1, AirStep DEF linkVars
<1>4. QED
  BY <1>2, <1>3

LEMMA TransmitStep ==
  ASSUME IInv, NEW i \in Iface, NEW j \in Iface, Transmit(i, j)
  PROVE  IInv'
<1>0. TypeOK /\ data \in [Iface -> [Iface -> Nat]] /\ AirOK(air, confirmed)
  BY InvFacts DEF IInv, TypeOK
<1> DEFINE l == links[i][j]
<1>1. l \in Link /\ Progress(i, j, l) /\ Match(l.state, l.timers)
  BY InvFacts
<1>2. /\ Sound(i, j, TransmissionSuccess(l)) /\ Sound(i, j, TransmissionFailure(l))
      /\ Truthful(l.state, TransmissionSuccess(l))
      /\ Truthful(l.state, TransmissionFailure(l))
  BY <1>1, TransmissionSound, MethodsTruthful
<1>3. CASE TxOk(i, j)
  BY <1>0, <1>2, <1>3, SentAirOK, OnLinkStep DEF TxOk
<1>4. CASE TxError(i, j)
  BY <1>0, <1>2, <1>4, SentAirOK, OnLinkStep DEF TxError
<1>5. CASE SendData(i, j)
  <2>1. data' \in [Iface -> [Iface -> Nat]]
    BY <1>0, <1>5 DEF SendData
  <2>2. UNCHANGED <<linkVars, air>>
    BY <1>5 DEF SendData
  <2>3. QED
    BY <1>0, <2>1, <2>2, AirStep
<1>6. CASE DataTxOk(i, j)
  BY <1>0, <1>2, <1>6, CounterTypes, OnLinkStep DEF DataTxOk
<1>7. CASE DataTxError(i, j)
  BY <1>0, <1>2, <1>7, CounterTypes, OnLinkStep DEF DataTxError
<1>8. QED
  BY <1>3, <1>4, <1>5, <1>6, <1>7 DEF Transmit

LEMMA TimerStep ==
  ASSUME IInv, NEW i \in Iface, NEW j \in Iface,
         HandshakeTimer(i, j) \/ BeaconTimer(i, j)
  PROVE  IInv'
<1>0. /\ data \in [Iface -> [Iface -> Nat]] /\ AirOK(air, confirmed)
      /\ lastLocalLinkId \in [MeshPoint -> Nat]
  BY InvFacts DEF IInv, TypeOK
<1> DEFINE l == links[i][j]
<1>1. l \in Link /\ Progress(i, j, l) /\ Match(l.state, l.timers)
  BY InvFacts
<1>2. ASSUME NEW r, Sound(i, j, r), Truthful(l.state, r), Fire(i, j, r)
      PROVE  IInv'
  BY <1>0, <1>2, CommitSound DEF Fire
<1>3. CASE RetryTimer(i, j)
  BY <1>1, <1>2, <1>3, TimeoutsSound, MethodsTruthful DEF RetryTimer, Pending
<1>4. CASE ConfirmTimer(i, j)
  BY <1>1, <1>2, <1>4, TimeoutsSound, MethodsTruthful DEF ConfirmTimer, Pending
<1>5. CASE HoldingTimer(i, j)
  BY <1>1, <1>2, <1>5, TimeoutsSound, MethodsTruthful DEF HoldingTimer, Pending
<1>6. CASE BeaconTimer(i, j)
  BY <1>1, <1>2, <1>6, TimeoutsSound, MethodsTruthful DEF BeaconTimer, Pending
<1>7. QED
  BY <1>3, <1>4, <1>5, <1>6 DEF HandshakeTimer

LEMMA InitInv ==
  Init => IInv
<1> SUFFICES ASSUME Init
             PROVE  IInv
  OBVIOUS
<1>1. NoLink \in Link
  BY MaxRetriesAssumption, MaxPacketFailureAssumption
  DEF NoLink, NewLink, Link, States, Unknown
<1>2. \A i, j \in Iface : /\ links[i][j] = NoLink /\ air[i][j] = << >>
                          /\ confirmed[i][j] = {}
  BY DEF Init
<1>3. NoLink.state = "IDLE" /\ NoLink.timers = {}
  BY DEF NoLink, NewLink
<1>4. << >> \in Seq(QueuedFrame)
  OBVIOUS
<1>5. TypeOK
  BY <1>1, <1>4 DEF Init, TypeOK
<1>6. LinksCounted
  <2>1. \A m \in MeshPoint : ActiveLinks(m) = {}
    BY <1>2, <1>3 DEF ActiveLinks, IsActiveLink, Pair
  <2>2. QED
    BY <2>1, FS_EmptySet DEF LinksCounted, Init
<1>7. TimersMatchState
  BY <1>2, <1>3 DEF TimersMatchState, TimersMatch
<1>8. HandshakeInv
  BY <1>2, <1>3 DEF HandshakeInv
<1>9. QED
  BY <1>5, <1>6, <1>7, <1>8 DEF IInv

-----------------------------------------------------------------------------
(* The theorems.                                                           *)

\* The invariant is inductive.
THEOREM Invariance == Spec => []IInv
<1>1. IInv /\ [Next]_vars => IInv'
  <2> SUFFICES ASSUME IInv, [Next]_vars
               PROVE  IInv'
    OBVIOUS
  <2>1. CASE Next
    <3>1. PICK i, j \in Iface : \/ ReceiveBeacon(i, j)
                                \/ ReceivePeerLinkFrame(i, j)
                                \/ Transmit(i, j)
                                \/ HandshakeTimer(i, j)
                                \/ BeaconTimer(i, j)
      BY <2>1 DEF Next
    <3>2. QED
      BY <3>1, BeaconStep, FrameStep, TransmitStep, TimerStep
  <2>2. CASE UNCHANGED vars
    <3>1. UNCHANGED linkVars /\ AirOK(air', confirmed)
          /\ data' \in [Iface -> [Iface -> Nat]]
      BY <2>2, InvFacts DEF vars, linkVars, IInv, TypeOK
    <3>2. QED
      BY <3>1, AirStep
  <2>3. QED
    BY <2>1, <2>2
<1>2. QED
  BY InitInv, <1>1, PTL DEF Spec

\* Every variable keeps its type.
THEOREM TypeCorrect == Spec => []TypeOK
<1>1. IInv => TypeOK
  BY DEF IInv
<1>2. QED
  BY Invariance, <1>1, PTL

\* PeerLinkStatus keeps linksTotal equal to the number of ESTAB links of the
\* mesh point.
THEOREM CountCorrect == Spec => []LinksCounted
<1>1. IInv => LinksCounted
  BY DEF IInv
<1>2. QED
  BY Invariance, <1>1, PTL

\* The state machine never leaves a handshake or a tear-down without its timer,
\* nor a timer to a state that does not wait for it.
THEOREM TimersCorrect == Spec => []TimersMatchState
<1>1. IInv => TimersMatchState
  BY DEF IInv
<1>2. QED
  BY Invariance, <1>1, PTL

\* Who is in a state of the handshake has said and heard what the state stands for.
THEOREM InvariantCorrect == Spec => []HandshakeInv
<1>1. IInv => HandshakeInv
  BY DEF IInv
<1>2. QED
  BY Invariance, <1>1, PTL

\* No sequence of lost, refused or stale frames, timeouts, tear-downs and new
\* instances lets a link become established without a handshake of its own.
THEOREM HandshakeCorrect == Spec => []HandshakeComplete
<1>1. IInv => HandshakeComplete
  BY DEF IInv, HandshakeInv, HandshakeComplete, IsActiveLink, PeerConfirmed, HasConfirmed
<1>2. QED
  BY Invariance, <1>1, PTL

\* Although each station only checks its own side, an established link joins
\* stations that support each other's basic rates.
THEOREM CompatibilityCorrect == Spec => []EstablishedIsCompatible
<1>1. IInv => EstablishedIsCompatible
  BY DEF IInv, HandshakeInv, EstablishedIsCompatible, IsActiveLink, PeerConfirmed,
         HasConfirmed
<1>2. QED
  BY Invariance, <1>1, PTL

=============================================================================
