------------------------- MODULE SpatialReuse_proofs -------------------------
(***************************************************************************)
(* The power restriction of SpatialReuse is neither left behind nor lost   *)
(* while a request for the channel still needs it: for any number of       *)
(* stations, any path losses, any traffic and any routes.                  *)
(***************************************************************************)
EXTENDS SpatialReuse, ObssManager_proofs

\* The lesser of two powers.
LEMMA MinOfTwo ==
  ASSUME NEW a \in Nat, NEW b \in Nat
  PROVE  Min({a, b}) \in Nat /\ Min({a, b}) <= a /\ Min({a, b}) <= b
<1>1. \E x \in {a, b} : \A y \in {a, b} : x <= y
  OBVIOUS
<1>2. Min({a, b}) \in {a, b} /\ \A y \in {a, b} : Min({a, b}) <= y
  BY <1>1 DEF Min
<1>3. QED
  BY <1>2

\* A restricted station transmits with no more than the reduced power.
LEMMA TxPowerFacts ==
  ASSUME NEW s
  PROVE  TxPower(s) \in Nat /\ (restricted[s] => TxPower(s) <= ReducedPower)
<1>1. ReducedPower \in Nat /\ DefaultLevel \in 0..NTxPower
  BY StationAssumption, ReuseAssumption
<1>2. PowerAt[DefaultLevel] \in Nat
  BY <1>1, StationAssumption
<1>3. QED
  BY <1>1, <1>2, MinOfTwo DEF TxPower

\* RestrictionEnds is inductive, with the types of the functions it speaks of, and that
\* the level is one that restricts when some station is restricted.
IInv ==
  /\ ignored = [s \in Station |-> ignored[s]]
  /\ restricted \in [Station -> BOOLEAN]
  /\ requested \in [Station -> BOOLEAN]
  /\ \A s \in Station : restricted[s] => Restricting
  /\ RestrictionEnds

\* No station is restricted at first.
LEMMA InitHolds == Init => IInv
BY DEF Init, IInv, RestrictionEnds

\* A restriction begins with an ignored frame. The timer of the last one lifts it, unless
\* the channel was requested; and whatever takes back the request lifts it as well.
LEMMA StepHolds == IInv /\ [Next]_vars => IInv'
<1> SUFFICES ASSUME IInv, [Next]_vars PROVE IInv'
  OBVIOUS
<1> USE DEF IInv, RestrictionEnds
<1>1. ASSUME NEW s \in Station, RequestAccess(s) PROVE IInv'
  BY <1>1 DEF RequestAccess
<1>2. ASSUME NEW s \in Station, NEW hop, ReceiveHeSig(s, hop) PROVE IInv'
  <2> DEFINE t == rx[s]
  <2>1. CASE Ignores(s, t, hop)
    <3>1. /\ ignored' = [ignored EXCEPT ![s] = @ \cup {t}]
          /\ restricted' = [restricted EXCEPT ![s] = Restricting]
          /\ requested' = requested
      BY <1>2, <2>1 DEF ReceiveHeSig
    <3>2. Restricting \in BOOLEAN
      BY DEF Restricting
    <3> QED BY <3>1, <3>2
  <2>2. CASE ~Ignores(s, t, hop)
    <3>1. UNCHANGED <<ignored, restricted, requested>>
      BY <1>2, <2>2 DEF ReceiveHeSig
    <3> QED BY <3>1
  <2> QED BY <2>1, <2>2
<1>3. ASSUME NEW s \in Station, AbortCurrentReception(s) \/ SigAFailure(s) PROVE IInv'
  BY <1>3 DEF AbortCurrentReception, SigAFailure
<1>4. ASSUME NEW s \in Station, NEW t \in ignored[s], EndReceiveInterBss(s, t) PROVE IInv'
  <2>1. /\ ignored' = [ignored EXCEPT ![s] = @ \ {t}]
        /\ requested' = requested
    BY <1>4 DEF EndReceiveInterBss
  <2>2. CASE requested[s]
    BY <1>4, <2>1, <2>2 DEF EndReceiveInterBss, Lift
  <2>3. CASE ~requested[s]
    <3>1. restricted' = [restricted EXCEPT ![s] = FALSE]
      BY <1>4, <2>3 DEF EndReceiveInterBss, Lift
    <3> QED BY <2>1, <3>1
  <2> QED BY <2>2, <2>3
<1>5. ASSUME NEW s, NEW d, NEW m, NEW ticks, SendPacket(s, d, m, ticks) PROVE IInv'
  <2>1. /\ ignored' = ignored
        /\ restricted' = [restricted EXCEPT ![s] = FALSE]
        /\ requested' = [requested EXCEPT ![s] = FALSE]
    BY <1>5 DEF SendPacket
  <2> QED BY <2>1
<1>6. ASSUME NEW t \in air, EndReceive(t) PROVE IInv'
  <2>1. ignored' = ignored /\ \E S : Acknowledge(S)
    BY <1>6 DEF EndReceive
  <2> QED BY <2>1 DEF Acknowledge
<1>7. CASE Tick
  BY <1>7 DEF Tick, phy
<1>8. CASE UNCHANGED vars
  BY <1>8 DEF vars, phy
<1> HIDE DEF IInv, RestrictionEnds
<1> QED BY <1>1, <1>2, <1>3, <1>4, <1>5, <1>6, <1>7, <1>8 DEF Next

LEMMA InvariantCorrect == Spec => []IInv
BY InitHolds, StepHolds, PTL DEF Spec

\* No station stays restricted without a frame that it ignores or a transmission that it
\* has asked for: the timer of WifiPhy::ResetCca and the reset in WifiPhy::SendPacket
\* together leave nothing behind.
THEOREM RestrictionEndsCorrect == Spec => []RestrictionEnds
<1>1. IInv => RestrictionEnds
  BY DEF IInv
<1> QED BY InvariantCorrect, <1>1, PTL

\* A station that asked for the channel loses its restriction only by transmitting: a
\* frame with no more than the reduced power, or the response to one that it received.
THEOREM RestrictionUsedCorrect == Spec => RestrictionUsed
<1> DEFINE Used(s) ==
      \/ \E t \in air' \ air : t.src = s /\ t.power <= ReducedPower
      \/ \E t \in air \ air' : t.dst = s /\ rx[s] = t /\ s \notin deaf
<1>1. ASSUME IInv, [Next]_vars, NEW s \in Station, restricted[s], requested[s], ~restricted'[s]
      PROVE  Used(s)
  <2> USE <1>1 DEF IInv
  <2>1. ASSUME NEW u \in Station, RequestAccess(u) PROVE FALSE
    BY <2>1 DEF RequestAccess
  <2>2. ASSUME NEW u \in Station, NEW hop, ReceiveHeSig(u, hop) PROVE FALSE
    <3>1. \/ restricted' = [restricted EXCEPT ![u] = Restricting]
          \/ restricted' = restricted
      BY <2>2 DEF ReceiveHeSig
    <3> QED BY <3>1
  <2>3. ASSUME NEW u \in Station, AbortCurrentReception(u) \/ SigAFailure(u) PROVE FALSE
    BY <2>3 DEF AbortCurrentReception, SigAFailure
  <2>4. ASSUME NEW u \in Station, NEW t \in ignored[u], EndReceiveInterBss(u, t) PROVE FALSE
    BY <2>4 DEF EndReceiveInterBss, Lift
  <2>5. ASSUME NEW u, NEW d, NEW m, NEW ticks, SendPacket(u, d, m, ticks) PROVE Used(s)
    <3> DEFINE t == Sent(u, d, m, ticks)
    <3>1. u = s
      BY <2>5 DEF SendPacket
    <3>2. t \in air'
      BY <2>5 DEF SendPacket
    <3>3. t \notin air
      BY <2>5 DEF SendPacket, Idle, Sending, Sent
    <3>4. t.src = s /\ t.power <= ReducedPower
      BY <3>1, TxPowerFacts DEF Sent
    <3> QED BY <3>2, <3>3, <3>4
  <2>6. ASSUME NEW t \in air, EndReceive(t) PROVE Used(s)
    <3>1. air' = air \ {t}
      BY <2>6 DEF EndReceive
    <3>2. rx[t.dst] = t /\ t.dst \notin deaf /\ Acknowledge({t.dst})
      BY <2>6 DEF EndReceive, Acknowledge
    <3>3. t.dst = s
      BY <3>2 DEF Acknowledge
    <3> QED BY <3>1, <3>2, <3>3
  <2>7. CASE Tick
    BY <2>7 DEF Tick, phy
  <2>8. CASE UNCHANGED vars
    BY <2>8 DEF vars, phy
  <2> HIDE DEF Used
  <2> QED BY <2>1, <2>2, <2>3, <2>4, <2>5, <2>6, <2>7, <2>8 DEF Next
<1>2. IInv /\ [Next]_vars =>
        [\A s \in Station : restricted[s] /\ requested[s] /\ ~restricted'[s] => Used(s)]_vars
  BY <1>1
<1> QED BY InvariantCorrect, <1>2, PTL DEF Spec, RestrictionUsed

-----------------------------------------------------------------------------
(* Types.                                                                  *)

LEMMA FrameFacts ==
  ASSUME NEW t \in Transmission
  PROVE  /\ t.src \in Station /\ t.dst \in Station
         /\ t.heard \in Nat /\ t.time \in Nat /\ t.end \in Nat
         /\ t.src # NoFrame.src /\ t # NoFrame
<1>1. /\ t.src \in Station /\ t.dst \in Station
      /\ t.heard \in Nat /\ t.time \in Nat /\ t.end \in Nat
  BY DEF Transmission
<1>2. NoFrame.src = NoHop /\ NoHop \notin Station
  BY StationAssumption DEF NoFrame
<1>3. QED
  BY <1>1, <1>2

\* The announced duration falls short of the real one by less than a unit, and thus by
\* less than the preamble, unless it is too long for what can be announced.
LEMMA AnnouncedFacts ==
  ASSUME NEW ticks \in Nat
  PROVE  /\ Announced(ticks) \in Nat
         /\ ticks < TimeModulus => ticks <= Preamble + Announced(ticks)
<1> DEFINE rest == ticks % Unit
<1>1. /\ Preamble \in Nat \ {0} /\ Unit \in Nat \ {0} /\ TimeModulus \in Nat \ {0}
      /\ Unit <= Preamble
  BY ReuseAssumption
<1>2. rest \in Nat /\ rest < Unit /\ rest <= ticks
  BY <1>1
<1> DEFINE whole == ticks - rest
<1> HIDE DEF rest
<1>3. whole \in Nat /\ whole <= ticks /\ ticks <= Preamble + whole
  BY <1>1, <1>2
<1>4. Announced(ticks) = whole % TimeModulus
  BY DEF Announced, rest
<1> HIDE DEF whole
<1>5. whole % TimeModulus \in Nat /\ (whole < TimeModulus => whole % TimeModulus = whole)
  BY <1>1, <1>3
<1>6. ticks < TimeModulus => whole < TimeModulus
  BY <1>1, <1>3
<1>7. QED
  BY <1>3, <1>4, <1>5, <1>6

\* A frame that is sent is a transmission.
LEMMA SentFacts ==
  ASSUME now \in Nat, NEW s \in Station, NEW d \in Station, NEW m \in Mcs, NEW ticks \in Nat
  PROVE  /\ Sent(s, d, m, ticks) \in Transmission
         /\ Sent(s, d, m, ticks).src = s
         /\ now <= Sent(s, d, m, ticks).heard
         /\ Preamble < ticks => Sent(s, d, m, ticks).heard < Sent(s, d, m, ticks).end
<1>1. TxPower(s) \in Nat /\ Announced(ticks) \in Nat
  BY TxPowerFacts, AnnouncedFacts
<1>2. /\ now + Preamble \in Nat /\ now + ticks \in Nat
      /\ now <= now + Preamble
      /\ Preamble < ticks => now + Preamble < now + ticks
  BY ReuseAssumption
<1>3. QED
  BY <1>1, <1>2 DEF Sent, Transmission

LEMMA FlowFacts ==
  ASSUME NEW f \in Flows
  PROVE  f[1] \in Station /\ f[2] \in Station /\ f[3] \in Mcs /\ f[4] \in Nat /\ f[4] > Preamble
<1>1. f \in Station \X Station \X Mcs \X Nat /\ f[4] > Preamble
  BY ReuseAssumption
<1>2. QED
  BY <1>1

LEMMA InitTypes == Init => TypeOK
<1> SUFFICES ASSUME Init PROVE TypeOK
  OBVIOUS
<1>1. MaxTime \in Nat /\ MaxFaults \in Nat /\ learnt \subseteq Station \X Station
  BY ReuseAssumption
<1>2. NoFrame.src \notin Station
  BY StationAssumption DEF NoFrame
<1>3. NoLimit \in Limit
  BY DEF NoLimit, Limit
<1>4. <<>> \in Seq(Transmission)
  OBVIOUS
<1>5. now \in 0..MaxTime /\ faults \in 0..MaxFaults /\ sent \in [Station -> Nat]
  BY <1>1 DEF Init
<1>6. rx \in [Station -> air \cup {NoFrame}] /\ \A s \in Station : rx[s].src # s
  BY <1>2 DEF Init
<1>7. trans \in [Station -> Seq(Transmission)] /\ limit \in [Station -> Limit]
  BY <1>3, <1>4 DEF Init
<1>8. QED
  BY <1>1, <1>5, <1>6, <1>7 DEF Init, TypeOK

LEMMA SendPacketType ==
  ASSUME TypeOK, NEW s \in Station, NEW d \in Station, NEW m \in Mcs, NEW ticks \in Nat,
         Preamble < ticks, SendPacket(s, d, m, ticks)
  PROVE  TypeOK'
<1> DEFINE t == Sent(s, d, m, ticks)
           hear == {r \in Station \ {s} : Idle(r) /\ Received(r, t) > 0}
<1>1. /\ air' = air \cup {t}
      /\ rx' = [r \in Station |-> IF r \in hear THEN t ELSE rx[r]]
      /\ preamble' = preamble \cup hear
      /\ waiting' = waiting \ {s}
      /\ sent' = [sent EXCEPT ![s] = @ + 1]
      /\ restricted' = [restricted EXCEPT ![s] = FALSE]
      /\ requested' = [requested EXCEPT ![s] = FALSE]
      /\ UNCHANGED <<now, deaf, ignored, known, trans, limit, faults>>
  BY DEF SendPacket, manager
<1>2. t \in Transmission /\ t.src = s /\ now <= t.heard /\ t.heard < t.end
  <2>1. now \in Nat
    BY DEF TypeOK
  <2>2. QED
    BY <2>1, SentFacts
<1>3. /\ hear \subseteq Station \ {s} /\ t # NoFrame
      /\ \A r \in hear : rx[r] = NoFrame
  BY <1>2, FrameFacts DEF Idle
<1> HIDE DEF t, hear
<1> USE DEF TypeOK
<1>4. air' \subseteq Transmission /\ rx' \in [Station -> air' \cup {NoFrame}]
  BY <1>1, <1>2
<1>5. ASSUME NEW r \in Station PROVE rx'[r].src # r
  BY <1>1, <1>2, <1>3
<1>6. /\ preamble' \cup deaf' \subseteq {r \in Station : rx'[r] # NoFrame}
      /\ preamble' \cap deaf' = {}
      /\ \A r \in preamble' : now' <= rx'[r].heard
      /\ \A u \in air' : u.heard < u.end
  BY <1>1, <1>2, <1>3
<1>7. sent' \in [Station -> Nat]
  BY <1>1
<1>8. /\ restricted' \in [Station -> BOOLEAN] /\ requested' \in [Station -> BOOLEAN]
      /\ waiting' \subseteq Station
  BY <1>1
<1>9. QED
  BY <1>1, <1>4, <1>5, <1>6, <1>7, <1>8

LEMMA ReceiveHeSigType ==
  ASSUME TypeOK, NEW s \in Station, NEW hop, ReceiveHeSig(s, hop)
  PROVE  TypeOK'
<1> DEFINE t == rx[s]
           recorded == EraseEnded(Append(trans[s], t), now)
           losses == known \cup {<<s, t.src>>}
           ignore == Ignores(s, t, hop)
<1>1. /\ s \in preamble
      /\ preamble' = preamble \ {s}
      /\ rx' = IF ignore THEN [rx EXCEPT ![s] = NoFrame] ELSE rx
      /\ ignored' = IF ignore THEN [ignored EXCEPT ![s] = @ \cup {t}] ELSE ignored
      /\ restricted' = IF ignore THEN [restricted EXCEPT ![s] = Restricting] ELSE restricted
      /\ known' = losses
      /\ trans' = [trans EXCEPT ![s] = recorded]
      /\ limit' = [limit EXCEPT ![s] = CheckObssStatus(s, recorded, hop, losses, @)]
      /\ UNCHANGED <<now, air, deaf, requested, waiting, sent, faults>>
  BY DEF ReceiveHeSig
<1>2. t \in air /\ t \in Transmission /\ t.src \in Station /\ now \in Nat
  <2>1. t \in air /\ t \in Transmission /\ now \in Nat
    BY <1>1 DEF TypeOK
  <2>2. QED
    BY <2>1, FrameFacts
<1>3. recorded \in Seq(Transmission)
  <2>1. trans[s] \in Seq(Transmission)
    BY DEF TypeOK
  <2>2. Append(trans[s], t) \in Seq(Transmission)
    BY <1>2, <2>1
  <2>3. QED
    BY <1>2, <2>2, EraseFacts DEF Erased
<1>4. ASSUME NEW old \in Limit PROVE CheckObssStatus(s, recorded, hop, losses, old) \in Limit
  BY CheckObssStatusType
<1>5. NoFrame.src # s /\ Restricting \in BOOLEAN
  BY StationAssumption DEF NoFrame, Restricting
<1> HIDE DEF t, recorded, losses, ignore
<1> USE DEF TypeOK
<1>6. rx' \in [Station -> air' \cup {NoFrame}] /\ \A r \in Station : rx'[r].src # r
  BY <1>1, <1>5
<1>7. /\ preamble' \cup deaf' \subseteq {r \in Station : rx'[r] # NoFrame}
      /\ preamble' \cap deaf' = {}
      /\ \A r \in preamble' : now' <= rx'[r].heard
  BY <1>1
<1>8. ignored' \in [Station -> SUBSET Transmission]
  BY <1>1, <1>2
<1>9. restricted' \in [Station -> BOOLEAN] /\ known' \subseteq Station \X Station
  BY <1>1, <1>2, <1>5 DEF losses
<1>10. trans' \in [Station -> Seq(Transmission)]
  BY <1>1, <1>3
<1>11. limit' \in [Station -> Limit]
  BY <1>1, <1>4
<1>12. QED
  BY <1>1, <1>6, <1>7, <1>8, <1>9, <1>10, <1>11

LEMMA EndReceiveType ==
  ASSUME TypeOK, NEW t \in air, EndReceive(t)
  PROVE  TypeOK'
<1>1. /\ air' = air \ {t} /\ deaf' = {s \in deaf : rx[s] # t}
      /\ rx' = [s \in Station |-> IF rx[s] = t THEN NoFrame ELSE rx[s]]
      /\ UNCHANGED <<now, preamble, ignored, waiting, known, trans, limit, sent, faults>>
  BY DEF EndReceive, manager
<1>2. \E S : Acknowledge(S)
  BY DEF EndReceive
<1>3. NoFrame.src \notin Station
  BY StationAssumption DEF NoFrame
<1>4. ASSUME NEW s \in preamble PROVE rx[s] # t
  <2>1. t.end = now /\ t.heard < t.end /\ now <= rx[s].heard /\ t \in Transmission
    BY DEF EndReceive, TypeOK
  <2>2. t.heard \in Nat /\ t.end \in Nat
    BY <2>1, FrameFacts
  <2>3. QED
    BY <2>1, <2>2
<1> USE DEF TypeOK
<1>5. /\ preamble' \cup deaf' \subseteq {s \in Station : rx'[s] # NoFrame}
      /\ preamble' \cap deaf' = {}
      /\ \A s \in preamble' : now' <= rx'[s].heard
  BY <1>1, <1>4
<1>6. restricted' \in [Station -> BOOLEAN] /\ requested' \in [Station -> BOOLEAN]
  BY <1>2 DEF Acknowledge
<1>7. rx' \in [Station -> air' \cup {NoFrame}] /\ \A s \in Station : rx'[s].src # s
  BY <1>1, <1>3
<1>8. QED
  BY <1>1, <1>5, <1>6, <1>7

LEMMA StepTypes == TypeOK /\ [Next]_vars => TypeOK'
<1> SUFFICES ASSUME TypeOK, [Next]_vars PROVE TypeOK'
  OBVIOUS
<1>1. ASSUME NEW s \in Station, RequestAccess(s) PROVE TypeOK'
  BY <1>1 DEF RequestAccess, manager, TypeOK
<1>2. ASSUME NEW s \in Station, NEW hop, ReceiveHeSig(s, hop) PROVE TypeOK'
  BY <1>2, ReceiveHeSigType
<1>3. ASSUME NEW s \in Station, AbortCurrentReception(s) PROVE TypeOK'
  <2>1. /\ s \in preamble /\ faults < MaxFaults /\ faults' = faults + 1
        /\ preamble' = preamble \ {s} /\ rx' = [rx EXCEPT ![s] = NoFrame]
        /\ UNCHANGED <<now, air, deaf, ignored, restricted, requested, waiting>>
        /\ UNCHANGED <<known, trans, limit, sent>>
    BY <1>3 DEF AbortCurrentReception, manager
  <2>2. NoFrame.src \notin Station /\ MaxFaults \in Nat
    BY StationAssumption, ReuseAssumption DEF NoFrame
  <2> USE DEF TypeOK
  <2>3. faults' \in 0..MaxFaults
    BY <2>1, <2>2
  <2>4. rx' \in [Station -> air' \cup {NoFrame}] /\ \A r \in Station : rx'[r].src # r
    BY <2>1, <2>2
  <2>5. /\ preamble' \cup deaf' \subseteq {r \in Station : rx'[r] # NoFrame}
        /\ preamble' \cap deaf' = {}
        /\ \A r \in preamble' : now' <= rx'[r].heard
    BY <2>1
  <2>6. QED
    BY <2>1, <2>3, <2>4, <2>5
<1>9. ASSUME NEW s \in Station, SigAFailure(s) PROVE TypeOK'
  <2>1. /\ s \in preamble /\ faults < MaxFaults /\ faults' = faults + 1
        /\ preamble' = preamble \ {s} /\ deaf' = deaf \cup {s}
        /\ UNCHANGED <<now, air, rx, ignored, restricted, requested, waiting>>
        /\ UNCHANGED <<known, trans, limit, sent>>
    BY <1>9 DEF SigAFailure, manager
  <2>2. MaxFaults \in Nat
    BY ReuseAssumption
  <2> USE DEF TypeOK
  <2>3. faults' \in 0..MaxFaults
    BY <2>1, <2>2
  <2>4. /\ preamble' \cup deaf' \subseteq {r \in Station : rx'[r] # NoFrame}
        /\ preamble' \cap deaf' = {}
    BY <2>1
  <2>5. QED
    BY <2>1, <2>3, <2>4
<1>4. ASSUME NEW s \in Station, NEW t \in ignored[s], EndReceiveInterBss(s, t) PROVE TypeOK'
  <2>1. /\ ignored' = [ignored EXCEPT ![s] = @ \ {t}]
        /\ UNCHANGED <<now, air, rx, preamble, deaf, requested, waiting>>
        /\ UNCHANGED <<known, trans, limit, sent, faults>>
    BY <1>4 DEF EndReceiveInterBss, manager
  <2> USE DEF TypeOK
  <2>2. restricted' \in [Station -> BOOLEAN]
    BY <1>4 DEF EndReceiveInterBss, Lift
  <2>3. ignored' \in [Station -> SUBSET Transmission]
    BY <2>1
  <2>4. QED
    BY <2>1, <2>2, <2>3
<1>5. ASSUME NEW f \in Flows, SendPacket(f[1], f[2], f[3], f[4]) PROVE TypeOK'
  BY <1>5, FlowFacts, SendPacketType
<1>6. ASSUME NEW t \in air, EndReceive(t) PROVE TypeOK'
  BY <1>6, EndReceiveType
<1>7. CASE Tick
  <2>1. now < MaxTime /\ now' = now + 1 /\ MaxTime \in Nat
    BY <1>7, ReuseAssumption DEF Tick
  <2>2. now' \in 0..MaxTime
    BY <2>1 DEF TypeOK
  <2>3. ASSUME NEW s \in preamble' PROVE now' <= rx'[s].heard
    <3>1. s \in preamble /\ rx'[s] = rx[s] /\ rx[s].heard > now
      BY <1>7, <2>3 DEF Tick, phy
    <3>2. rx[s] \in Transmission
      BY <3>1 DEF TypeOK
    <3>3. rx[s].heard \in Nat /\ now \in Nat
      BY <3>2, FrameFacts DEF TypeOK
    <3>4. QED
      BY <2>1, <3>1, <3>3
  <2>4. QED
    BY <1>7, <2>2, <2>3 DEF Tick, phy, manager, TypeOK
<1>8. CASE UNCHANGED vars
  BY <1>8 DEF vars, phy, manager, TypeOK
<1> QED BY <1>1, <1>2, <1>3, <1>4, <1>5, <1>6, <1>7, <1>8, <1>9 DEF Next

\* The state keeps its types, whatever the loops of the manager and of its searches return.
THEOREM TypeCorrect == Spec => []TypeOK
BY InitTypes, StepTypes, PTL DEF Spec

-----------------------------------------------------------------------------
(* What the manager has recorded.                                          *)

\* A duration is announced modulo TimeModulus: a frame that lasts longer is taken for a
\* short one, and forgotten before its end.
ShortFrames == \A f \in Flows : f[4] < TimeModulus

Recorded(s, t) == \E i \in DOMAIN trans[s] : trans[s][i] = t

\* A record outlives its frame, which is not over yet: the announced duration falls short
\* by less than the preamble, and is counted from the preamble's end.
Lasting(t) == now <= t.end /\ t.end <= t.heard + t.time

Timely == \A t \in air : Lasting(t)

\* The frame that s is receiving, once it has the headers, and the frames that it ignores.
Heeded(s) ==
  ignored[s] \cup (IF s \in preamble \cup deaf THEN {} ELSE {rx[s]} \ {NoFrame})

\* What s heeds is recorded and not over. OngoingRecorded speaks of the frames on the air
\* only; an ignored frame may have left the air already, and is recorded all the same.
AllRecorded == \A s \in Station : \A t \in Heeded(s) : Lasting(t) /\ Recorded(s, t)

RecordsInv == TypeOK /\ Timely /\ AllRecorded

LEMMA InitRecords == Init => RecordsInv
BY InitTypes DEF Init, RecordsInv, Timely, AllRecorded, Heeded

\* No frame is heeded that was not, and none on the air is new.
LEMMA RecordsKept ==
  ASSUME RecordsInv, TypeOK', UNCHANGED <<now, trans>>, air' \subseteq air,
         \A r \in Station : Heeded(r)' \subseteq Heeded(r)
  PROVE  RecordsInv'
<1>1. Timely'
  BY DEF RecordsInv, Timely, Lasting
<1>2. AllRecorded'
  BY DEF RecordsInv, AllRecorded, Recorded, Lasting
<1>3. QED
  BY <1>1, <1>2 DEF RecordsInv

LEMMA SendPacketRecords ==
  ASSUME RecordsInv, TypeOK', NEW s \in Station, NEW d, NEW m, NEW ticks \in Nat,
         ticks < TimeModulus, SendPacket(s, d, m, ticks)
  PROVE  RecordsInv'
<1> DEFINE t == Sent(s, d, m, ticks)
           hear == {r \in Station \ {s} : Idle(r) /\ Received(r, t) > 0}
<1>1. /\ air' = air \cup {t} /\ UNCHANGED <<now, deaf, ignored, trans>>
      /\ rx' = [r \in Station |-> IF r \in hear THEN t ELSE rx[r]]
      /\ preamble' = preamble \cup hear
  BY DEF SendPacket, manager
<1>2. Lasting(t)
  <2>1. now \in Nat /\ Preamble \in Nat /\ Announced(ticks) \in Nat
    BY ReuseAssumption, AnnouncedFacts DEF RecordsInv, TypeOK
  <2>2. ticks <= Preamble + Announced(ticks)
    BY AnnouncedFacts
  <2>3. t.heard = now + Preamble /\ t.time = Announced(ticks) /\ t.end = now + ticks
    BY DEF Sent
  <2> HIDE DEF t
  <2>4. QED
    BY <2>1, <2>2, <2>3 DEF Lasting
<1> HIDE DEF t, hear
<1>4. Timely'
  BY <1>1, <1>2 DEF RecordsInv, Timely, Lasting
<1>5. ASSUME NEW r \in Station PROVE Heeded(r)' \subseteq Heeded(r)
  BY <1>1 DEF Heeded
<1>6. AllRecorded'
  BY <1>1, <1>5 DEF RecordsInv, AllRecorded, Recorded, Lasting
<1>7. QED
  BY <1>4, <1>6 DEF RecordsInv

\* The preamble of t is recorded, and the check keeps what is not over.
LEMMA ReceiveHeSigRecords ==
  ASSUME RecordsInv, TypeOK', NEW s \in Station, NEW hop, ReceiveHeSig(s, hop)
  PROVE  RecordsInv'
<1> DEFINE t == rx[s]
           listed == Append(trans[s], t)
           recorded == EraseEnded(listed, now)
           ignore == Ignores(s, t, hop)
<1>1. /\ s \in preamble /\ preamble' = preamble \ {s} /\ UNCHANGED <<now, air, deaf>>
      /\ rx' = IF ignore THEN [rx EXCEPT ![s] = NoFrame] ELSE rx
      /\ ignored' = IF ignore THEN [ignored EXCEPT ![s] = @ \cup {t}] ELSE ignored
      /\ trans' = [trans EXCEPT ![s] = recorded]
  BY DEF ReceiveHeSig
<1>2. /\ rx \in [Station -> air \cup {NoFrame}] /\ ignored \in [Station -> SUBSET Transmission]
      /\ trans \in [Station -> Seq(Transmission)] /\ now \in Nat /\ air \subseteq Transmission
      /\ t # NoFrame
  BY <1>1 DEF RecordsInv, TypeOK
<1>3. t \in Transmission /\ t \in air /\ Lasting(t)
  BY <1>2 DEF RecordsInv, Timely
<1>5. /\ listed \in Seq(Transmission) /\ Len(listed) = Len(trans[s]) + 1
      /\ Len(trans[s]) \in Nat /\ DOMAIN trans[s] = 1..Len(trans[s])
      /\ listed[Len(trans[s]) + 1] = t
      /\ \A i \in 1..Len(trans[s]) : listed[i] = trans[s][i]
  <2>1. trans[s] \in Seq(Transmission)
    BY <1>2
  <2>2. QED
    BY <1>3, <2>1
<1>6. Erased(listed, now, recorded)
  BY <1>2, <1>5, EraseFacts
<1> HIDE DEF listed, recorded, ignore
<1>7. ASSUME NEW u, Lasting(u), u = t \/ Recorded(s, u)
      PROVE  Recorded(s, u)'
  <2>1. PICK i \in 1..Len(listed) : listed[i] = u
    <3>1. CASE u = t
      <4>1. Len(trans[s]) + 1 \in 1..Len(listed)
        BY <1>5
      <4>2. QED
        BY <1>5, <3>1, <4>1
    <3>2. CASE Recorded(s, u)
      <4>1. PICK i \in 1..Len(trans[s]) : trans[s][i] = u
        BY <1>5, <3>2 DEF Recorded
      <4>2. i \in 1..Len(listed) /\ listed[i] = u
        BY <1>5, <4>1
      <4>3. QED
        BY <4>2
    <3>3. QED
      BY <1>7, <3>1, <3>2
  <2>2. ~Over(listed[i], now)
    <3>1. listed[i] \in Transmission
      BY <1>5
    <3>2. u.heard \in Nat /\ u.time \in Nat /\ u.end \in Nat
      BY <2>1, <3>1, FrameFacts
    <3>3. QED
      BY <1>2, <1>7, <2>1, <3>2 DEF Lasting, Over
  <2>3. PICK k \in 1..Len(recorded) : recorded[k] = u
    BY <1>6, <2>1, <2>2 DEF Erased
  <2>4. trans'[s] = recorded /\ DOMAIN recorded = 1..Len(recorded)
    BY <1>1, <1>2, <1>6 DEF Erased
  <2>5. QED
    BY <2>3, <2>4 DEF Recorded
<1>8. Heeded(s)' \subseteq Heeded(s) \cup {t}
  <2> HIDE DEF t
  <2>1. CASE ignore
    <3>1. rx'[s] = NoFrame /\ ignored'[s] = ignored[s] \cup {t}
      BY <1>1, <1>2, <2>1
    <3>2. QED
      BY <3>1 DEF Heeded
  <2>2. CASE ~ignore
    BY <1>1, <2>2 DEF Heeded, t
  <2>3. QED
    BY <2>1, <2>2
<1>9. ASSUME NEW r \in Station, r # s
      PROVE  Heeded(r)' = Heeded(r) /\ trans'[r] = trans[r]
  <2>1. rx'[r] = rx[r] /\ ignored'[r] = ignored[r] /\ (r \in preamble' <=> r \in preamble)
    BY <1>1, <1>2, <1>9
  <2>2. QED
    BY <1>1, <1>2, <1>9, <2>1 DEF Heeded
<1>10. ASSUME NEW r \in Station, NEW u \in Heeded(r)'
       PROVE  Lasting(u)' /\ Recorded(r, u)'
  <2>1. CASE r = s
    <3>1. u = t \/ u \in Heeded(s)
      BY <1>8, <1>10, <2>1
    <3>2. Lasting(u) /\ (u = t \/ Recorded(s, u))
      BY <1>3, <3>1 DEF RecordsInv, AllRecorded
    <3>3. QED
      BY <1>1, <1>7, <2>1, <3>2 DEF Lasting
  <2>2. CASE r # s
    BY <1>1, <1>9, <1>10, <2>2 DEF RecordsInv, AllRecorded, Recorded, Lasting
  <2>3. QED
    BY <2>1, <2>2
<1>11. AllRecorded'
  BY <1>10 DEF AllRecorded
<1>12. Timely'
  BY <1>1 DEF RecordsInv, Timely, Lasting
<1>13. QED
  BY <1>11, <1>12 DEF RecordsInv

LEMMA StepRecords == ASSUME ShortFrames PROVE RecordsInv /\ [Next]_vars => RecordsInv'
<1> SUFFICES ASSUME RecordsInv, [Next]_vars PROVE RecordsInv'
  OBVIOUS
<1>0. TypeOK'
  BY StepTypes DEF RecordsInv
<1>1. ASSUME NEW s \in Station, RequestAccess(s) PROVE RecordsInv'
  BY <1>0, <1>1, RecordsKept DEF RequestAccess, manager, Heeded
<1>2. ASSUME NEW s \in Station, NEW hop, ReceiveHeSig(s, hop) PROVE RecordsInv'
  BY <1>0, <1>2, ReceiveHeSigRecords
<1>3. ASSUME NEW s \in Station, AbortCurrentReception(s) PROVE RecordsInv'
  <2>1. /\ preamble' = preamble \ {s} /\ rx' = [rx EXCEPT ![s] = NoFrame]
        /\ UNCHANGED <<now, air, deaf, ignored, trans>>
        /\ rx \in [Station -> air \cup {NoFrame}] /\ s \in preamble
    BY <1>3 DEF AbortCurrentReception, manager, RecordsInv, TypeOK
  <2>2. ASSUME NEW r \in Station PROVE Heeded(r)' \subseteq Heeded(r)
    BY <2>1 DEF Heeded
  <2>3. QED
    BY <1>0, <2>1, <2>2, RecordsKept
<1>9. ASSUME NEW s \in Station, SigAFailure(s) PROVE RecordsInv'
  <2>1. /\ preamble' = preamble \ {s} /\ deaf' = deaf \cup {s}
        /\ UNCHANGED <<now, air, rx, ignored, trans>>
    BY <1>9 DEF SigAFailure, manager
  <2>2. ASSUME NEW r \in Station PROVE Heeded(r)' \subseteq Heeded(r)
    BY <2>1 DEF Heeded
  <2>3. QED
    BY <1>0, <2>1, <2>2, RecordsKept
<1>4. ASSUME NEW s \in Station, NEW t \in ignored[s], EndReceiveInterBss(s, t) PROVE RecordsInv'
  <2>1. /\ ignored' = [ignored EXCEPT ![s] = @ \ {t}]
        /\ UNCHANGED <<now, air, rx, preamble, deaf, trans>>
        /\ ignored \in [Station -> SUBSET Transmission]
    BY <1>4 DEF EndReceiveInterBss, manager, RecordsInv, TypeOK
  <2>2. ASSUME NEW r \in Station PROVE Heeded(r)' \subseteq Heeded(r)
    BY <2>1 DEF Heeded
  <2>3. QED
    BY <1>0, <2>1, <2>2, RecordsKept
<1>5. ASSUME NEW f \in Flows, SendPacket(f[1], f[2], f[3], f[4]) PROVE RecordsInv'
  <2>1. f[1] \in Station /\ f[4] \in Nat /\ f[4] < TimeModulus
    BY FlowFacts DEF ShortFrames
  <2>2. QED
    BY <1>0, <1>5, <2>1, SendPacketRecords
<1>6. ASSUME NEW t \in air, EndReceive(t) PROVE RecordsInv'
  <2>1. /\ air' \subseteq air /\ rx' = [s \in Station |-> IF rx[s] = t THEN NoFrame ELSE rx[s]]
        /\ deaf' = {s \in deaf : rx[s] # t}
        /\ UNCHANGED <<now, preamble, ignored, trans>>
    BY <1>6 DEF EndReceive, manager
  <2>2. ASSUME NEW r \in Station PROVE Heeded(r)' \subseteq Heeded(r)
    BY <2>1 DEF Heeded
  <2>3. QED
    BY <1>0, <2>1, <2>2, RecordsKept
<1>7. CASE Tick
  <2>1. /\ now' = now + 1 /\ UNCHANGED <<air, rx, preamble, deaf, ignored, trans>>
        /\ \A t \in air : t.end > now
        /\ \A s \in Station : \A t \in ignored[s] : t.end > now
    BY <1>7 DEF Tick, phy, manager
  <2>2. /\ now \in Nat /\ air \subseteq Transmission /\ rx \in [Station -> air \cup {NoFrame}]
        /\ ignored \in [Station -> SUBSET Transmission]
        /\ \A t \in Transmission : t.end \in Nat
    BY FrameFacts DEF RecordsInv, TypeOK
  <2>3. ASSUME NEW t \in Transmission, t.end > now, Lasting(t) PROVE Lasting(t)'
    BY <2>1, <2>2, <2>3 DEF Lasting
  <2>4. Timely'
    BY <2>1, <2>2, <2>3 DEF RecordsInv, Timely
  <2>5. ASSUME NEW s \in Station, NEW t \in Heeded(s)'
        PROVE  Lasting(t)' /\ Recorded(s, t)'
    <3>1. t \in Heeded(s)
      BY <2>1, <2>5 DEF Heeded
    <3>2. t \in ignored[s] \/ t \in air
      BY <2>2, <3>1 DEF Heeded
    <3>3. t.end > now /\ t \in Transmission
      BY <2>1, <2>2, <3>2
    <3>4. Lasting(t) /\ Recorded(s, t)
      BY <3>1 DEF RecordsInv, AllRecorded
    <3>5. QED
      BY <2>1, <2>3, <3>3, <3>4 DEF Recorded
  <2>6. AllRecorded'
    BY <2>5 DEF AllRecorded
  <2>7. QED
    BY <1>0, <2>4, <2>6 DEF RecordsInv
<1>8. CASE UNCHANGED vars
  BY <1>0, <1>8, RecordsKept DEF vars, phy, manager, Heeded
<1> QED BY <1>1, <1>2, <1>3, <1>4, <1>5, <1>6, <1>7, <1>8, <1>9 DEF Next

\* When no frame lasts longer than a preamble can announce, the manager forgets none that
\* its station has heard before the frame ends, although the loop of CheckObssStatus
\* erases records from the list that it runs over.
THEOREM OngoingRecordedCorrect == ASSUME ShortFrames PROVE Spec => []OngoingRecorded
<1>1. RecordsInv => OngoingRecorded
  <2> SUFFICES ASSUME RecordsInv, NEW s \in Station, NEW t \in Heard(s) PROVE Recorded(s, t)
    BY DEF OngoingRecorded, Recorded
  <2>1. t \in air /\ t \in Transmission
    BY DEF Heard, RecordsInv, TypeOK
  <2>2. t # NoFrame
    BY <2>1, FrameFacts
  <2>3. t \in Heeded(s)
    BY <2>2 DEF Heard, Heeded
  <2>4. QED
    BY <2>3 DEF RecordsInv, AllRecorded
<1>2. RecordsInv /\ [Next]_vars => RecordsInv'
  BY StepRecords
<1>3. QED
  BY InitRecords, <1>1, <1>2, PTL DEF Spec

\* A check that changes the list erases at least half of what is over.
LEMMA HalfForgotten ==
  ASSUME TypeOK, TypeOK', NEW s \in Station, NEW hop, ReceiveHeSig(s, hop)
  PROVE  2 * Outdated(s)' <= Outdated(s)
<1> DEFINE t == rx[s]
           old == trans[s]
           listed == Append(old, t)
           recorded == EraseEnded(listed, now)
<1>1. s \in preamble /\ t.heard = now /\ now' = now /\ trans' = [trans EXCEPT ![s] = recorded]
  BY DEF ReceiveHeSig
<1>2. now \in Nat /\ old \in Seq(Transmission) /\ t \in Transmission
  <2>1. /\ rx \in [Station -> air \cup {NoFrame}] /\ air \subseteq Transmission
        /\ trans \in [Station -> Seq(Transmission)] /\ now \in Nat /\ t # NoFrame
    BY <1>1 DEF TypeOK
  <2>2. QED
    BY <2>1
<1>3. ~Over(t, now)
  <2>1. t.heard = now /\ t.time \in Nat
    BY <1>1, <1>2, FrameFacts
  <2> HIDE DEF t
  <2>2. QED
    BY <1>2, <2>1 DEF Over
<1>4. trans'[s] = recorded
  BY <1>1 DEF TypeOK
<1> HIDE DEF t
<1>5. /\ Len(old) \in Nat /\ DOMAIN old = 1..Len(old)
      /\ listed \in Seq(Transmission) /\ Len(listed) = Len(old) + 1
  BY <1>2
<1>6. Cardinality(Ended(listed, Len(listed), now)) = Cardinality(Ended(old, Len(old), now)) + 0
  BY <1>2, <1>3, <1>5, EndedAppend
<1>7. Erased(listed, now, recorded)
  BY <1>2, <1>5, EraseFacts
<1> HIDE DEF listed, recorded
<1>8. DOMAIN recorded = 1..Len(recorded)
  BY <1>7 DEF Erased
<1>9. Outdated(s)' = Cardinality(Ended(recorded, Len(recorded), now))
  BY <1>1, <1>4, <1>8 DEF Outdated, Ended, Over
<1>10. Outdated(s) = Cardinality(Ended(old, Len(old), now))
  BY <1>5 DEF Outdated, Ended
<1>11. Cardinality(Ended(old, Len(old), now)) \in Nat
  BY <1>5, EndedFinite
<1>12. QED
  BY <1>6, <1>7, <1>9, <1>10, <1>11 DEF Erased

\* Whatever a station hears, its list of records does not fill with transmissions that
\* are over: each check erases at least half of them, although its loop skips the record
\* after one that it erased.
THEOREM EndedForgottenCorrect == Spec => EndedForgotten
<1> DEFINE Half == \A s \in Station : trans'[s] # trans[s] => 2 * Outdated(s)' <= Outdated(s)
<1>1. ASSUME TypeOK, TypeOK', [Next]_vars PROVE Half
  <2>1. ASSUME NEW s \in Station, NEW hop, ReceiveHeSig(s, hop) PROVE Half
    <3>1. 2 * Outdated(s)' <= Outdated(s)
      BY <1>1, <2>1, HalfForgotten
    <3>2. \A r \in Station \ {s} : trans'[r] = trans[r]
      BY <1>1, <2>1 DEF ReceiveHeSig, TypeOK
    <3>3. QED
      BY <3>1, <3>2
  <2>2. CASE trans' = trans
    BY <2>2
  <2>3. QED
    <3> HIDE DEF Half
    <3>1. CASE UNCHANGED vars
      BY <2>2, <3>1 DEF vars, manager
    <3>2. CASE Next
      BY <2>1, <2>2, <3>2 DEF Next, RequestAccess, SigAFailure, AbortCurrentReception, EndReceiveInterBss,
         SendPacket, EndReceive, Tick, manager
    <3>3. QED
      BY <1>1, <3>1, <3>2
<1>2. TypeOK /\ TypeOK' /\ [Next]_vars => [Half]_vars
  BY <1>1
<1>3. QED
  BY TypeCorrect, <1>2, PTL DEF Spec, EndedForgotten

-----------------------------------------------------------------------------
(* What a limit promises.                                                  *)

\* A limit names a level in a uint8_t, in which 255 stands for none.
FewLevels == NTxPower < 255

\* The list has not changed since the limit was computed from it.
LimitsSpare ==
  \A s \in Station : limit[s].restricted /\ limit[s].level <= NTxPower =>
    \A i \in DOMAIN trans[s] : ~Disturbs(s, PowerAt[limit[s].level], trans[s], i)

LEMMA InitSpares == Init => LimitsSpare
BY DEF Init, LimitsSpare, NoLimit

LEMMA StepSpares == ASSUME FewLevels PROVE TypeOK /\ TypeOK' /\ LimitsSpare /\ [Next]_vars => LimitsSpare'
<1> SUFFICES ASSUME TypeOK, TypeOK', LimitsSpare, [Next]_vars PROVE LimitsSpare'
  OBVIOUS
<1>1. ASSUME NEW s \in Station, NEW hop, ReceiveHeSig(s, hop) PROVE LimitsSpare'
  <2> DEFINE recorded == EraseEnded(Append(trans[s], rx[s]), now)
             losses == known \cup {<<s, rx[s].src>>}
  <2>1. /\ trans' = [trans EXCEPT ![s] = recorded]
        /\ limit' = [limit EXCEPT ![s] = CheckObssStatus(s, recorded, hop, losses, @)]
    BY <1>1 DEF ReceiveHeSig
  <2> HIDE DEF recorded, losses
  <2>2. trans'[s] = recorded /\ limit'[s] = CheckObssStatus(s, recorded, hop, losses, limit[s])
    BY <2>1 DEF TypeOK
  <2>3. recorded \in Seq(Transmission) /\ limit[s] \in Limit
    BY <2>2 DEF TypeOK
  <2>4. \A r \in Station \ {s} : trans'[r] = trans[r] /\ limit'[r] = limit[r]
    BY <2>1 DEF TypeOK
  <2>5. ASSUME NEW r \in Station, limit'[r].restricted, limit'[r].level <= NTxPower,
               NEW i \in DOMAIN trans'[r]
        PROVE  ~Disturbs(r, PowerAt[limit'[r].level], trans'[r], i)
    <3>1. CASE r = s
      <4> DEFINE l == limit'[s]
      <4>0. l = CheckObssStatus(s, recorded, hop, losses, limit[s])
        BY <2>2
      <4>1. l.restricted /\ l.level <= NTxPower
        BY <2>5, <3>1
      <4>2. i \in DOMAIN recorded /\ NTxPower < 255
        BY <2>2, <2>5, <3>1 DEF FewLevels
      <4> HIDE DEF l
      <4>3. ~Disturbs(s, PowerAt[l.level], recorded, i)
        BY <2>3, <4>0, <4>1, <4>2, CheckObssStatusSpares
      <4>4. QED
        BY <2>2, <3>1, <4>3 DEF l
    <3>2. CASE r # s
      BY <2>4, <2>5, <3>2 DEF LimitsSpare
    <3>3. QED
      BY <3>1, <3>2
  <2>6. QED
    BY <2>5 DEF LimitsSpare
<1>2. CASE UNCHANGED <<trans, limit>>
  BY <1>2 DEF LimitsSpare
<1>3. CASE UNCHANGED vars
  BY <1>2, <1>3 DEF vars, manager
<1>4. CASE Next
  BY <1>1, <1>2, <1>4 DEF Next, RequestAccess, SigAFailure, AbortCurrentReception, EndReceiveInterBss,
     SendPacket, EndReceive, Tick, manager
<1>5. QED
  BY <1>3, <1>4

\* The strengths that a station has heard of are among those it has recorded.
LEMMA HeardSpared ==
  ASSUME RecordsInv, LimitsSpare, NEW s \in Station, NEW t \in Heard(s),
         limit[s].restricted, limit[s].level <= NTxPower,
         Cardinality({i \in DOMAIN trans[s] : trans[s][i].dst = t.dst}) = 1
  PROVE  Received(t.dst, t) >= Threshold[t.mcs] *
           (Noise + PowerAt[limit[s].level] * Gain[t.dst][s]
              + StrengthSum(t.dst, Heard(s) \ {t}))
<1> DEFINE list == trans[s]
           power == PowerAt[limit[s].level]
           same == {i \in DOMAIN list : list[i].dst = t.dst}
           others == Heard(s) \ {t}
<1>1. list \in Seq(Transmission) /\ limit[s] \in Limit
  BY DEF RecordsInv, TypeOK
<1>2. power \in Nat
  <2>1. limit[s].level \in 0..NTxPower
    <3>1. limit[s].level \in 0..255
      BY <1>1 DEF Limit
    <3>2. NTxPower \in Nat
      BY StationAssumption
    <3>3. QED
      BY <3>1, <3>2
  <2>2. QED
    BY <2>1, StationAssumption
<1>3. \A u \in Heard(s) : \E i \in DOMAIN list : list[i] = u
  <2>1. ASSUME NEW u \in Heard(s) PROVE Recorded(s, u)
    <3>1. u \in Transmission
      BY DEF Heard, RecordsInv, TypeOK
    <3>2. u # NoFrame
      BY <3>1, FrameFacts
    <3>3. u \in Heeded(s)
      BY <3>2 DEF Heard, Heeded
    <3>4. QED
      BY <3>3 DEF RecordsInv, AllRecorded
  <2>2. QED
    BY <2>1 DEF Recorded
<1>4. PICK i \in DOMAIN list : list[i] = t
  BY <1>3
<1>5. \A j \in DOMAIN list : list[j].dst = list[i].dst => j = i
  <2>1. IsFiniteSet(same)
    <3>1. Len(list) \in Nat /\ DOMAIN list = 1..Len(list)
      BY <1>1
    <3>2. IsFiniteSet(DOMAIN list)
      BY <3>1, FS_Interval
    <3>3. QED
      BY <3>2, FS_Subset
  <2>2. Cardinality(same) = 1
    OBVIOUS
  <2>3. i \in same /\ \A j \in DOMAIN list : list[j].dst = list[i].dst => j \in same
    BY <1>4
  <2> HIDE DEF same
  <2>4. \E x : same = {x}
    BY <2>1, <2>2, FS_Singleton
  <2>5. QED
    BY <2>3, <2>4
<1>6. ~Disturbs(s, power, list, i)
  BY DEF LimitsSpare
<1>7. list[i] \notin others /\ \A u \in others : \E j \in DOMAIN list : list[j] = u
  BY <1>3, <1>4
<1> HIDE DEF list, power, others
<1>8. Received(list[i].dst, list[i]) >= Threshold[list[i].mcs] *
        (Noise + power * Gain[list[i].dst][s] + StrengthSum(list[i].dst, others))
  BY <1>1, <1>2, <1>5, <1>6, <1>7, NotDisturbed
<1>9. Received(t.dst, t) >= Threshold[t.mcs] *
        (Noise + power * Gain[t.dst][s] + StrengthSum(t.dst, others))
  BY <1>4, <1>8
<1>10. QED
  BY <1>9 DEF power, others

\* When no frame lasts longer than a preamble can announce and the levels can be told from
\* their absence, a station that transmits with its power limit disturbs no transmission
\* that it has heard: the receiver can decode it against the station and all others that
\* the station has heard, whatever they are and in whatever order they began and ended.
THEOREM OngoingSparedCorrect == ASSUME ShortFrames, FewLevels PROVE Spec => []OngoingSpared
<1>1. RecordsInv /\ LimitsSpare => OngoingSpared
  BY HeardSpared DEF OngoingSpared, StrengthSum, MapThenSumSet, MapThenFoldSet
<1>2. RecordsInv /\ LimitsSpare /\ [Next]_vars => RecordsInv' /\ LimitsSpare'
  <2>1. RecordsInv /\ [Next]_vars => RecordsInv'
    BY StepRecords
  <2>2. TypeOK /\ TypeOK' /\ LimitsSpare /\ [Next]_vars => LimitsSpare'
    BY StepSpares
  <2>3. (RecordsInv => TypeOK) /\ (RecordsInv' => TypeOK')
    BY DEF RecordsInv
  <2>4. QED
    BY <2>1, <2>2, <2>3
<1>3. QED
  BY InitRecords, InitSpares, <1>1, <1>2, PTL DEF Spec
=============================================================================
