---------------------------- MODULE SpatialReuse ----------------------------
(***************************************************************************)
(* Stations that reuse the channel while foreign transmissions are on the  *)
(* air: the receiving side of WifiPhy and its power restriction            *)
(* (src/src/wifi/model/wifi-phy.cc), with the two listeners to the end of  *)
(* an HE preamble of ObssManager. Time passes in ticks. What happens in    *)
(* the same tick happens in any order.                                     *)
(***************************************************************************)
EXTENDS ObssManager

CONSTANTS
  Flows,         \* <<s, d, m, k>>: s may send frames to d, at rate m and for k ticks
  hops,          \* hops[s]: the next hops to the gateway that s may have
  DefaultLevel,  \* attribute DefaultTxPowerLevel
  ObssPdLevelMin, ObssPdLevelMax,
  ReducedPower,  \* TxPowerRefSiso - (ObssPdLevel - ObssPdLevelMin)
  learnt,        \* the path losses that earlier traffic has taught
  Preamble,      \* the ticks that a preamble takes with all headers (about 44 us)
  Unit,          \* the ticks of a unit in which durations are announced (10 us)
  TimeModulus,   \* what such a duration is less than, for it has 8 bits (2.56 ms)
  MaxFrames,     \* bound: MaxFrames[s] frames of s
  MaxFaults,     \* bound: headers that cannot be decoded
  MaxTime        \* bound: ticks

ASSUME ReuseAssumption ==
  /\ Flows \subseteq Station \X Station \X Mcs \X Nat
  /\ \A f \in Flows : f[1] # f[2] /\ f[4] > Preamble
  /\ hops \in [Station -> SUBSET (Station \cup {NoHop})]
  /\ \A s \in Station : s \notin hops[s] /\ hops[s] # {}
  /\ DefaultLevel \in 0..(NTxPower - 1)
  /\ {ReducedPower, ObssPdLevelMin, ObssPdLevelMax} \subseteq Nat
  /\ learnt \subseteq Station \X Station
  /\ {Preamble, Unit, TimeModulus} \subseteq Nat \ {0} /\ Unit <= Preamble
  /\ MaxFrames \in [Station -> Nat] /\ MaxFaults \in Nat /\ MaxTime \in Nat

NoFrame == [src |-> NoHop]

VARIABLES
  now,
  air,         \* the transmissions on the air
  rx,          \* rx[s]: the transmission that the PHY of s is receiving
  preamble,    \* the stations that have not yet the headers of theirs
  deaf,        \* the stations that could not decode the last header of theirs
  ignored,     \* ignored[s]: transmissions s ignores, EndReceiveInterBss is scheduled
  restricted,  \* m_powerRestricted
  requested,   \* m_channelAccessRequested
  waiting,     \* the stations whose MAC waits for access
  known,       \* globalLossPairs, <<receiver, sender>>
  trans,       \* m_obssTrans
  limit,       \* m_obssRestricted, m_obssPowerLimit, m_obssMcsLimit
  sent,        \* sent[s]: frames of s so far
  faults

phy == <<rx, preamble, deaf, ignored, restricted, requested>>
manager == <<known, trans, limit>>
vars == <<now, air, phy, waiting, manager, sent, faults>>

Init ==
  /\ now = 0
  /\ air = {}
  /\ rx = [s \in Station |-> NoFrame]
  /\ preamble = {}
  /\ deaf = {}
  /\ ignored = [s \in Station |-> {}]
  /\ restricted = [s \in Station |-> FALSE]
  /\ requested = [s \in Station |-> FALSE]
  /\ waiting = {}
  /\ known = learnt
  /\ trans = [s \in Station |-> <<>>]
  /\ limit = [s \in Station |-> NoLimit]
  /\ sent = [s \in Station |-> 0]
  /\ faults = 0

-----------------------------------------------------------------------------
Sending(s) == \E t \in air : t.src = s

Idle(s) == rx[s] = NoFrame /\ ~Sending(s)

\* GetTxPowerForTransmission, one spatial stream.
TxPower(s) ==
  IF restricted[s] THEN Min({ReducedPower, PowerAt[DefaultLevel]})
                   ELSE PowerAt[DefaultLevel]

\* HeSigHeader::SetTime: the duration in whole units and eight bits.
Announced(ticks) == (ticks - (ticks % Unit)) % TimeModulus

\* Mutant of Sent: the receiver is given the time from the start of the frame.
SentFromStart(s, d, m, ticks) ==
  [src |-> s, dst |-> d, power |-> TxPower(s), mcs |-> m,
   heard |-> now + Preamble, time |-> Announced(ticks - Preamble), end |-> now + ticks]

\* A frame that is sent now. The receivers count the duration of the whole frame from the
\* moment when they have its headers.
Sent(s, d, m, ticks) ==
  [src |-> s, dst |-> d, power |-> TxPower(s), mcs |-> m,
   heard |-> now + Preamble, time |-> Announced(ticks), end |-> now + ticks]

\* The MAC of s has a frame.
RequestAccess(s) ==
  /\ s \notin waiting
  /\ sent[s] < MaxFrames[s]
  /\ waiting' = waiting \cup {s}
  /\ requested' = [requested EXCEPT ![s] = TRUE]
  /\ UNCHANGED <<now, air, rx, preamble, deaf, ignored, restricted, manager, sent, faults>>

\* Every idle station that the frame reaches synchronizes to it.
SendPacket(s, d, m, ticks) ==
  LET t == Sent(s, d, m, ticks)
      hear == {r \in Station \ {s} : Idle(r) /\ Received(r, t) > 0}
  IN  /\ s \in waiting
      /\ Idle(s)
      /\ air' = air \cup {t}
      /\ rx' = [r \in Station |-> IF r \in hear THEN t ELSE rx[r]]
      /\ preamble' = preamble \cup hear
      /\ waiting' = waiting \ {s}
      /\ sent' = [sent EXCEPT ![s] = @ + 1]
      /\ restricted' = [restricted EXCEPT ![s] = FALSE]
      /\ requested' = [requested EXCEPT ![s] = FALSE]
      /\ UNCHANGED <<now, deaf, ignored, manager, faults>>

\* ResetPhy restricts the power only if the level is above the least one, unlike by
\* default, where they are equal.
Restricting == ObssPdLevel > ObssPdLevelMin /\ ObssPdLevel <= ObssPdLevelMax

\* StartReceivePayload: MeshObssPdAlgorithm, then ObssWifiManager, hear of the frame.
ReceiveHeSig(s, hop) ==
  LET t == rx[s]
      recorded == EraseEnded(Append(trans[s], t), now)
      losses == known \cup {<<s, t.src>>}
      ignore == Ignores(s, t, hop)
  IN  /\ s \in preamble /\ t.heard = now
      /\ hop \in hops[s]
      /\ preamble' = preamble \ {s}
      /\ rx' = IF ignore THEN [rx EXCEPT ![s] = NoFrame] ELSE rx
      /\ ignored' = IF ignore THEN [ignored EXCEPT ![s] = @ \cup {t}] ELSE ignored
      /\ restricted' = IF ignore THEN [restricted EXCEPT ![s] = Restricting] ELSE restricted
      /\ known' = losses
      /\ trans' = [trans EXCEPT ![s] = recorded]
      /\ limit' = [limit EXCEPT ![s] = CheckObssStatus(s, recorded, hop, losses, @)]
      /\ UNCHANGED <<now, air, deaf, requested, waiting, sent, faults>>

\* StartReceivePayload: the last header, SIG-A, cannot be decoded. The PHY goes on
\* receiving until the frame ends, and gets nothing.
SigAFailure(s) ==
  /\ s \in preamble /\ rx[s].heard = now
  /\ faults < MaxFaults
  /\ faults' = faults + 1
  /\ preamble' = preamble \ {s}
  /\ deaf' = deaf \cup {s}
  /\ UNCHANGED <<now, air, rx, ignored, restricted, requested, waiting, manager, sent>>

\* The first header, L-SIG, cannot be decoded: the PHY is idle at once.
AbortCurrentReception(s) ==
  /\ s \in preamble /\ now < rx[s].heard
  /\ faults < MaxFaults
  /\ faults' = faults + 1
  /\ preamble' = preamble \ {s}
  /\ rx' = [rx EXCEPT ![s] = NoFrame]
  /\ UNCHANGED <<now, air, deaf, ignored, restricted, requested, waiting, manager, sent>>

\* Mutant of Acknowledge: the power restriction outlives the response.
AcknowledgeRestricted(S) ==
  /\ requested' = [s \in Station |-> requested[s] /\ s \notin S]
  /\ UNCHANGED restricted

\* The response of a receiver is a transmission as well.
Acknowledge(S) ==
  /\ restricted' = [s \in Station |-> restricted[s] /\ s \notin S]
  /\ requested' = [s \in Station |-> requested[s] /\ s \notin S]

\* The last bit of t. Its receiver may have been able to decode it.
EndReceive(t) ==
  /\ t \in air
  /\ t.end = now
  /\ air' = air \ {t}
  /\ rx' = [s \in Station |-> IF rx[s] = t THEN NoFrame ELSE rx[s]]
  /\ deaf' = {s \in deaf : rx[s] # t}
  /\ \/ Acknowledge({})
     \/ rx[t.dst] = t /\ t.dst \notin deaf /\ Acknowledge({t.dst})
  /\ UNCHANGED <<now, preamble, ignored, waiting, manager, sent, faults>>

\* Mutant of Lift: a station that asked for the channel loses its restriction too.
LiftAlways(s) == restricted' = [restricted EXCEPT ![s] = FALSE]

Lift(s) == restricted' = IF requested[s] THEN restricted ELSE [restricted EXCEPT ![s] = FALSE]

\* The end of a transmission that s ignores.
EndReceiveInterBss(s, t) ==
  /\ t \in ignored[s]
  /\ t.end = now
  /\ ignored' = [ignored EXCEPT ![s] = @ \ {t}]
  /\ Lift(s)
  /\ UNCHANGED <<now, air, rx, preamble, deaf, requested, waiting, manager, sent, faults>>

\* Nothing more is to happen now.
Tick ==
  /\ now < MaxTime
  /\ \A s \in preamble : rx[s].heard > now
  /\ \A t \in air \cup UNION {ignored[s] : s \in Station} : t.end > now
  /\ now' = now + 1
  /\ UNCHANGED <<air, phy, waiting, manager, sent, faults>>

Next ==
  \/ \E s \in Station :
       \/ RequestAccess(s)
       \/ \E hop \in hops[s] : ReceiveHeSig(s, hop)
       \/ SigAFailure(s)
       \/ AbortCurrentReception(s)
       \/ \E t \in ignored[s] : EndReceiveInterBss(s, t)
  \/ \E f \in Flows : SendPacket(f[1], f[2], f[3], f[4])
  \/ \E t \in air : EndReceive(t)
  \/ Tick

Spec == Init /\ [][Next]_vars

-----------------------------------------------------------------------------
(* Properties.                                                             *)

\* The state has its types. A preamble is that of a frame, and so is a header that could
\* not be decoded; nobody receives its own. Headers are heard before their frame ends, and
\* nobody misses the moment.
TypeOK ==
  /\ now \in 0..MaxTime
  /\ air \subseteq Transmission
  /\ rx \in [Station -> air \cup {NoFrame}]
  /\ \A s \in Station : rx[s].src # s
  /\ preamble \cup deaf \subseteq {s \in Station : rx[s] # NoFrame}
  /\ preamble \cap deaf = {}
  /\ \A s \in preamble : now <= rx[s].heard
  /\ \A t \in air : t.heard < t.end
  /\ ignored \in [Station -> SUBSET Transmission]
  /\ restricted \in [Station -> BOOLEAN] /\ requested \in [Station -> BOOLEAN]
  /\ waiting \subseteq Station
  /\ known \subseteq Station \X Station
  /\ trans \in [Station -> Seq(Transmission)]
  /\ limit \in [Station -> Limit]
  /\ sent \in [Station -> Nat] /\ faults \in 0..MaxFaults

\* The transmissions on the air whose preamble s has heard.
Heard(s) ==
  {t \in air : t \in ignored[s] \/ (rx[s] = t /\ s \notin preamble \cup deaf)}

\* The manager forgets no transmission before its end, although its loop erases from the
\* list it runs over: what s has heard and is still on the air is recorded.
OngoingRecorded ==
  \A s \in Station : \A t \in Heard(s) : \E i \in DOMAIN trans[s] : trans[s][i] = t

\* While s has a power limit that is one of the levels, s could transmit with it and every
\* transmission that s has heard could still be decoded, against the interference of s
\* and of all others that s has heard. (Not if two frames for one receiver are recorded:
\* the strength of the later one then counts for both.)
OngoingSpared ==
  \A s \in Station : limit[s].restricted /\ limit[s].level <= NTxPower =>
    \A t \in Heard(s) :
      Cardinality({i \in DOMAIN trans[s] : trans[s][i].dst = t.dst}) = 1 =>
        Received(t.dst, t) >= Threshold[t.mcs] *
          (Noise + PowerAt[limit[s].level] * Gain[t.dst][s]
             + MapThenSumSet(LAMBDA u : Received(t.dst, u), Heard(s) \ {t}))

\* A restriction is not left behind: it belongs to a frame that is being ignored, or
\* to a request for the channel, which will use it up.
RestrictionEnds ==
  \A s \in Station : restricted[s] => ignored[s] # {} \/ requested[s]

\* A station that asked for the channel keeps its restriction until it transmits; and
\* then transmits with no more than the reduced power, unless it answers a frame.
RestrictionUsed ==
  [][\A s \in Station : restricted[s] /\ requested[s] /\ ~restricted'[s] =>
       \/ \E t \in air' \ air : t.src = s /\ t.power <= ReducedPower
       \/ \E t \in air \ air' : t.dst = s /\ rx[s] = t /\ s \notin deaf]_vars

\* A check forgets at least half of the records that are over.
Outdated(s) == Cardinality({i \in DOMAIN trans[s] : Over(trans[s][i], now)})
EndedForgotten ==
  [][\A s \in Station : trans'[s] # trans[s] => 2 * Outdated(s)' <= Outdated(s)]_vars
=============================================================================
