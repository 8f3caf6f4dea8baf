----------------------------- MODULE ObssManager -----------------------------
(***************************************************************************)
(* What a station does with the HE preambles it hears: ObssWifiManager     *)
(* (src/src/wifi/model/obss-wifi-manager.cc) records the transmissions on  *)
(* the air and computes the power and rate at which the station could      *)
(* transmit beside them; MeshObssPdAlgorithm                               *)
(* (src/src/wifi/model/mesh-obss-pd-algorithm.cc) decides whether the      *)
(* station ignores the frame.                                              *)
(*                                                                         *)
(* Powers are linear and in whole units. The code compares ratios in dB; a *)
(* ratio is compared here without the division. A preamble carries a power *)
(* in tenths of a dBm and eight bits: all powers are taken to be such,     *)
(* from 0 to 25.5 dBm, so that nothing of them is lost. A station stands   *)
(* for its MAC address and its IP address, which end in the same byte.     *)
(***************************************************************************)
EXTENDS Integers, Sequences, FiniteSetsExt

CONSTANTS
  Station,
  NoHop,        \* no route to the gateway: RouteOutput fails or returns the loopback
  Gain,         \* Gain[r][s]: the part of the power of s that arrives at r
  Noise,        \* the noise floor
  NTxPower,     \* number of power levels
  PowerAt,      \* PowerAt[l]: the power of level l, for one level more than there are
  Threshold,    \* Threshold[m]: the least signal to noise ratio for rate m
  TopMcs,       \* the highest rate that a limit can name
  ObssPdLevel

Mcs == 0..TopMcs

ASSUME StationAssumption ==
  /\ NoHop \notin Station
  /\ Gain \in [Station -> [Station -> Nat]]
  /\ Noise \in Nat \ {0} /\ NTxPower \in Nat \ {0} /\ TopMcs \in Nat
  /\ PowerAt \in [0..NTxPower -> Nat]
  /\ \A l \in 1..NTxPower : PowerAt[l - 1] < PowerAt[l]
  /\ Threshold \in [Mcs -> Nat]
  /\ \A m \in Mcs \ {0} : Threshold[m - 1] < Threshold[m]
  /\ ObssPdLevel \in Nat

\* A transmission as ObssTran records it: what its preamble announces, when the preamble
\* was heard, and the duration that it gave. Its real end is not recorded.
Transmission ==
  [src: Station, dst: Station, power: Nat, mcs: Mcs, heard: Nat, time: Nat, end: Nat]

\* The record of t is over.
Over(t, now) == t.heard + t.time < now

\* Mutant of Byte: the fields are signed.
SignedByte(n) == n

\* Levels and rates are stored in a uint8_t.
Byte(n) == n % 256

Limit == [restricted: BOOLEAN, level: 0..255, mcs: 0..255]

NoLimit == [restricted |-> FALSE, level |-> 0, mcs |-> 0]

Received(r, t) == t.power * Gain[r][t.src]

-----------------------------------------------------------------------------
\* Mutant of EraseEnded: records are taken to end in the order in which they begin.
EraseOldestEnded(trans, now) == IF Over(trans[1], now) THEN Tail(trans) ELSE trans

\* The loop erases what is over, and skips the record after one that it erased.
EraseEnded(trans, now) ==
  LET Visit(l, t) == IF Over(t, now) /\ ~l.skip THEN [l EXCEPT !.skip = TRUE]
                     ELSE [kept |-> Append(l.kept, t), skip |-> FALSE]
      after[i \in 0..Len(trans)] ==
        IF i = 0 THEN [kept |-> <<>>, skip |-> FALSE] ELSE Visit(after[i - 1], trans[i])
  IN  after[Len(trans)].kept

\* None of the recorded transmissions involves the next hop or goes to s.
CheckRouting(s, trans, hop) ==
  /\ hop # NoHop
  /\ \A i \in DOMAIN trans : trans[i].src # hop /\ trans[i].dst \notin {hop, s}

\* The strength at r of the recorded transmissions to others, and of the last one to r.
Interference(r, trans) ==
  MapThenSumSet(LAMBDA i : Received(r, trans[i]), {i \in DOMAIN trans : trans[i].dst # r})

Signal(r, trans) == Received(r, trans[Max({i \in DOMAIN trans : trans[i].dst = r})])

\* Mutant of Disturbs: the interference of the others is left out.
DisturbsAlone(s, power, trans, i) ==
  LET r == trans[i].dst
  IN  Signal(r, trans) < Threshold[trans[i].mcs] * (Noise + power * Gain[r][s])

\* With s sending at power too, the receiver of transmission i could not decode its rate.
Disturbs(s, power, trans, i) ==
  LET r == trans[i].dst
  IN  Signal(r, trans) <
        Threshold[trans[i].mcs] * (Noise + power * Gain[r][s] + Interference(r, trans))

\* The search for a level goes on from level l to the next lower one: a receiver is
\* disturbed, and the path loss to each receiver before it is known.
Fails(s, l, trans, known) ==
  \E i \in DOMAIN trans :
    /\ \A j \in 1..i : <<trans[j].dst, s>> \in known
    /\ Disturbs(s, PowerAt[l], trans, i)

\* The highest level that disturbs nobody, from NTxPower down; -1 if there is none.
PowerLevel(s, trans, known) ==
  LET levels == {l \in 0..NTxPower : ~Fails(s, l, trans, known)}
  IN  IF levels = {} THEN -1 ELSE Max(levels)

\* The highest rate at which hop could decode s; -1 if there is none.
RateLimit(s, power, trans, hop) ==
  LET noise == Noise + Interference(hop, trans)
      rates == {m \in Mcs : Threshold[m] * noise < power * Gain[hop][s]}
  IN  IF rates = {} THEN -1 ELSE Max(rates)

\* Every path loss that the search meets is known.
LossesKnown(s, level, trans, hop, known) ==
  LET receivers == {trans[i].dst : i \in DOMAIN trans}
      senders == {trans[i].src : i \in DOMAIN trans}
  IN  /\ (receivers \cup {hop}) \X senders \subseteq known
      /\ level >= 0 => receivers \X {s} \subseteq known
      /\ <<hop, s>> \in known

\* The limits of s, which had old ones, when trans is recorded.
CheckObssStatus(s, trans, hop, known, old) ==
  LET level == PowerLevel(s, trans, known)
      power == PowerAt[IF level = -1 THEN 0 ELSE level]
  IN  IF CheckRouting(s, trans, hop) /\ LossesKnown(s, level, trans, hop, known)
      THEN [restricted |-> TRUE, level |-> Byte(level),
            mcs |-> Byte(RateLimit(s, power, trans, hop))]
      ELSE [old EXCEPT !.restricted = FALSE]

-----------------------------------------------------------------------------
\* MeshObssPdAlgorithm::ReceiveHeSig: t is foreign and weak.
Ignores(s, t, hop) ==
  /\ hop # NoHop
  /\ t.dst # s /\ t.dst # hop /\ t.src # hop
  /\ Received(s, t) < ObssPdLevel
=============================================================================
