------------------------- MODULE ObssManager_proofs -------------------------
(***************************************************************************)
(* What the operators of ObssManager return, for every list of recorded    *)
(* transmissions: above all the loop of CheckObssStatus that erases        *)
(* records from the list it runs over.                                     *)
(***************************************************************************)
EXTENDS ObssManager, FiniteSetTheorems, WellFoundedInduction, TLAPS

LEMMA Least ==
  ASSUME NEW T \in SUBSET Nat, T # {}
  PROVE  \E x \in T : \A y \in T : x <= y
<1> DEFINE Below == {p \in Nat \X Nat : p[1] < p[2]}
<1>1. IsWellFoundedOn(Below, Nat)
  BY NatLessThanWellFounded DEF OpToRel
<1>2. \A x, y \in Nat : y < x => <<y, x>> \in Below
  OBVIOUS
<1> HIDE DEF Below
<1>3. PICK x \in T : \A y \in T : ~(<<y, x>> \in Below)
  BY <1>1, WFMin
<1>4. \A y \in T : ~(y < x)
  BY <1>2, <1>3
<1>5. QED
  BY <1>4

\* The search runs downwards: a set of levels below n has a highest one, which is n less
\* the least distance.
LEMMA MaxFacts ==
  ASSUME NEW n \in Nat, NEW S \in SUBSET (0..n), S # {}
  PROVE  Max(S) \in S
<1> DEFINE T == {d \in 0..n : n - d \in S}
<1>0. T \subseteq Nat
  OBVIOUS
<1>1. T \in SUBSET Nat /\ T # {}
  <2>1. PICK x \in S : TRUE
    OBVIOUS
  <2>2. n - x \in 0..n /\ n - (n - x) = x
    OBVIOUS
  <2>3. n - x \in T
    BY <2>1, <2>2
  <2> HIDE DEF T
  <2>4. QED
    BY <1>0, <2>3
<1>2. PICK d \in T : \A e \in T : d <= e
  <2> HIDE DEF T
  <2>1. QED
    BY <1>1, Least
<1>3. ASSUME NEW y \in S PROVE n - d >= y
  <2>0. n - y \in 0..n /\ n - (n - y) = y
    OBVIOUS
  <2>1. n - y \in T
    BY <2>0
  <2>2. d <= n - y /\ d \in 0..n /\ y \in 0..n
    BY <1>2, <2>1
  <2>3. QED
    BY <2>2
<1>4. n - d \in S /\ \A y \in S : n - d >= y
  BY <1>2, <1>3
<1>5. QED
  BY <1>4 DEF Max

-----------------------------------------------------------------------------
(* The limits.                                                             *)

LEMMA ByteFacts == \A n \in Int : Byte(n) \in 0..255
BY DEF Byte

LEMMA PowerLevelFacts ==
  ASSUME NEW s, NEW trans, NEW known
  PROVE  PowerLevel(s, trans, known) \in -1..NTxPower
<1> DEFINE levels == {l \in 0..NTxPower : ~Fails(s, l, trans, known)}
<1>1. NTxPower \in Nat /\ levels \in SUBSET (0..NTxPower)
  BY StationAssumption
<1>2. PowerLevel(s, trans, known) = IF levels = {} THEN -1 ELSE Max(levels)
  BY DEF PowerLevel
<1> HIDE DEF levels
<1>3. CASE levels = {}
  BY <1>1, <1>2, <1>3
<1>4. CASE levels # {}
  <2>1. Max(levels) \in 0..NTxPower
    BY <1>1, <1>4, MaxFacts
  <2>2. QED
    BY <1>1, <1>2, <1>4, <2>1
<1>5. QED
  BY <1>3, <1>4

LEMMA RateLimitFacts ==
  ASSUME NEW s, NEW power, NEW trans, NEW hop
  PROVE  RateLimit(s, power, trans, hop) \in -1..TopMcs
<1> DEFINE noise == Noise + Interference(hop, trans)
           rates == {m \in Mcs : Threshold[m] * noise < power * Gain[hop][s]}
<1>1. TopMcs \in Nat /\ rates \in SUBSET (0..TopMcs)
  BY StationAssumption DEF Mcs
<1>2. RateLimit(s, power, trans, hop) = IF rates = {} THEN -1 ELSE Max(rates)
  BY DEF RateLimit
<1> HIDE DEF rates
<1>3. CASE rates = {}
  BY <1>1, <1>2, <1>3
<1>4. CASE rates # {}
  <2>1. Max(rates) \in 0..TopMcs
    BY <1>1, <1>4, MaxFacts
  <2>2. QED
    BY <1>1, <1>2, <1>4, <2>1
<1>5. QED
  BY <1>3, <1>4

LEMMA CheckObssStatusType ==
  ASSUME NEW s, NEW trans, NEW hop, NEW known, NEW old \in Limit
  PROVE  CheckObssStatus(s, trans, hop, known, old) \in Limit
<1> DEFINE level == PowerLevel(s, trans, known)
           power == PowerAt[IF level = -1 THEN 0 ELSE level]
           rate == RateLimit(s, power, trans, hop)
           new == [restricted |-> TRUE, level |-> Byte(level), mcs |-> Byte(rate)]
           none == [old EXCEPT !.restricted = FALSE]
<1>1. CheckObssStatus(s, trans, hop, known, old) \in {new, none}
  BY DEF CheckObssStatus
<1>2. level \in Int /\ rate \in Int
  <2>1. NTxPower \in Nat /\ TopMcs \in Nat
    BY StationAssumption
  <2>2. level \in -1..NTxPower /\ rate \in -1..TopMcs
    BY PowerLevelFacts, RateLimitFacts
  <2> HIDE DEF level, rate
  <2>3. QED
    BY <2>1, <2>2
<1> HIDE DEF level, rate
<1>3. Byte(level) \in 0..255 /\ Byte(rate) \in 0..255
  BY <1>2, ByteFacts
<1>4. new \in Limit
  BY <1>3 DEF Limit
<1>5. none \in Limit
  BY DEF Limit
<1>6. QED
  BY <1>1, <1>4, <1>5


-----------------------------------------------------------------------------
(* What is over among the first n records of a list.                       *)

Ended(seq, n, at) == {i \in 1..n : Over(seq[i], at)}

LEMMA EndedFinite ==
  ASSUME NEW seq, NEW n \in Nat, NEW at
  PROVE  IsFiniteSet(Ended(seq, n, at)) /\ Cardinality(Ended(seq, n, at)) \in Nat
<1>1. IsFiniteSet(1..n)
  BY FS_Interval
<1>2. Ended(seq, n, at) \subseteq 1..n
  BY DEF Ended
<1>3. QED
  BY <1>1, <1>2, FS_Subset, FS_CardinalityType

LEMMA EndedNext ==
  ASSUME NEW seq, NEW n \in Nat, NEW at
  PROVE  Cardinality(Ended(seq, n + 1, at)) =
           Cardinality(Ended(seq, n, at)) + IF Over(seq[n + 1], at) THEN 1 ELSE 0
<1> DEFINE old == Ended(seq, n, at)
           new == Ended(seq, n + 1, at)
<1>1. IsFiniteSet(old) /\ Cardinality(old) \in Nat
  BY EndedFinite
<1>2. n + 1 \notin old
  BY DEF Ended
<1>3. CASE Over(seq[n + 1], at)
  <2>1. new = old \cup {n + 1}
    BY <1>3 DEF Ended
  <2> HIDE DEF old, new
  <2>2. Cardinality(new) = Cardinality(old) + 1
    BY <1>1, <1>2, <2>1, FS_AddElement
  <2>3. QED
    BY <1>3, <2>2 DEF old, new
<1>4. CASE ~Over(seq[n + 1], at)
  <2>1. new = old
    BY <1>4 DEF Ended
  <2> HIDE DEF old, new
  <2>2. Cardinality(new) = Cardinality(old) + 0
    BY <1>1, <2>1
  <2>3. QED
    BY <1>4, <2>2 DEF old, new
<1>5. QED
  BY <1>3, <1>4

\* One more record.
LEMMA EndedAppend ==
  ASSUME NEW T, NEW seq \in Seq(T), NEW t \in T, NEW at
  PROVE  Cardinality(Ended(Append(seq, t), Len(seq) + 1, at)) =
           Cardinality(Ended(seq, Len(seq), at)) + IF Over(t, at) THEN 1 ELSE 0
<1> DEFINE n == Len(seq)
           more == Append(seq, t)
<1>1. n \in Nat /\ more[n + 1] = t /\ \A i \in 1..n : more[i] = seq[i]
  OBVIOUS
<1> HIDE DEF more, n
<1>2. Ended(more, n, at) = Ended(seq, n, at)
  BY <1>1 DEF Ended
<1>3. Cardinality(Ended(more, n + 1, at)) =
        Cardinality(Ended(more, n, at)) + IF Over(more[n + 1], at) THEN 1 ELSE 0
  BY <1>1, EndedNext
<1>4. QED
  BY <1>1, <1>2, <1>3 DEF more, n

-----------------------------------------------------------------------------
(* The loop of EraseEnded.                                                 *)

Loops == [kept: Seq(Transmission), skip: BOOLEAN]

Visit(l, t, at) ==
  IF Over(t, at) /\ ~l.skip THEN [l EXCEPT !.skip = TRUE]
  ELSE [kept |-> Append(l.kept, t), skip |-> FALSE]

\* After n records of seq, what is not over has been kept, and of what is over at most as
\* much as has been erased; less, when the next record is skipped.
Halfway(l, seq, n, at) ==
  /\ l \in Loops
  /\ \A i \in 1..n : ~Over(seq[i], at) => \E k \in 1..Len(l.kept) : l.kept[k] = seq[i]
  /\ 2 * Cardinality(Ended(l.kept, Len(l.kept), at)) + (IF l.skip THEN 1 ELSE 0)
       <= Cardinality(Ended(seq, n, at))

LEMMA HalfwayAtFirst ==
  ASSUME NEW seq, NEW at
  PROVE  Halfway([kept |-> <<>>, skip |-> FALSE], seq, 0, at)
<1> DEFINE l == [kept |-> <<>>, skip |-> FALSE]
<1>1. l \in Loops /\ l.kept = <<>> /\ Len(l.kept) = 0 /\ l.skip = FALSE
  BY DEF Loops
<1> HIDE DEF l
<1>2. Ended(l.kept, 0, at) = {} /\ Ended(seq, 0, at) = {}
  BY DEF Ended
<1>3. Cardinality({}) = 0
  BY FS_EmptySet
<1>4. Halfway(l, seq, 0, at)
  BY <1>1, <1>2, <1>3 DEF Halfway
<1>5. QED
  BY <1>4 DEF l

LEMMA HalfwayNext ==
  ASSUME NEW seq \in Seq(Transmission), NEW at \in Nat, NEW n \in Nat, n + 1 \in 1..Len(seq),
         NEW l, Halfway(l, seq, n, at)
  PROVE  Halfway(Visit(l, seq[n + 1], at), seq, n + 1, at)
<1> DEFINE t == seq[n + 1]
           kept == l.kept
           more == Append(kept, t)
           K == Cardinality(Ended(kept, Len(kept), at))
           M == Cardinality(Ended(more, Len(kept) + 1, at))
           C == Cardinality(Ended(seq, n, at))
           D == Cardinality(Ended(seq, n + 1, at))
<1>1. /\ kept \in Seq(Transmission) /\ l.skip \in BOOLEAN /\ Len(kept) \in Nat
      /\ t \in Transmission /\ l \in Loops
  <2>1. l \in Loops
    BY DEF Halfway
  <2>2. l.kept \in Seq(Transmission) /\ l.skip \in BOOLEAN
    BY <2>1 DEF Loops
  <2>3. t \in Transmission
    OBVIOUS
  <2>4. QED
    BY <2>1, <2>2, <2>3
<1>2. /\ 2 * K + (IF l.skip THEN 1 ELSE 0) <= C
      /\ \A i \in 1..n : ~Over(seq[i], at) => \E k \in 1..Len(kept) : kept[k] = seq[i]
  BY DEF Halfway
<1>3. K \in Nat /\ C \in Nat
  BY <1>1, EndedFinite
<1>4. D = C + IF Over(t, at) THEN 1 ELSE 0
  BY EndedNext
<1>5. M = K + IF Over(t, at) THEN 1 ELSE 0
  BY <1>1, EndedAppend
<1>6. CASE Over(t, at) /\ ~l.skip
  <2> DEFINE m == [l EXCEPT !.skip = TRUE]
  <2>1. Visit(l, t, at) = m
    BY <1>6 DEF Visit
  <2>2. m \in Loops /\ m.kept = kept /\ m.skip = TRUE
    BY <1>1 DEF Loops
  <2> HIDE DEF K, C, D, kept, m
  <2>3. 2 * K + 1 <= D
    BY <1>2, <1>3, <1>4, <1>6
  <2>4. 2 * Cardinality(Ended(m.kept, Len(m.kept), at)) + (IF m.skip THEN 1 ELSE 0) <= D
    BY <2>2, <2>3 DEF K
  <2>5. ASSUME NEW i \in 1..(n + 1), ~Over(seq[i], at)
        PROVE  \E k \in 1..Len(m.kept) : m.kept[k] = seq[i]
    <3>1. i # n + 1
      BY <1>1, <1>6, <2>5
    <3>2. i \in 1..n
      BY <3>1
    <3>3. QED
      BY <1>2, <2>2, <2>5, <3>2
  <2> HIDE DEF t
  <2>6. Halfway(m, seq, n + 1, at)
    BY <2>2, <2>4, <2>5 DEF Halfway, D
  <2>7. QED
    BY <2>1, <2>6 DEF t
<1>7. CASE ~(Over(t, at) /\ ~l.skip)
  <2> DEFINE m == [kept |-> more, skip |-> FALSE]
  <2>1. Visit(l, t, at) = m
    BY <1>7 DEF Visit
  <2>2. /\ more \in Seq(Transmission) /\ Len(more) = Len(kept) + 1
        /\ more[Len(kept) + 1] = t /\ \A k \in 1..Len(kept) : more[k] = kept[k]
    BY <1>1
  <2>3. m \in Loops /\ m.kept = more /\ m.skip = FALSE
    BY <2>2 DEF Loops
  <2> HIDE DEF K, C, D, M, kept, more, m
  <2>4. 2 * M + 0 <= D
    BY <1>1, <1>2, <1>3, <1>4, <1>5, <1>7
  <2>5. 2 * Cardinality(Ended(m.kept, Len(m.kept), at)) + (IF m.skip THEN 1 ELSE 0) <= D
    BY <2>2, <2>3, <2>4 DEF M
  <2>6. ASSUME NEW i \in 1..(n + 1), ~Over(seq[i], at)
        PROVE  \E k \in 1..Len(m.kept) : m.kept[k] = seq[i]
    <3>1. CASE i = n + 1
      <4>1. Len(kept) + 1 \in 1..Len(m.kept) /\ m.kept[Len(kept) + 1] = seq[i]
        BY <1>1, <2>2, <2>3, <3>1
      <4>2. QED
        BY <4>1
    <3>2. CASE i # n + 1
      <4>1. PICK k \in 1..Len(kept) : kept[k] = seq[i]
        BY <1>2, <2>6, <3>2
      <4>2. k \in 1..Len(m.kept) /\ m.kept[k] = seq[i]
        BY <1>1, <2>2, <2>3, <4>1
      <4>3. QED
        BY <4>2
    <3>3. QED
      BY <3>1, <3>2
  <2> HIDE DEF t
  <2>7. Halfway(m, seq, n + 1, at)
    BY <2>3, <2>5, <2>6 DEF Halfway, D
  <2>8. QED
    BY <2>1, <2>7 DEF t
<1>8. QED
  BY <1>6, <1>7

\* What the loop leaves of a list: the records that are not over, and at most half of
\* those that are.
Erased(seq, at, kept) ==
  /\ kept \in Seq(Transmission)
  /\ \A i \in 1..Len(seq) : ~Over(seq[i], at) => \E k \in 1..Len(kept) : kept[k] = seq[i]
  /\ 2 * Cardinality(Ended(kept, Len(kept), at)) <= Cardinality(Ended(seq, Len(seq), at))

LEMMA EraseFacts ==
  ASSUME NEW seq \in Seq(Transmission), NEW at \in Nat
  PROVE  Erased(seq, at, EraseEnded(seq, at))
<1> DEFINE first == [kept |-> <<>>, skip |-> FALSE]
           Arm(g, i) == IF i = 0 THEN first ELSE Visit(g[i - 1], seq[i], at)
           Follows(g, n) == g = [i \in 0..n |-> Arm(g, i)]
           Fine(n) == \E g : Follows(g, n) /\ \A i \in 0..n : Halfway(g[i], seq, i, at)
           Wrong == {n \in 0..Len(seq) : ~Fine(n)}
<1>1. Len(seq) \in Nat
  OBVIOUS
<1>2. Fine(0)
  <2> DEFINE g == [i \in 0..0 |-> first]
  <2>1. g = [i \in 0..0 |-> Arm(g, i)]
    OBVIOUS
  <2>2. \A i \in 0..0 : g[i] = first /\ i = 0
    OBVIOUS
  <2>3. Halfway(first, seq, 0, at)
    BY HalfwayAtFirst
  <2> HIDE DEF g, first
  <2>4. \A i \in 0..0 : Halfway(g[i], seq, i, at)
    BY <2>2, <2>3
  <2>5. QED
    BY <2>1, <2>4
<1> HIDE DEF first
<1>3. ASSUME NEW n \in 1..Len(seq), Fine(n - 1)
      PROVE  Fine(n)
  <2>1. PICK f : Follows(f, n - 1) /\ \A i \in 0..(n - 1) : Halfway(f[i], seq, i, at)
    BY <1>3
  <2> DEFINE next == Visit(f[n - 1], seq[n], at)
             g == [i \in 0..n |-> IF i = n THEN next ELSE f[i]]
  <2>2. n \in Nat /\ n # 0 /\ n - 1 \in 0..(n - 1) /\ n - 1 \in Nat /\ (n - 1) + 1 = n
    BY <1>1
  <2>3. Halfway(f[n - 1], seq, n - 1, at)
    BY <2>1, <2>2
  <2>4. Halfway(next, seq, n, at)
    BY <2>2, <2>3, HalfwayNext
  <2>5. \A i \in 0..(n - 1) : f[i] = Arm(f, i)
    <3> DEFINE F(i) == Arm(f, i)
    <3>1. f = [i \in 0..(n - 1) |-> F(i)]
      BY <2>1
    <3> HIDE DEF F
    <3>2. \A i \in 0..(n - 1) : f[i] = F(i)
      BY <3>1
    <3>3. QED
      BY <3>2 DEF F
  <2> HIDE DEF next
  <2>6. g[n] = next /\ \A i \in 0..(n - 1) : g[i] = f[i]
    BY <2>2
  <2>7. ASSUME NEW i \in 0..n
        PROVE  g[i] = Arm(g, i) /\ Halfway(g[i], seq, i, at)
    <3>1. CASE i = n
      <4>1. Arm(g, i) = next
        BY <2>2, <2>6, <3>1 DEF next
      <4>2. QED
        BY <2>4, <2>6, <3>1, <4>1
    <3>2. CASE i # n
      <4>1. i \in 0..(n - 1) /\ (i # 0 => i - 1 \in 0..(n - 1))
        BY <2>2, <3>2
      <4>2. Arm(g, i) = Arm(f, i)
        BY <2>6, <4>1
      <4>3. QED
        BY <2>1, <2>5, <2>6, <4>1, <4>2
    <3>3. QED
      BY <3>1, <3>2
  <2>8. Follows(g, n)
    <3> DEFINE G(i) == Arm(g, i)
    <3>1. \A i \in 0..n : g[i] = G(i)
      BY <2>7
    <3> HIDE DEF G
    <3>2. g = [i \in 0..n |-> G(i)]
      BY <3>1
    <3>3. QED
      BY <3>2 DEF G
  <2>9. QED
    BY <2>7, <2>8
<1>4. Fine(Len(seq))
  <2> HIDE DEF Fine
  <2> SUFFICES ASSUME Wrong # {} PROVE FALSE
    BY <1>1
  <2>1. Wrong \in SUBSET Nat
    OBVIOUS
  <2>2. PICK x \in Wrong : \A y \in Wrong : x <= y
    <3> HIDE DEF Wrong
    <3>1. QED
      BY <2>1, Least
  <2>3. x \in 1..Len(seq) /\ x - 1 \in 0..Len(seq)
    BY <1>1, <1>2
  <2>4. x - 1 \notin Wrong
    <3> HIDE DEF Wrong
    <3>1. QED
      BY <2>2, <2>3
  <2>5. Fine(x - 1)
    BY <2>3, <2>4
  <2>6. QED
    BY <1>3, <2>3, <2>5
<1>5. PICK f : Follows(f, Len(seq)) /\ \A i \in 0..Len(seq) : Halfway(f[i], seq, i, at)
  BY <1>4
<1> DEFINE after == CHOOSE g : g = [i \in 0..Len(seq) |-> Arm(g, i)]
<1>6. Follows(after, Len(seq))
  BY <1>5
<1>7. EraseEnded(seq, at) = after[Len(seq)].kept
  BY DEF EraseEnded, Visit, first
<1> HIDE DEF after
<1>8. \A i \in 0..Len(seq) : after[i] = Arm(after, i)
  <2> DEFINE F(i) == Arm(after, i)
  <2>1. after = [i \in 0..Len(seq) |-> F(i)]
    BY <1>6
  <2> HIDE DEF F
  <2>2. \A i \in 0..Len(seq) : after[i] = F(i)
    BY <2>1
  <2>3. QED
    BY <2>2 DEF F
<1> DEFINE Off == {i \in 0..Len(seq) : ~Halfway(after[i], seq, i, at)}
<1>9. Off = {}
  <2> SUFFICES ASSUME Off # {} PROVE FALSE
    OBVIOUS
  <2>1. PICK x \in Off : \A y \in Off : x <= y
    <3>1. Off \in SUBSET Nat
      OBVIOUS
    <3> HIDE DEF Off
    <3>2. QED
      BY <3>1, Least
  <2>2. x \in 0..Len(seq) /\ ~Halfway(after[x], seq, x, at)
    BY <2>1
  <2>3. x # 0
    BY <1>1, <1>8, <2>2, HalfwayAtFirst DEF first
  <2>4. x \in 1..Len(seq) /\ x - 1 \in 0..Len(seq) /\ x - 1 \in Nat /\ (x - 1) + 1 = x
    BY <1>1, <2>2, <2>3
  <2>5. Halfway(after[x - 1], seq, x - 1, at)
    <3>1. x - 1 \notin Off
      <4> HIDE DEF Off
      <4>1. QED
        BY <2>1, <2>4
    <3>2. QED
      BY <2>4, <3>1
  <2>6. after[x] = Visit(after[x - 1], seq[x], at)
    BY <1>8, <2>2, <2>3
  <2>7. QED
    BY <2>2, <2>4, <2>5, <2>6, HalfwayNext
<1>10. Halfway(after[Len(seq)], seq, Len(seq), at)
  BY <1>1, <1>9
<1> DEFINE l == after[Len(seq)]
<1> HIDE DEF l
<1>11. l.kept \in Seq(Transmission) /\ l.skip \in BOOLEAN
  BY <1>10 DEF Halfway, Loops, l
<1> DEFINE K == Cardinality(Ended(l.kept, Len(l.kept), at))
           C == Cardinality(Ended(seq, Len(seq), at))
<1>12. 2 * K + (IF l.skip THEN 1 ELSE 0) <= C /\ K \in Nat /\ C \in Nat
  BY <1>1, <1>10, <1>11, EndedFinite DEF Halfway, l
<1> HIDE DEF K, C
<1>13. 2 * K <= C
  BY <1>12
<1>14. Erased(seq, at, l.kept)
  BY <1>10, <1>11, <1>13 DEF Erased, Halfway, l, K, C
<1>15. QED
  BY <1>7, <1>14 DEF l

-----------------------------------------------------------------------------
(* Sums over finite sets: MapThenSumSet takes the elements in an order of  *)
(* its own, on which the sum does not depend.                              *)

Chosen(T) == CHOOSE x \in T : TRUE

Term(it, w, T) == IF T = {} THEN 0 ELSE w[Chosen(T)] + it[T \ {Chosen(T)}]

\* it[T] is the sum of w over T, for every subset T of U.
Summing(it, U, w) == it = [T \in SUBSET U |-> Term(it, w, T)]

LEMMA ChosenFacts ==
  ASSUME NEW T, IsFiniteSet(T), T # {}
  PROVE  Chosen(T) \in T
BY DEF Chosen

LEMMA SubsetFacts ==
  ASSUME NEW U, IsFiniteSet(U), NEW T \in SUBSET U
  PROVE  /\ IsFiniteSet(T) /\ Cardinality(T) \in Nat /\ Cardinality(T) <= Cardinality(U)
         /\ \A x \in T : Cardinality(T \ {x}) = Cardinality(T) - 1
         /\ Cardinality(T) = 0 <=> T = {}
<1>1. IsFiniteSet(T) /\ Cardinality(T) \in Nat /\ Cardinality(T) <= Cardinality(U)
  BY FS_Subset, FS_CardinalityType
<1>2. QED
  BY <1>1, FS_RemoveElement, FS_EmptySet

\* Of the subsets for which something fails one has the fewest elements.
LEMMA Smallest ==
  ASSUME NEW U, IsFiniteSet(U), NEW Bad, Bad \subseteq SUBSET U, Bad # {}
  PROVE  \E T \in Bad : \A S \in Bad : Cardinality(T) <= Cardinality(S)
<1> DEFINE sizes == {Cardinality(T) : T \in Bad}
<1>1. sizes \subseteq Nat /\ sizes # {}
  BY SubsetFacts
<1>2. PICK n \in sizes : \A m \in sizes : n <= m
  <2> HIDE DEF sizes
  <2>1. QED
    BY <1>1, Least
<1>3. QED
  BY <1>2

LEMMA SumExists ==
  ASSUME NEW U, IsFiniteSet(U), NEW w
  PROVE  \E it : Summing(it, U, w)
<1> DEFINE Small(n) == {T \in SUBSET U : Cardinality(T) <= n}
           Fine(n) == \E g : g = [T \in Small(n) |-> Term(g, w, T)]
           Wrong == {n \in Nat : ~Fine(n)}
<1>1. Fine(0)
  <2> DEFINE g == [T \in Small(0) |-> 0]
  <2>1. ASSUME NEW T \in Small(0) PROVE Term(g, w, T) = 0
    <3>1. T = {}
      BY SubsetFacts
    <3>2. QED
      BY <3>1 DEF Term
  <2>2. g = [T \in Small(0) |-> Term(g, w, T)]
    <3> DEFINE F(T) == Term(g, w, T)
    <3>1. \A T \in Small(0) : F(T) = 0
      BY <2>1
    <3> HIDE DEF F
    <3>2. g = [T \in Small(0) |-> F(T)]
      BY <3>1
    <3>3. QED
      BY <3>2 DEF F
  <2> HIDE DEF g
  <2>3. QED
    BY <2>2
<1>2. ASSUME NEW n \in Nat, Fine(n) PROVE Fine(n + 1)
  <2>1. PICK f : f = [T \in Small(n) |-> Term(f, w, T)]
    BY <1>2
  <2>2. \A T \in Small(n) : f[T] = Term(f, w, T)
    <3> DEFINE F(T) == Term(f, w, T)
    <3>1. f = [T \in Small(n) |-> F(T)]
      BY <2>1
    <3> HIDE DEF F
    <3>2. \A T \in Small(n) : f[T] = F(T)
      BY <3>1
    <3>3. QED
      BY <3>2 DEF F
  <2> DEFINE g == [T \in Small(n + 1) |-> Term(f, w, T)]
  <2>3. ASSUME NEW T \in Small(n + 1) PROVE Term(g, w, T) = Term(f, w, T)
    <3>1. CASE T = {}
      BY <3>1 DEF Term
    <3>2. CASE T # {}
      <4> DEFINE S == T \ {Chosen(T)}
      <4>1. IsFiniteSet(T) /\ Cardinality(T) \in Nat /\ Cardinality(T) <= n + 1
        BY SubsetFacts
      <4>2. Cardinality(S) = Cardinality(T) - 1
        BY <3>2, <4>1, ChosenFacts, SubsetFacts
      <4>3. S \in Small(n) /\ S \in Small(n + 1)
        BY <4>1, <4>2
      <4> HIDE DEF Small, S
      <4>4. g[S] = f[S]
        BY <2>2, <4>3
      <4> HIDE DEF g
      <4>5. QED
        BY <3>2, <4>4 DEF Term, S
    <3>3. QED
      BY <3>1, <3>2
  <2>4. g = [T \in Small(n + 1) |-> Term(g, w, T)]
    <3> DEFINE F(T) == Term(f, w, T)
               G(T) == Term(g, w, T)
    <3>1. \A T \in Small(n + 1) : G(T) = F(T)
      BY <2>3
    <3>2. g = [T \in Small(n + 1) |-> F(T)]
      OBVIOUS
    <3> HIDE DEF F, G, Small, g
    <3>3. g = [T \in Small(n + 1) |-> G(T)]
      BY <3>1, <3>2
    <3>4. QED
      BY <3>3 DEF G
  <2> HIDE DEF g
  <2>5. QED
    BY <2>4
<1>3. Wrong = {}
  <2> HIDE DEF Fine
  <2> SUFFICES ASSUME Wrong # {} PROVE FALSE
    OBVIOUS
  <2>1. PICK n \in Wrong : \A m \in Wrong : n <= m
    <3>1. Wrong \in SUBSET Nat
      OBVIOUS
    <3> HIDE DEF Wrong
    <3>2. QED
      BY <3>1, Least
  <2>2. n \in Nat /\ n # 0 /\ ~Fine(n)
    BY <1>1, <2>1
  <2>3. n - 1 \in Nat /\ (n - 1) + 1 = n
    BY <2>2
  <2>4. n - 1 \notin Wrong
    <3> HIDE DEF Wrong
    <3>1. QED
      BY <2>1, <2>2, <2>3
  <2>5. Fine(n - 1)
    BY <2>3, <2>4
  <2>6. Fine((n - 1) + 1)
    BY <1>2, <2>3, <2>5
  <2>7. QED
    BY <2>2, <2>3, <2>6
<1>4. Fine(Cardinality(U)) /\ Small(Cardinality(U)) = SUBSET U
  <2>1. Cardinality(U) \in Nat
    BY FS_CardinalityType
  <2>2. Fine(Cardinality(U))
    <3> HIDE DEF Fine
    <3>1. QED
      BY <1>3, <2>1
  <2>3. \A T \in SUBSET U : Cardinality(T) <= Cardinality(U)
    BY SubsetFacts
  <2>4. QED
    BY <2>2, <2>3
<1>5. QED
  BY <1>4 DEF Summing

LEMMA SumUnrolled ==
  ASSUME NEW U, NEW w, NEW it, Summing(it, U, w), NEW T \in SUBSET U
  PROVE  it[T] = Term(it, w, T)
<1> DEFINE F(S) == Term(it, w, S)
<1>1. it = [S \in SUBSET U |-> F(S)]
  BY DEF Summing
<1> HIDE DEF F
<1>2. it[T] = F(T)
  BY <1>1
<1>3. QED
  BY <1>2 DEF F
\* The sum of numbers is a number, and any element may be taken out first.
Splits(it, w, T) ==
  it[T] \in Nat /\ \A x \in T : it[T] = w[x] + it[T \ {x}]

LEMMA SumSplits ==
  ASSUME NEW U, IsFiniteSet(U), NEW w, \A x \in U : w[x] \in Nat, NEW it, Summing(it, U, w),
         NEW A \in SUBSET U
  PROVE  Splits(it, w, A)
<1> DEFINE Bad == {T \in SUBSET U : ~Splits(it, w, T)}
<1> SUFFICES ASSUME Bad # {} PROVE FALSE
  OBVIOUS
<1>1. PICK T \in Bad : \A S \in Bad : Cardinality(T) <= Cardinality(S)
  <2>1. Bad \subseteq SUBSET U
    OBVIOUS
  <2> HIDE DEF Bad
  <2>2. QED
    BY <2>1, Smallest
<1>2. T \in SUBSET U /\ ~Splits(it, w, T) /\ IsFiniteSet(T) /\ Cardinality(T) \in Nat
  BY <1>1, SubsetFacts
<1>3. ASSUME NEW S \in SUBSET T, NEW x \in T, x \notin S PROVE Splits(it, w, S)
  <2>1. S \in SUBSET U /\ S \in SUBSET (T \ {x})
    BY <1>2, <1>3
  <2>2. IsFiniteSet(T \ {x}) /\ Cardinality(T \ {x}) = Cardinality(T) - 1
    BY <1>2, FS_RemoveElement
  <2>3. Cardinality(S) \in Nat /\ Cardinality(S) <= Cardinality(T \ {x})
    BY <2>1, <2>2, SubsetFacts
  <2>4. ~(Cardinality(T) <= Cardinality(S))
    BY <1>2, <2>2, <2>3
  <2>5. S \notin Bad
    <3> HIDE DEF Bad
    <3>1. QED
      BY <1>1, <2>4
  <2>6. QED
    BY <2>1, <2>5
<1>4. it[T] = Term(it, w, T)
  BY <1>2, SumUnrolled
<1>5. T # {}
  BY <1>2, <1>4 DEF Splits, Term
<1> DEFINE c == Chosen(T)
           S == T \ {c}
<1>6. c \in T /\ it[T] = w[c] + it[S]
  BY <1>2, <1>4, <1>5, ChosenFacts DEF Term
<1> HIDE DEF c
<1>7. Splits(it, w, S)
  BY <1>3, <1>6
<1>8. w[c] \in Nat /\ it[S] \in Nat
  BY <1>2, <1>6, <1>7 DEF Splits
<1>9. it[T] \in Nat
  BY <1>6, <1>8
<1>10. ASSUME NEW x \in T PROVE it[T] = w[x] + it[T \ {x}]
  <2>1. CASE x = c
    BY <1>6, <2>1
  <2>2. CASE x # c
    <3> DEFINE R == T \ {x}
               both == S \ {x}
    <3>1. x \in S /\ c \in R /\ both = R \ {c}
      BY <1>6, <2>2
    <3>2. Splits(it, w, R) /\ Splits(it, w, both)
      BY <1>3
    <3> HIDE DEF S, R, both
    <3>3. it[S] = w[x] + it[both]
      <4>1. it[S] = w[x] + it[S \ {x}]
        BY <1>7, <3>1 DEF Splits
      <4>2. QED
        BY <4>1 DEF both
    <3>4. it[R] = w[c] + it[both]
      BY <3>1, <3>2 DEF Splits
    <3>5. w[x] \in Nat /\ it[both] \in Nat
      BY <1>2, <3>2 DEF Splits
    <3>6. it[T] = w[x] + it[R]
      BY <1>6, <1>8, <3>3, <3>4, <3>5
    <3>7. QED
      BY <3>6 DEF R
  <2>3. QED
    BY <2>1, <2>2
<1>11. QED
  BY <1>2, <1>9, <1>10 DEF Splits

\* A sum does not decrease when each of its terms is found again, and no two of them in
\* the same place, among those of another one.
LEMMA SumGrows ==
  ASSUME NEW U, IsFiniteSet(U), NEW w, \A x \in U : w[x] \in Nat, NEW it, Summing(it, U, w),
         NEW V, IsFiniteSet(V), NEW v, \A x \in V : v[x] \in Nat, NEW jt, Summing(jt, V, v),
         NEW f, \A x \in U : f[x] \in V /\ v[f[x]] = w[x],
         \A x, y \in U : f[x] = f[y] => x = y
  PROVE  it[U] <= jt[V] /\ it[U] \in Nat /\ jt[V] \in Nat
<1> DEFINE Less(A) == \A B \in SUBSET V : (\A x \in A : f[x] \in B) => it[A] <= jt[B]
           Bad == {A \in SUBSET U : ~Less(A)}
<1>1. Bad = {}
  <2> SUFFICES ASSUME Bad # {} PROVE FALSE
    OBVIOUS
  <2>1. PICK A \in Bad : \A S \in Bad : Cardinality(A) <= Cardinality(S)
    <3>1. Bad \subseteq SUBSET U
      OBVIOUS
    <3> HIDE DEF Bad
    <3>2. QED
      BY <3>1, Smallest
  <2>2. A \in SUBSET U /\ ~Less(A)
    BY <2>1
  <2>3. PICK B \in SUBSET V : (\A x \in A : f[x] \in B) /\ ~(it[A] <= jt[B])
    BY <2>2
  <2>4. jt[B] \in Nat
    BY SumSplits DEF Splits
  <2>5. A # {}
    <3>1. ASSUME A = {} PROVE it[A] = 0
      <4>1. it[A] = Term(it, w, A)
        BY <2>2, SumUnrolled
      <4>2. QED
        BY <3>1, <4>1 DEF Term
    <3>2. QED
      BY <2>3, <2>4, <3>1
  <2>6. PICK x \in A : TRUE
    BY <2>5
  <2> DEFINE A1 == A \ {x}
             B1 == B \ {f[x]}
  <2>7. A1 \in SUBSET U /\ B1 \in SUBSET V /\ \A y \in A1 : f[y] \in B1
    BY <2>2, <2>3, <2>6
  <2>8. Less(A1)
    <3>1. Cardinality(A) \in Nat /\ Cardinality(A1) = Cardinality(A) - 1
      BY <2>2, <2>6, SubsetFacts
    <3>2. ~(Cardinality(A) <= Cardinality(A1))
      BY <3>1
    <3>3. A1 \notin Bad
      <4> HIDE DEF Bad, A1
      <4>1. QED
        BY <2>1, <3>2
    <3>4. QED
      BY <2>7, <3>3
  <2>9. it[A1] <= jt[B1]
    BY <2>7, <2>8
  <2>10. it[A] = w[x] + it[A1] /\ it[A1] \in Nat
    <3>1. Splits(it, w, A) /\ Splits(it, w, A1)
      BY <2>2, <2>7, SumSplits
    <3>2. QED
      BY <2>6, <3>1 DEF Splits
  <2>11. jt[B] = v[f[x]] + jt[B1] /\ jt[B1] \in Nat
    <3>1. Splits(jt, v, B) /\ Splits(jt, v, B1)
      BY <2>7, SumSplits
    <3>2. f[x] \in B
      BY <2>3, <2>6
    <3>3. QED
      BY <3>1, <3>2 DEF Splits
  <2>12. v[f[x]] = w[x] /\ w[x] \in Nat
    BY <2>2, <2>6
  <2> HIDE DEF A1, B1
  <2>13. it[A] <= jt[B]
    BY <2>9, <2>10, <2>11, <2>12
  <2>14. QED
    BY <2>3, <2>13
<1>2. Less(U)
  <2> HIDE DEF Less
  <2>1. QED
    BY <1>1
<1>3. it[U] \in Nat /\ jt[V] \in Nat
  BY SumSplits DEF Splits
<1>4. it[U] <= jt[V]
  BY <1>2
<1>5. QED
  BY <1>3, <1>4

\* The two sums of received strengths: over records, and over transmissions.
RecordSum(r, trans, S) == MapThenSumSet(LAMBDA i : Received(r, trans[i]), S)

StrengthSum(r, S) == MapThenSumSet(LAMBDA u : Received(r, u), S)

LEMMA RecordsSummed ==
  ASSUME NEW r, NEW trans, NEW S, IsFiniteSet(S)
  PROVE  \E it : /\ Summing(it, S, [i \in S |-> Received(r, trans[i])])
                 /\ RecordSum(r, trans, S) = it[S]
<1> DEFINE w == [i \in S |-> Received(r, trans[i])]
           Part(g, T) == IF T = {} THEN 0 ELSE Received(r, trans[Chosen(T)]) + g[T \ {Chosen(T)}]
           it == CHOOSE g : g = [T \in SUBSET S |-> Part(g, T)]
<1>1. RecordSum(r, trans, S) = it[S]
  BY DEF RecordSum, MapThenSumSet, MapThenFoldSet, Chosen
<1>2. ASSUME NEW g, NEW T \in SUBSET S PROVE Part(g, T) = Term(g, w, T)
  <2>1. IsFiniteSet(T)
    BY FS_Subset
  <2>2. T # {} => w[Chosen(T)] = Received(r, trans[Chosen(T)])
    BY <2>1, ChosenFacts
  <2> HIDE DEF w
  <2>3. QED
    BY <2>2 DEF Term
<1> HIDE DEF w, Part
<1>3. ASSUME NEW g PROVE [T \in SUBSET S |-> Part(g, T)] = [T \in SUBSET S |-> Term(g, w, T)]
  <2> DEFINE P(T) == Part(g, T)
             Q(T) == Term(g, w, T)
  <2>1. \A T \in SUBSET S : P(T) = Q(T)
    BY <1>2
  <2> HIDE DEF P, Q
  <2>2. [T \in SUBSET S |-> P(T)] = [T \in SUBSET S |-> Q(T)]
    BY <2>1
  <2>3. QED
    BY <2>2 DEF P, Q
<1>4. PICK g : g = [T \in SUBSET S |-> Part(g, T)]
  <2>1. PICK g : g = [T \in SUBSET S |-> Term(g, w, T)]
    BY SumExists DEF Summing
  <2>2. g = [T \in SUBSET S |-> Part(g, T)]
    BY <1>3, <2>1
  <2>3. QED
    BY <2>2
<1>5. it = [T \in SUBSET S |-> Part(it, T)]
  BY <1>4
<1> HIDE DEF it
<1>6. Summing(it, S, w)
  BY <1>3, <1>5 DEF Summing
<1>7. QED
  BY <1>1, <1>6 DEF w

LEMMA StrengthsSummed ==
  ASSUME NEW r, NEW S, IsFiniteSet(S)
  PROVE  \E it : /\ Summing(it, S, [u \in S |-> Received(r, u)])
                 /\ StrengthSum(r, S) = it[S]
<1> DEFINE w == [u \in S |-> Received(r, u)]
           Part(g, T) == IF T = {} THEN 0 ELSE Received(r, Chosen(T)) + g[T \ {Chosen(T)}]
           it == CHOOSE g : g = [T \in SUBSET S |-> Part(g, T)]
<1>1. StrengthSum(r, S) = it[S]
  BY DEF StrengthSum, MapThenSumSet, MapThenFoldSet, Chosen
<1>2. ASSUME NEW g, NEW T \in SUBSET S PROVE Part(g, T) = Term(g, w, T)
  <2>1. IsFiniteSet(T)
    BY FS_Subset
  <2>2. T # {} => w[Chosen(T)] = Received(r, Chosen(T))
    BY <2>1, ChosenFacts
  <2> HIDE DEF w
  <2>3. QED
    BY <2>2 DEF Term
<1> HIDE DEF w, Part
<1>3. ASSUME NEW g PROVE [T \in SUBSET S |-> Part(g, T)] = [T \in SUBSET S |-> Term(g, w, T)]
  <2> DEFINE P(T) == Part(g, T)
             Q(T) == Term(g, w, T)
  <2>1. \A T \in SUBSET S : P(T) = Q(T)
    BY <1>2
  <2> HIDE DEF P, Q
  <2>2. [T \in SUBSET S |-> P(T)] = [T \in SUBSET S |-> Q(T)]
    BY <2>1
  <2>3. QED
    BY <2>2 DEF P, Q
<1>4. PICK g : g = [T \in SUBSET S |-> Part(g, T)]
  <2>1. PICK g : g = [T \in SUBSET S |-> Term(g, w, T)]
    BY SumExists DEF Summing
  <2>2. g = [T \in SUBSET S |-> Part(g, T)]
    BY <1>3, <2>1
  <2>3. QED
    BY <2>2
<1>5. it = [T \in SUBSET S |-> Part(it, T)]
  BY <1>4
<1> HIDE DEF it
<1>6. Summing(it, S, w)
  BY <1>3, <1>5 DEF Summing
<1>7. QED
  BY <1>1, <1>6 DEF w
-----------------------------------------------------------------------------
(* What a limit means.                                                     *)

LEMMA NoLevel == ASSUME NEW n \in Int, n + 1 = 0 PROVE Byte(n) = 255
BY DEF Byte

LEMMA TimesType == ASSUME NEW a \in Nat, NEW b \in Nat PROVE a * b \in Nat
OBVIOUS

\* A power limit that is one of the levels disturbs no receiver of a recorded
\* transmission. The level 255 stands for none: there must be fewer.
LEMMA CheckObssStatusSpares ==
  ASSUME NTxPower < 255, NEW s, NEW trans \in Seq(Transmission), NEW hop, NEW known,
         NEW old \in Limit, NEW l, l = CheckObssStatus(s, trans, hop, known, old),
         l.restricted, l.level <= NTxPower, NEW i \in DOMAIN trans
  PROVE  ~Disturbs(s, PowerAt[l.level], trans, i)
<1> DEFINE level == PowerLevel(s, trans, known)
           power == PowerAt[IF level = -1 THEN 0 ELSE level]
           new == [restricted |-> TRUE, level |-> Byte(level),
                   mcs |-> Byte(RateLimit(s, power, trans, hop))]
           levels == {n \in 0..NTxPower : ~Fails(s, n, trans, known)}
<1>1. LossesKnown(s, level, trans, hop, known) /\ l = new
  <2>1. ~[old EXCEPT !.restricted = FALSE].restricted
    BY DEF Limit
  <2>2. QED
    BY <2>1 DEF CheckObssStatus
<1>2. l.level = Byte(level)
  BY <1>1
<1>3. NTxPower \in Nat /\ level \in -1..NTxPower
  BY StationAssumption, PowerLevelFacts
<1> HIDE DEF level, new
<1>4. level # -1
  <2> SUFFICES ASSUME level = -1 PROVE FALSE
    OBVIOUS
  <2>1. level \in Int /\ level + 1 = 0
    OBVIOUS
  <2>2. Byte(level) = 255
    BY <2>1, NoLevel
  <2>3. QED
    BY <1>2, <1>3, <2>2
<1>5. level \in 0..NTxPower /\ Byte(level) = level
  BY <1>3, <1>4 DEF Byte
<1>6. level = IF levels = {} THEN -1 ELSE Max(levels)
  BY DEF level, PowerLevel
<1>7. levels \in SUBSET (0..NTxPower) /\ levels # {}
  BY <1>4, <1>6
<1>8. level \in levels
  <2> HIDE DEF levels
  <2>1. Max(levels) \in levels
    BY <1>3, <1>7, MaxFacts
  <2>2. QED
    BY <1>6, <1>7, <2>1
<1>9. ~Fails(s, level, trans, known)
  BY <1>8
<1>10. \A j \in 1..i : <<trans[j].dst, s>> \in known
  <2>1. {trans[j].dst : j \in DOMAIN trans} \X {s} \subseteq known
    BY <1>1, <1>5 DEF LossesKnown
  <2>2. \A j \in 1..i : j \in DOMAIN trans
    OBVIOUS
  <2>3. ASSUME NEW j \in 1..i PROVE <<trans[j].dst, s>> \in known
    <3>1. trans[j].dst \in {trans[k].dst : k \in DOMAIN trans}
      BY <2>2
    <3>2. QED
      BY <2>1, <3>1
  <2>4. QED
    BY <2>3
<1>11. ~Disturbs(s, PowerAt[level], trans, i)
  BY <1>9, <1>10 DEF Fails
<1>12. QED
  BY <1>2, <1>5, <1>11

LEMMA TimesGrows ==
  ASSUME NEW a \in Nat, NEW b \in Nat, NEW c \in Nat, b <= c
  PROVE  a * b <= a * c
<1> DEFINE d == c - b
<1>1. d \in Nat /\ c = b + d
  OBVIOUS
<1> HIDE DEF d
<1>2. a * c = a * b + a * d /\ a * d \in Nat /\ a * b \in Nat
  BY <1>1
<1>3. QED
  BY <1>2

LEMMA ReceivedFacts ==
  ASSUME NEW r \in Station, NEW t \in Transmission
  PROVE  Received(r, t) \in Nat
<1>1. t.power \in Nat /\ t.src \in Station
  BY DEF Transmission
<1>2. Gain[r][t.src] \in Nat
  BY <1>1, StationAssumption
<1>3. QED
  BY <1>1, <1>2 DEF Received

\* A receiver that is not disturbed, and to which one transmission only is recorded, can
\* decode it against any set of further recorded transmissions.
LEMMA NotDisturbed ==
  ASSUME NEW s \in Station, NEW trans \in Seq(Transmission), NEW power \in Nat,
         NEW i \in DOMAIN trans, ~Disturbs(s, power, trans, i),
         \A j \in DOMAIN trans : trans[j].dst = trans[i].dst => j = i,
         NEW others, trans[i] \notin others,
         \A u \in others : \E j \in DOMAIN trans : trans[j] = u
  PROVE  Received(trans[i].dst, trans[i]) >= Threshold[trans[i].mcs] *
           (Noise + power * Gain[trans[i].dst][s]
              + StrengthSum(trans[i].dst, others))
<1> DEFINE t == trans[i]
           r == t.dst
           rest == {j \in DOMAIN trans : trans[j].dst # r}
           place == [u \in others |-> CHOOSE j \in DOMAIN trans : trans[j] = u]
           w == [u \in others |-> Received(r, u)]
           v == [j \in rest |-> Received(r, trans[j])]
<1>1. t \in Transmission /\ Len(trans) \in Nat /\ DOMAIN trans = 1..Len(trans)
  OBVIOUS
<1>2. r \in Station /\ t.mcs \in Mcs
  <2> HIDE DEF t
  <2>1. QED
    BY <1>1 DEF Transmission
<1>3. \A j \in DOMAIN trans : trans[j] \in Transmission
  OBVIOUS
<1>4. \A u \in others : place[u] \in DOMAIN trans /\ trans[place[u]] = u
  OBVIOUS
<1>5. i \in DOMAIN trans /\ t = trans[i]
  OBVIOUS
<1> HIDE DEF t, place
<1>6. \A u \in others : place[u] \in rest
  BY <1>4, <1>5
<1>7. IsFiniteSet(rest) /\ IsFiniteSet(others)
  <2>1. IsFiniteSet(DOMAIN trans)
    BY <1>1, FS_Interval
  <2>2. IsFiniteSet(rest)
    BY <2>1, FS_Subset
  <2>3. place \in Injection(others, DOMAIN trans)
    <3>1. place \in [others -> DOMAIN trans]
      BY <1>4 DEF place
    <3>2. QED
      BY <1>4, <3>1 DEF Injection, IsInjective
  <2>4. QED
    BY <2>1, <2>2, <2>3, FS_Injection
<1>8. PICK it : Summing(it, others, w) /\ StrengthSum(r, others) = it[others]
  BY <1>7, StrengthsSummed
<1>9. PICK jt : Summing(jt, rest, v) /\ RecordSum(r, trans, rest) = jt[rest]
  <2> HIDE DEF rest
  <2>1. QED
    BY <1>7, RecordsSummed
<1>10. it[others] <= jt[rest] /\ it[others] \in Nat /\ jt[rest] \in Nat
  <2>1. \A u \in others : w[u] = Received(r, u) /\ w[u] \in Nat
    BY <1>2, <1>3, <1>4, ReceivedFacts
  <2>2. \A j \in rest : v[j] = Received(r, trans[j]) /\ v[j] \in Nat
    BY <1>2, <1>3, ReceivedFacts
  <2>3. \A u \in others : place[u] \in rest /\ v[place[u]] = w[u]
    BY <1>4, <1>6, <2>1, <2>2
  <2>4. \A u, x \in others : place[u] = place[x] => u = x
    BY <1>4
  <2> HIDE DEF w, v, rest, r
  <2>5. (\A u \in others : w[u] \in Nat) /\ (\A j \in rest : v[j] \in Nat)
    BY <2>1, <2>2
  <2>6. Summing(it, others, w) /\ Summing(jt, rest, v)
    BY <1>8, <1>9
  <2>7. QED
    BY <1>7, <2>3, <2>4, <2>5, <2>6, SumGrows
<1>11. Interference(r, trans) = jt[rest]
  BY <1>9 DEF Interference, RecordSum, MapThenSumSet, MapThenFoldSet
<1>12. Signal(r, trans) = Received(r, t)
  <2>1. {j \in DOMAIN trans : trans[j].dst = r} = {i}
    BY <1>5
  <2>2. Max({i}) = i
    <3>1. {i} \in SUBSET (0..Len(trans)) /\ {i} # {}
      BY <1>1, <1>5
    <3>2. QED
      BY <1>1, <3>1, MaxFacts
  <2>3. QED
    BY <1>5, <2>1, <2>2 DEF Signal
<1> DEFINE caused == power * Gain[r][s]
           own == Noise + caused
           thr == Threshold[t.mcs]
           sum == StrengthSum(r, others)
<1>13. own \in Nat /\ thr \in Nat /\ Received(r, t) \in Nat
  <2>1. Gain[r][s] \in Nat /\ Noise \in Nat /\ thr \in Nat
    BY <1>2, StationAssumption
  <2>2. own \in Nat
    <3>1. caused \in Nat
      BY <2>1, TimesType
    <3> HIDE DEF caused
    <3>2. QED
      BY <2>1, <3>1
  <2>3. Received(r, t) \in Nat
    BY <1>1, <1>2, ReceivedFacts
  <2>4. QED
    BY <2>1, <2>2, <2>3
<1>14. ~(Received(r, t) < thr * (own + jt[rest]))
  BY <1>5, <1>11, <1>12 DEF Disturbs
<1>15. sum = it[others]
  BY <1>8
<1> HIDE DEF caused, own, thr, sum, rest
<1>16. thr * (own + sum) <= thr * (own + jt[rest])
  <2>1. own + sum \in Nat /\ own + jt[rest] \in Nat /\ own + sum <= own + jt[rest]
    BY <1>10, <1>13, <1>15
  <2>2. QED
    BY <1>13, <2>1, TimesGrows
<1>17. Received(r, t) >= thr * (own + sum)
  <2>1. thr * (own + sum) \in Nat /\ thr * (own + jt[rest]) \in Nat
    BY <1>10, <1>13, <1>15
  <2>2. QED
    BY <1>13, <1>14, <1>16, <2>1
<1>18. QED
  BY <1>17 DEF caused, own, thr, sum, t
=============================================================================
