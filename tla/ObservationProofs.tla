-------------------------- MODULE ObservationProofs --------------------------
(***************************************************************************)
(* What the oracle promises for every ring, every update duration, every   *)
(* width of the sums and every history of prices.                          *)
(***************************************************************************)
EXTENDS Observation, TLAPS

(* Remainders *)

LEMMA TimesZero ==
  ASSUME NEW a \in Nat
  PROVE  a * 0 = 0
OBVIOUS

LEMMA RemainderRange ==
  ASSUME NEW a \in Int, NEW m \in Nat \ {0}
  PROVE  a % m \in 0..(m - 1)
OBVIOUS

LEMMA Division ==
  ASSUME NEW a \in Int, NEW m \in Nat \ {0}
  PROVE  a \div m \in Int /\ a = m * (a \div m) + (a % m)
<1>1. a \div m \in Int
  OBVIOUS
<1>2. a = m * (a \div m) + (a % m)
  OBVIOUS
<1> QED BY <1>1, <1>2

LEMMA RemainderUnique ==
  ASSUME NEW a \in Int, NEW m \in Nat \ {0}, NEW q \in Int, NEW r \in 0..(m - 1),
         a = m * q + r
  PROVE  a % m = r
OBVIOUS

\* A multiple of the modulus does not show ...
LEMMA RemainderShift ==
  ASSUME NEW a \in Int, NEW m \in Nat \ {0}, NEW k \in Int
  PROVE  (a + m * k) % m = a % m
<1> DEFINE q == a \div m
<1> DEFINE r == a % m
<1>1. q \in Int /\ r \in 0..(m - 1) /\ a = m * q + r
  BY RemainderRange, Division
<1>2. a + m * k = m * (q + k) + r
  BY <1>1
<1> HIDE DEF q, r
<1>3. (a + m * k) % m = r
  BY <1>1, <1>2, RemainderUnique
<1> QED BY <1>3 DEF r

\* ... so sums that agree still agree when the same is added to both,
LEMMA RemainderAdds ==
  ASSUME NEW a \in Int, NEW b \in Int, NEW c \in Int, NEW m \in Nat \ {0}, a % m = b % m
  PROVE  (a + c) % m = (b + c) % m
<1> DEFINE p == a \div m
<1> DEFINE q == b \div m
<1>1. p \in Int /\ q \in Int /\ a - m * p = b - m * q
  BY RemainderRange, Division
<1> HIDE DEF p, q
<1>2. a + c = (b + c) + m * (p - q)
  BY <1>1
<1>3. (b + c) \in Int /\ (p - q) \in Int
  BY <1>1
<1>4. ((b + c) + m * (p - q)) % m = (b + c) % m
  BY <1>3, RemainderShift
<1> QED BY <1>2, <1>4

\* and taking the remainder of a sum early changes nothing (wrapping_add).
LEMMA RemainderTwice ==
  ASSUME NEW a \in Int, NEW m \in Nat \ {0}
  PROVE  (a % m) % m = a % m
OBVIOUS

----------------------------------------------------------------------------
(* The ring *)

LEMMA NextSlotInRing ==
  ASSUME NEW i \in Slots
  PROVE  NextSlot(i) \in Slots /\ NextSlot(i) # i
BY ObservationAssumption DEF NextSlot, Slots

\* The newest observation is the only one that is behind none.
LEMMA BehindRange ==
  ASSUME index \in Slots, NEW i \in Slots
  PROVE  Behind(i) \in 0..(ObservationNum - 1) /\ (Behind(i) = 0 <=> i = index)
BY ObservationAssumption DEF Behind, Slots

\* When a slot is taken, all others fall behind by one.
LEMMA BehindOneMore ==
  ASSUME index \in Slots, index' = NextSlot(index), NEW i \in Slots
  PROVE  Behind(i)' = IF i = index' THEN 0 ELSE Behind(i) + 1
BY ObservationAssumption DEF Behind, Slots, NextSlot

\* A distance in slots, and what one slot more adds to it.
LEMMA SpacingGrows ==
  ASSUME NEW d \in Nat, NEW n \in Nat
  PROVE  /\ n * d \in Nat /\ (n + 1) * d = n * d + d
         /\ n > 0 => n * d >= d
<1>1. n * d \in Nat /\ (n + 1) * d = n * d + d
  OBVIOUS
<1>2. ASSUME n > 0
      PROVE  n * d >= d
  <2>1. n - 1 \in Nat /\ n = (n - 1) + 1
    BY <1>2
  <2>2. n * d = (n - 1) * d + d /\ (n - 1) * d \in Nat
    BY <2>1
  <2> QED BY <2>2
<1> QED BY <1>1, <1>2

----------------------------------------------------------------------------
(* The invariant *)

\* Before the first update there is nothing in the ring and nothing to record.
Untouched ==
  /\ index = 0 /\ integral = 0 /\ lastUpdate = 0
  /\ observations = [i \in Slots |-> Empty]

\* Afterwards the newest observation has a timestamp, and the last update, if
\* it is known, is not before it.
Started ==
  /\ observations[index].time > 0
  /\ lastUpdate # 0 => lastUpdate >= observations[index].time

IInv ==
  /\ TypeOK /\ now > 0
  /\ IF initialized THEN Started ELSE Untouched
  /\ NewestIsExact
  /\ RingOrdered

LEMMA InitGood == Init => IInv
<1> SUFFICES ASSUME Init PROVE IInv
  OBVIOUS
<1>1. /\ StartTime \in Nat /\ StartTime > 0 /\ Modulus \in Nat \ {0}
      /\ Prices \subseteq Nat /\ 0 \in Slots
      /\ LegacySums \subseteq 0..(Modulus - 1)
  BY ObservationAssumption DEF Slots
<1>2. CASE ~initialized
  <2>1. /\ observations = [i \in Slots |-> Empty] /\ integral = 0 /\ index = 0
        /\ lastUpdate = 0 /\ now = StartTime /\ price \in Prices /\ initialized = FALSE
    BY <1>2 DEF Init
  <2>2. TypeOK
    <3>1. Empty \in [time : 0..now, cumulative : 0..(Modulus - 1)]
      BY <1>1, <2>1 DEF Empty
    <3>2. observations \in [Slots -> [time : 0..now, cumulative : 0..(Modulus - 1)]]
      BY <2>1, <3>1
    <3>3. initialized \in BOOLEAN /\ index \in Slots /\ price \in Prices
      BY <1>1, <2>1, Zenon
    <3>4. lastUpdate \in 0..now /\ now \in Nat /\ integral \in Nat
      BY <1>1, <2>1
    <3> QED BY <3>2, <3>3, <3>4 DEF TypeOK
  <2>3. RingOrdered
    <3>1. \A i, j \in Slots : ~Before(i, j)
      <4> SUFFICES ASSUME NEW i \in Slots, NEW j \in Slots, observations[i].time # 0
                   PROVE  ~(Behind(i) > Behind(j))
        BY DEF Before
      <4>1. index \in Slots /\ i = index
        BY <1>1, <2>1 DEF Empty
      <4> QED BY <4>1, BehindRange
    <3> QED BY <3>1 DEF RingOrdered
  <2> QED BY <1>1, <1>2, <2>1, <2>2, <2>3 DEF IInv, Untouched, NewestIsExact
<1>3. CASE initialized
  <2>1. /\ initialized = TRUE /\ integral \in 0..(Modulus - 1) /\ index = 0
        /\ lastUpdate = 0 /\ now = StartTime /\ price \in Nat /\ price \in Prices
        /\ observations = [i \in Slots |-> IF i = 0 THEN [time |-> StartTime, cumulative |-> integral]
                                                   ELSE Empty]
    BY <1>1, <1>3 DEF Init
  <2>2. TypeOK
    BY <1>1, <2>1 DEF TypeOK, Empty
  <2>3. RingOrdered
    <3>1. \A i, j \in Slots : ~Before(i, j)
      <4> SUFFICES ASSUME NEW i \in Slots, NEW j \in Slots, observations[i].time # 0
                   PROVE  ~(Behind(i) > Behind(j))
        BY DEF Before
      <4>1. index \in Slots /\ i = index
        BY <1>1, <2>1 DEF Empty
      <4> QED BY <4>1, BehindRange
    <3> QED BY <3>1 DEF RingOrdered
  <2>4. /\ observations[index].time = StartTime
        /\ observations[index].cumulative = integral
    BY <1>1, <2>1
  <2>5. NewestIsExact
    <3>1. LastUpdate = now /\ Elapsed = 0
      BY <1>1, <2>1, <2>4 DEF LastUpdate, Elapsed
    <3>2. Accumulated = integral % Modulus
      BY <1>1, <2>1, <2>4, <3>1 DEF Accumulated
    <3> QED BY <3>2 DEF NewestIsExact
  <2> QED BY <1>1, <1>3, <2>1, <2>2, <2>3, <2>4, <2>5 DEF IInv, Started
<1> QED BY <1>2, <1>3

\* What the types say of the newest observation and the time since the update.
LEMMA NewestTyped ==
  ASSUME IInv, initialized
  PROVE  /\ observations[index].time \in 1..now
         /\ observations[index].cumulative \in 0..(Modulus - 1)
         /\ LastUpdate \in observations[index].time..now /\ Elapsed \in Nat
         /\ price \in Nat /\ now \in Nat /\ Modulus \in Nat \ {0}
         /\ price * Elapsed \in Nat
         /\ Accumulated \in 0..(Modulus - 1)
<1>1. price \in Nat /\ now \in Nat /\ Modulus \in Nat \ {0} /\ lastUpdate \in 0..now
  BY ObservationAssumption DEF IInv, TypeOK
<1>2. observations[index].time \in 1..now /\ observations[index].cumulative \in 0..(Modulus - 1)
  BY <1>1 DEF IInv, TypeOK, Started
<1>3. LastUpdate \in observations[index].time..now
  BY <1>1, <1>2 DEF IInv, Started, LastUpdate
<1>4. Elapsed \in Nat
  BY <1>1, <1>2, <1>3 DEF Elapsed
<1>5. price * Elapsed \in Nat
  BY <1>1, <1>4
<1>6. Accumulated \in 0..(Modulus - 1)
  <2> DEFINE sum == observations[index].cumulative + price * Elapsed
  <2>1. sum \in Int
    BY <1>2, <1>5
  <2> HIDE DEF sum
  <2>2. sum % Modulus \in 0..(Modulus - 1)
    BY <1>1, <2>1, RemainderRange
  <2> QED BY <2>2 DEF Accumulated, sum
<1> QED BY <1>1, <1>2, <1>3, <1>4, <1>5, <1>6

\* Once nothing is outstanding, no new price disturbs the sum.
LEMMA ExactAfterUpdate ==
  ASSUME IInv, initialized', price' \in Prices, UNCHANGED <<now, integral>>,
         observations'[index'].cumulative \in Nat,
         observations'[index'].cumulative % Modulus = integral % Modulus,
         LastUpdate' = now
  PROVE  NewestIsExact'
<1>1. price' \in Nat /\ now \in Nat
  BY ObservationAssumption DEF IInv, TypeOK
<1>2. Elapsed' = 0
  BY <1>1 DEF Elapsed
<1>3. price' * Elapsed' = 0
  <2>1. price' * 0 = 0
    BY <1>1, TimesZero, Zenon
  <2> QED BY <1>2, <2>1, Zenon
<1>4. Accumulated' = observations'[index'].cumulative % Modulus
  BY <1>3 DEF Accumulated
<1> QED BY <1>4 DEF NewestIsExact

LEMMA UpdateFirstGood ==
  ASSUME IInv, UpdateFirst, price' \in Prices, UNCHANGED <<now, integral>>
  PROVE  IInv'
<1>1. Untouched /\ now \in Nat /\ now > 0 /\ 0 \in Slots /\ Modulus \in Nat \ {0}
  BY ObservationAssumption DEF IInv, UpdateFirst, TypeOK, Slots
<1>2. observations' = [i \in Slots |-> IF i = 0 THEN [time |-> now, cumulative |-> 0] ELSE Empty]
  BY <1>1 DEF UpdateFirst, Untouched
<1>3. initialized' = TRUE /\ lastUpdate' = now /\ index' = 0 /\ integral = 0
  BY <1>1 DEF UpdateFirst, Untouched
<1>4. TypeOK'
  BY <1>1, <1>2, <1>3 DEF TypeOK, IInv, Empty
<1>5. observations'[0] = [time |-> now, cumulative |-> 0]
  BY <1>1, <1>2
<1>6. RingOrdered'
  <2>1. ASSUME NEW i \in Slots, NEW j \in Slots, observations'[i].time # 0
        PROVE  ~(Behind(i)' > Behind(j)')
    <3>1. i = 0 /\ index' = 0
      BY <1>2, <1>3, <2>1 DEF Empty
    <3> QED BY <3>1, ObservationAssumption DEF Behind, Slots
  <2> QED BY <2>1 DEF RingOrdered, Before
<1>7. NewestIsExact'
  <2>1. LastUpdate' = now
    BY <1>1, <1>3 DEF LastUpdate
  <2> QED BY <1>3, <1>5, <2>1, ExactAfterUpdate
<1> QED BY <1>1, <1>3, <1>4, <1>5, <1>6, <1>7 DEF IInv, Started

LEMMA UpdateNothingGood ==
  ASSUME IInv, UpdateNothing, price' \in Prices, UNCHANGED <<now, integral>>
  PROVE  IInv'
<1>1. initialized
  BY DEF UpdateNothing
<1>2. Elapsed = 0 /\ LastUpdate = now
  BY <1>1, NewestTyped DEF UpdateNothing, Elapsed
<1>3. /\ lastUpdate' = now /\ initialized' /\ observations' = observations
      /\ index' = index /\ initialized' = initialized
  BY <1>1, <1>2 DEF UpdateNothing
<1>4. TypeOK'
  BY <1>3 DEF IInv, TypeOK
<1>5. NewestIsExact'
  <2>1. Accumulated = observations[index].cumulative % Modulus
    BY <1>1, <1>2, NewestTyped DEF Accumulated
  <2>2. LastUpdate' = now
    BY <1>1, <1>3, NewestTyped DEF LastUpdate
  <2> QED BY <1>1, <1>3, <2>1, <2>2, NewestTyped, ExactAfterUpdate DEF IInv, NewestIsExact
<1>6. RingOrdered'
  BY <1>3 DEF IInv, RingOrdered, Before, Behind
<1> QED BY <1>1, <1>3, <1>4, <1>5, <1>6, NewestTyped DEF IInv, Started

LEMMA UpdateInPlaceGood ==
  ASSUME IInv, UpdateInPlace, price' \in Prices, UNCHANGED <<now, integral>>
  PROVE  IInv'
<1>1. initialized /\ index \in Slots /\ observations \in
        [Slots -> [time : 0..now, cumulative : 0..(Modulus - 1)]]
  BY DEF UpdateInPlace, IInv, TypeOK
<1>2. /\ lastUpdate' = now /\ index' = index /\ initialized' = initialized
      /\ observations' = [observations EXCEPT ![index].cumulative = Accumulated]
  BY DEF UpdateInPlace
<1>3. Accumulated \in 0..(Modulus - 1) /\ now \in Nat /\ Modulus \in Nat \ {0}
  BY <1>1, NewestTyped
<1>4. observations' \in [Slots -> [time : 0..now, cumulative : 0..(Modulus - 1)]]
  BY <1>1, <1>2, <1>3
<1>5. /\ \A i \in Slots : observations'[i].time = observations[i].time
      /\ observations'[index].cumulative = Accumulated
  BY <1>1, <1>2, <1>3
<1>6. TypeOK'
  BY <1>2, <1>3, <1>4 DEF IInv, TypeOK
<1>7. NewestIsExact'
  <2>1. LastUpdate' = now
    BY <1>1, <1>2, NewestTyped DEF LastUpdate
  <2>2. Accumulated = integral % Modulus /\ integral \in Int
    BY <1>1 DEF IInv, NewestIsExact, TypeOK
  <2>3. Accumulated % Modulus = integral % Modulus
    BY <1>3, <2>2, RemainderTwice
  <2> QED BY <1>1, <1>2, <1>3, <1>5, <2>1, <2>3, ExactAfterUpdate
<1>8. RingOrdered'
  BY <1>1, <1>2, <1>5 DEF IInv, RingOrdered, Before, Behind
<1> QED BY <1>1, <1>2, <1>5, <1>6, <1>7, <1>8, NewestTyped DEF IInv, Started

LEMMA UpdateNextGood ==
  ASSUME IInv, UpdateNext, price' \in Prices, UNCHANGED <<now, integral>>
  PROVE  IInv'
<1> DEFINE new == NextSlot(index)
<1>1. initialized /\ index \in Slots /\ observations \in
        [Slots -> [time : 0..now, cumulative : 0..(Modulus - 1)]]
  BY DEF UpdateNext, IInv, TypeOK
<1>2. new \in Slots /\ new # index
  BY <1>1, NextSlotInRing
<1>3. /\ lastUpdate' = now /\ index' = new /\ initialized' = initialized
      /\ observations' = [observations EXCEPT ![new] = [time |-> now, cumulative |-> Accumulated]]
      /\ now - observations[index].time >= UpdateDuration
  BY DEF UpdateNext
<1> HIDE DEF new
<1>4. Accumulated \in 0..(Modulus - 1) /\ now \in Nat /\ Modulus \in Nat \ {0}
      /\ observations[index].time \in 1..now /\ UpdateDuration \in Nat
  BY <1>1, NewestTyped, ObservationAssumption
<1>5. observations' \in [Slots -> [time : 0..now, cumulative : 0..(Modulus - 1)]]
  BY <1>1, <1>2, <1>3, <1>4
<1>6. /\ \A i \in Slots : i # new => observations'[i] = observations[i]
      /\ observations'[new] = [time |-> now, cumulative |-> Accumulated]
  BY <1>1, <1>2, <1>3
<1>7. TypeOK'
  BY <1>2, <1>3, <1>4, <1>5 DEF IInv, TypeOK
<1>8. NewestIsExact'
  <2>1. LastUpdate' = now
    BY <1>3, <1>4 DEF LastUpdate
  <2>2. Accumulated = integral % Modulus /\ integral \in Int
    BY <1>1 DEF IInv, NewestIsExact, TypeOK
  <2>3. Accumulated % Modulus = integral % Modulus
    BY <1>4, <2>2, RemainderTwice
  <2> QED BY <1>1, <1>3, <1>4, <1>6, <2>1, <2>3, ExactAfterUpdate
<1>9. RingOrdered'
  <2> SUFFICES ASSUME NEW i \in Slots, NEW j \in Slots, Before(i, j)'
               PROVE  observations'[j].time
                        >= observations'[i].time + (Behind(i)' - Behind(j)') * UpdateDuration
    BY DEF RingOrdered
  <2>1. \A k \in Slots : Behind(k) \in Nat /\ (Behind(k) = 0 <=> k = index)
    BY <1>1, BehindRange, ObservationAssumption
  <2>2. \A k \in Slots : Behind(k)' = IF k = new THEN 0 ELSE Behind(k) + 1
    BY <1>1, <1>3, BehindOneMore DEF new
  <2>3. i # new /\ observations'[i] = observations[i] /\ observations[i].time # 0
    BY <1>2, <1>6, <2>1, <2>2 DEF Before
  <2>4. observations[i].time \in Nat
    BY <1>1, <1>4
  <2>5. CASE j # new
    <3>1. Before(i, j) /\ Behind(i)' - Behind(j)' = Behind(i) - Behind(j)
      BY <2>1, <2>2, <2>3, <2>5 DEF Before
    <3>2. observations[j].time >= observations[i].time + (Behind(i) - Behind(j)) * UpdateDuration
      BY <3>1 DEF IInv, RingOrdered
    <3> QED BY <1>6, <2>3, <2>5, <3>1, <3>2
  <2>6. CASE j = new
    <3> DEFINE behind == Behind(i)
    <3>1. behind \in Nat /\ Behind(i)' - Behind(j)' = behind + 1 /\ observations'[j].time = now
      BY <1>6, <2>1, <2>2, <2>3, <2>6
    <3>2. observations[index].time >= observations[i].time + behind * UpdateDuration
      <4>1. CASE i = index
        <5>1. behind = 0 /\ 0 * UpdateDuration = 0
          BY <1>4, <2>1, <4>1
        <5> QED BY <2>4, <4>1, <5>1
      <4>2. CASE i # index
        <5>1. Before(i, index) /\ Behind(index) = 0
          BY <1>1, <2>1, <2>3, <4>2 DEF Before
        <5>2. observations[index].time >= observations[i].time + (behind - 0) * UpdateDuration
          BY <1>1, <5>1 DEF IInv, RingOrdered
        <5>3. behind - 0 = behind
          BY <3>1
        <5> QED BY <5>2, <5>3
      <4> QED BY <4>1, <4>2
    <3> HIDE DEF behind
    <3>3. behind * UpdateDuration \in Nat
          /\ (behind + 1) * UpdateDuration = behind * UpdateDuration + UpdateDuration
      BY <1>4, <3>1, SpacingGrows
    <3>4. now >= observations[i].time + (behind + 1) * UpdateDuration
      BY <1>3, <1>4, <2>4, <3>2, <3>3
    <3> QED BY <2>3, <3>1, <3>4
  <2> QED BY <2>5, <2>6
<1> QED BY <1>1, <1>3, <1>4, <1>6, <1>7, <1>8, <1>9 DEF IInv, Started

LEMMA TickGood ==
  ASSUME IInv, Tick
  PROVE  IInv'
<1>1. /\ now' = now + 1 /\ integral' = IF initialized THEN integral + price ELSE integral
      /\ UNCHANGED <<initialized, index, observations, lastUpdate, price>>
      /\ now \in Nat /\ price \in Nat /\ integral \in Nat /\ Modulus \in Nat \ {0}
  BY ObservationAssumption DEF Tick, IInv, TypeOK
<1>2. TypeOK'
  <2>1. observations \in [Slots -> [time : 0..(now + 1), cumulative : 0..(Modulus - 1)]]
    BY <1>1 DEF IInv, TypeOK
  <2>2. integral' \in Nat
    BY <1>1
  <2> QED BY <1>1, <2>1, <2>2 DEF IInv, TypeOK
<1>3. NewestIsExact'
  <2> SUFFICES ASSUME initialized PROVE Accumulated' = integral' % Modulus
    BY <1>1 DEF NewestIsExact
  <2> DEFINE sum == observations[index].cumulative + price * Elapsed
  <2>1. sum \in Int /\ Elapsed \in Nat
    BY NewestTyped
  <2>2. sum % Modulus = integral % Modulus
    BY DEF IInv, NewestIsExact, Accumulated
  <2>3. Elapsed' = Elapsed + 1
    BY <1>1, NewestTyped DEF Elapsed, LastUpdate
  <2>4. price * (Elapsed + 1) = price * Elapsed + price
    BY <1>1, <2>1
  <2>5. observations[index].cumulative + price * Elapsed' = sum + price
    BY <1>1, <2>3, <2>4, NewestTyped
  <2>6. Accumulated' = (sum + price) % Modulus
    BY <1>1, <2>5 DEF Accumulated
  <2> HIDE DEF sum
  <2>7. (sum + price) % Modulus = (integral + price) % Modulus
    <3>1. integral \in Int /\ price \in Int
      BY <1>1
    <3> QED BY <1>1, <2>1, <2>2, <3>1, RemainderAdds, Zenon
  <2> QED BY <1>1, <2>6, <2>7
<1>4. RingOrdered'
  BY <1>1 DEF IInv, RingOrdered, Before, Behind
<1> QED BY <1>1, <1>2, <1>3, <1>4 DEF IInv, Started, Untouched

LEMMA NextGood ==
  ASSUME IInv, [Next]_vars
  PROVE  IInv'
<1>1. CASE Swap
  BY <1>1, UpdateFirstGood, UpdateNothingGood, UpdateInPlaceGood, UpdateNextGood DEF Swap
<1>2. CASE Tick
  BY <1>2, TickGood
<1>3. CASE UNCHANGED vars
  BY <1>3 DEF vars, IInv, TypeOK, Started, Untouched, NewestIsExact, RingOrdered,
              Before, Behind, Accumulated, Elapsed, LastUpdate
<1> QED BY <1>1, <1>2, <1>3 DEF Next

LEMMA Invariant == Spec => []IInv
BY InitGood, NextGood, PTL DEF Spec

----------------------------------------------------------------------------
(* The results *)

\* The account keeps its shape, however many swaps there are.
THEOREM OracleTypeCorrect == Spec => []TypeOK
<1>1. IInv => TypeOK
  BY DEF IInv
<1> QED BY <1>1, Invariant, PTL

\* Every second is accounted for with the price that held in it.
THEOREM OracleIsExact == Spec => []NewestIsExact
<1>1. IInv => NewestIsExact
  BY DEF IInv
<1> QED BY <1>1, Invariant, PTL

\* The ring keeps its spacing through every wrap.
THEOREM RingStaysOrdered == Spec => []RingOrdered
<1>1. IInv => RingOrdered
  BY DEF IInv
<1> QED BY <1>1, Invariant, PTL

\* A swap rewrites the newest observation, or starts the next one; history is
\* not touched.
THEOREM HistoryIsSealed == Spec => ObservationsAreSealed
<1> DEFINE Sealed ==
      initialized =>
        \A i \in Slots : observations'[i] # observations[i] =>
          \/ i = index /\ index' = index /\ observations'[i].time = observations[i].time
          \/ i = NextSlot(index) /\ index' = i /\ observations'[i].time = now
<1>1. ASSUME IInv, [Next]_vars
      PROVE  [Sealed]_vars
  <2>0. index \in Slots /\ observations \in
          [Slots -> [time : 0..now, cumulative : 0..(Modulus - 1)]]
    BY <1>1 DEF IInv, TypeOK
  <2>1. CASE UpdateFirst
    BY <2>1 DEF UpdateFirst
  <2>2. CASE UpdateNothing
    BY <2>2 DEF UpdateNothing
  <2>3. CASE UpdateInPlace
    BY <2>0, <2>3 DEF UpdateInPlace
  <2>4. CASE UpdateNext
    BY <2>0, <2>4 DEF UpdateNext
  <2>5. CASE Tick
    BY <2>5 DEF Tick
  <2>6. CASE UNCHANGED vars
    BY <2>6
  <2> QED BY <1>1, <2>1, <2>2, <2>3, <2>4, <2>5, <2>6 DEF Next, Swap
<1> QED BY <1>1, Invariant, PTL DEF Spec, ObservationsAreSealed

----------------------------------------------------------------------------
(* The average price between two observations *)

\* The prices have bounds, and the sum of the highest over the whole life of the
\* oracle stays below the modulus: 2^128 leaves 2^32 seconds at the highest Q64.32
\* price.
SumsFit ==
  /\ HighestPrice \in Prices /\ \A p \in Prices : p <= HighestPrice
  /\ LowestPrice \in Prices /\ \A p \in Prices : p >= LowestPrice
  /\ StartTime <= MaxTime /\ HighestPrice * MaxTime < Modulus

\* The sum of an observation belongs to a time `written`, which is less than
\* UpdateDuration after its timestamp; that of the newest to the last update.
GrowthTo(i, j, written) ==
  /\ Growth(i, j) <= HighestPrice * (written - observations[i].time)
  /\ Growth(i, j) >= LowestPrice * (written - observations[i].time - (UpdateDuration - 1))

GrowthKept ==
  \A i, j \in Slots : Before(i, j) =>
    \E written \in observations[j].time..(observations[j].time + UpdateDuration - 1) :
      /\ j = index => written = LastUpdate
      /\ GrowthTo(i, j, written)

UpdatedSoon ==
  initialized => LastUpdate < observations[index].time + UpdateDuration

AverageIInv == IInv /\ now <= MaxTime /\ UpdatedSoon /\ GrowthKept

\* Sums that agree still agree when both are what another sum lacks.
LEMMA GrowthAdds ==
  ASSUME NEW a \in Int, NEW b \in Int, NEW c \in Int, NEW m \in Nat \ {0}
  PROVE  (((a + c) % m) - b) % m = (((a - b) % m) + c) % m
<1> DEFINE with == a + c
           less == a - b
           both == a - b + c
<1>1. with \in Int /\ less \in Int /\ both \in Int /\ with - b = both /\ less + c = both
  OBVIOUS
<1> HIDE DEF with, less, both
<1> DEFINE w == with \div m
           l == less \div m
           r == with % m
           s == less % m
<1>2. w \in Int /\ with = m * w + r /\ r \in Int
  BY <1>1, Division, RemainderRange
<1>3. l \in Int /\ less = m * l + s /\ s \in Int
  BY <1>1, Division, RemainderRange
<1> HIDE DEF w, l, r, s
<1>4. r - b = both + m * (0 - w) /\ (0 - w) \in Int
  BY <1>1, <1>2
<1>5. s + c = both + m * (0 - l) /\ (0 - l) \in Int
  BY <1>1, <1>3
<1>6. (both + m * (0 - w)) % m = both % m
  BY <1>1, <1>4, RemainderShift
<1>7. (both + m * (0 - l)) % m = both % m
  BY <1>1, <1>5, RemainderShift
<1>8. (r - b) % m = (s + c) % m
  BY <1>4, <1>5, <1>6, <1>7
<1> QED BY <1>8 DEF with, less, r, s

LEMMA RemainderSmall ==
  ASSUME NEW m \in Nat \ {0}, NEW a \in 0..(m - 1)
  PROVE  a % m = a
OBVIOUS

LEMMA PriceTimes ==
  ASSUME NEW a \in Int, NEW b \in Int, NEW n \in Nat, a <= b
  PROVE  a * n \in Int /\ b * n \in Int /\ a * n <= b * n
OBVIOUS

LEMMA SumSplits ==
  ASSUME NEW p \in Int, NEW a \in Int, NEW b \in Int
  PROVE  p * (a + b) = p * a + p * b /\ p * a \in Int /\ p * b \in Int
OBVIOUS

\* What accumulates over n seconds at a price there is stays between the bounds,
\* and over the life of the oracle below the modulus.
LEMMA AccumulatedBounds ==
  ASSUME SumsFit, NEW p \in Prices, NEW n \in Nat
  PROVE  /\ HighestPrice \in Nat /\ LowestPrice \in Nat /\ p \in Nat /\ p * n \in Nat
         /\ LowestPrice * n <= p * n /\ p * n <= HighestPrice * n
         /\ HighestPrice * n \in Nat /\ LowestPrice * n \in Nat
         /\ n <= MaxTime => HighestPrice * n < Modulus
<1>1. /\ HighestPrice \in Nat /\ LowestPrice \in Nat /\ p \in Nat
      /\ LowestPrice <= p /\ p <= HighestPrice /\ MaxTime \in Nat /\ Modulus \in Nat
      /\ HighestPrice * MaxTime < Modulus
  BY ObservationAssumption DEF SumsFit
<1>2. LowestPrice * n <= p * n /\ p * n <= HighestPrice * n
  BY <1>1, PriceTimes
<1>3. /\ p * n \in Nat /\ HighestPrice * n \in Nat /\ LowestPrice * n \in Nat
      /\ HighestPrice * MaxTime \in Nat
  BY <1>1
<1>4. ASSUME n <= MaxTime
      PROVE  HighestPrice * n < Modulus
  <2>1. n * HighestPrice <= MaxTime * HighestPrice
    BY <1>1, <1>4, PriceTimes
  <2>2. n * HighestPrice = HighestPrice * n /\ MaxTime * HighestPrice = HighestPrice * MaxTime
    BY <1>1
  <2> QED BY <1>1, <1>3, <2>1, <2>2
<1> QED BY <1>1, <1>2, <1>3, <1>4

\* Two recorded observations have their types and at least one spacing between.
LEMMA Recorded ==
  ASSUME IInv, NEW i \in Slots, NEW j \in Slots, Before(i, j)
  PROVE  /\ observations[i].time \in 1..now /\ observations[j].time \in 1..now
         /\ observations[j].time >= observations[i].time + UpdateDuration
         /\ observations[i].cumulative \in 0..(Modulus - 1)
         /\ observations[j].cumulative \in 0..(Modulus - 1)
         /\ now \in Nat /\ UpdateDuration \in Nat \ {0} /\ Modulus \in Nat \ {0}
         /\ Growth(i, j) \in 0..(Modulus - 1)
<1>1. /\ now \in Nat /\ UpdateDuration \in Nat \ {0} /\ Modulus \in Nat \ {0}
      /\ observations[i] \in [time : 0..now, cumulative : 0..(Modulus - 1)]
      /\ observations[j] \in [time : 0..now, cumulative : 0..(Modulus - 1)]
      /\ index \in Slots
  BY ObservationAssumption DEF IInv, TypeOK
<1>2. observations[j].time >= observations[i].time + UpdateDuration
  <2> DEFINE apart == Behind(i) - Behind(j)
  <2>1. apart \in Nat /\ apart > 0
    BY <1>1, BehindRange, ObservationAssumption DEF Before
  <2>2. observations[j].time >= observations[i].time + apart * UpdateDuration
    BY DEF IInv, RingOrdered
  <2> HIDE DEF apart
  <2>3. apart * UpdateDuration \in Nat /\ apart * UpdateDuration >= UpdateDuration
    BY <1>1, <2>1, SpacingGrows
  <2> QED BY <1>1, <2>2, <2>3
<1>3. observations[i].time # 0
  BY DEF Before
<1>4. Growth(i, j) \in 0..(Modulus - 1)
  <2> DEFINE d == observations[j].cumulative - observations[i].cumulative
  <2>1. d \in Int
    BY <1>1
  <2> HIDE DEF d
  <2>2. d % Modulus \in 0..(Modulus - 1)
    BY <1>1, <2>1, RemainderRange
  <2> QED BY <2>2 DEF Growth, d
<1> QED BY <1>1, <1>2, <1>3, <1>4

\* An update at `now` adds what accumulated since the last one to the growth from
\* every older observation, to the newest or to the one that takes its place.
LEMMA GrowthContinues ==
  ASSUME SumsFit, AverageIInv, initialized, NEW i \in Slots, Before(i, index)
  PROVE  LET from == observations[i].time
             grown == (Accumulated - observations[i].cumulative) % Modulus
         IN  /\ grown <= HighestPrice * (now - from)
             /\ grown >= LowestPrice * (now - from - (UpdateDuration - 1))
<1> DEFINE from == observations[i].time
           mine == observations[i].cumulative
           newest == observations[index].cumulative
           growth == Growth(i, index)
           more == price * Elapsed
           high == HighestPrice
           low == LowestPrice
           before == LastUpdate - from
           spare == LastUpdate - from - (UpdateDuration - 1)
           grown == (Accumulated - mine) % Modulus
<1>1. /\ IInv /\ index \in Slots /\ price \in Prices
      /\ now <= MaxTime /\ MaxTime \in Nat /\ UpdateDuration \in Nat \ {0}
  BY ObservationAssumption DEF AverageIInv, IInv, TypeOK
<1>2. /\ observations[index].time \in 1..now /\ now \in Nat
      /\ newest \in 0..(Modulus - 1) /\ LastUpdate \in observations[index].time..now
      /\ Elapsed = now - LastUpdate /\ Elapsed \in Nat /\ Modulus \in Nat \ {0}
  BY <1>1, NewestTyped DEF Elapsed
<1>3. /\ from \in 1..now /\ observations[index].time >= from + UpdateDuration
      /\ mine \in 0..(Modulus - 1) /\ growth \in 0..(Modulus - 1)
  BY <1>1, Recorded
<1>4. growth <= high * before /\ growth >= low * spare
  BY <1>1 DEF AverageIInv, GrowthKept, GrowthTo
<1>5. /\ more \in Nat /\ high \in Nat /\ low \in Nat
      /\ low * Elapsed <= more /\ more <= high * Elapsed
  BY <1>1, <1>2, AccumulatedBounds
<1>6. /\ before \in Nat /\ spare \in Nat /\ before + Elapsed = now - from /\ now - from \in Nat
      /\ spare + Elapsed = now - from - (UpdateDuration - 1) /\ now - from <= MaxTime
  BY <1>1, <1>2, <1>3
<1>7. grown = (growth + more) % Modulus
  <2>1. mine \in Int /\ newest \in Int /\ more \in Int
    BY <1>2, <1>3, <1>5
  <2>2. grown = (((newest + more) % Modulus) - mine) % Modulus
    BY DEF Accumulated
  <2>3. growth = (newest - mine) % Modulus
    BY DEF Growth
  <2> HIDE DEF mine, newest, more, growth, grown
  <2> QED BY <1>2, <2>1, <2>2, <2>3, GrowthAdds
<1>8. high * (now - from) \in Nat /\ high * (now - from) < Modulus
  BY <1>1, <1>6, AccumulatedBounds
<1>9. /\ high * (before + Elapsed) = high * before + high * Elapsed
      /\ low * (spare + Elapsed) = low * spare + low * Elapsed
      /\ high * before \in Int /\ high * Elapsed \in Int
      /\ low * spare \in Int /\ low * Elapsed \in Int
  <2>1. before \in Int /\ spare \in Int /\ high \in Int /\ low \in Int /\ Elapsed \in Int
    BY <1>2, <1>5, <1>6
  <2> HIDE DEF before, spare, high, low
  <2> QED BY <2>1, SumSplits
<1>10. /\ growth + more <= high * (now - from)
       /\ growth + more >= low * (now - from - (UpdateDuration - 1))
  <2>1. /\ high * (now - from) = high * before + high * Elapsed
        /\ low * (now - from - (UpdateDuration - 1)) = low * spare + low * Elapsed
    BY <1>6, <1>9
  <2> HIDE DEF before, spare, high, low, more, from, growth
  <2> QED BY <1>3, <1>4, <1>5, <1>9, <2>1
<1>11. grown = growth + more
  <2> HIDE DEF before, spare, high, low, more, from, growth, grown
  <2>1. growth + more \in 0..(Modulus - 1)
    BY <1>2, <1>3, <1>5, <1>8, <1>10
  <2> QED BY <1>2, <1>7, <2>1, RemainderSmall
<1> QED BY <1>10, <1>11

\* What a new observation adds to the one that was the newest.
LEMMA GrowthBegins ==
  ASSUME SumsFit, AverageIInv, initialized, now - observations[index].time >= UpdateDuration
  PROVE  LET from == observations[index].time
             grown == (Accumulated - observations[index].cumulative) % Modulus
         IN  /\ grown <= HighestPrice * (now - from)
             /\ grown >= LowestPrice * (now - from - (UpdateDuration - 1))
<1> DEFINE from == observations[index].time
           newest == observations[index].cumulative
           more == price * Elapsed
           grown == (Accumulated - newest) % Modulus
           age == now - from
           sure == now - from - (UpdateDuration - 1)
<1>1. /\ IInv /\ price \in Prices
      /\ now <= MaxTime /\ MaxTime \in Nat /\ UpdateDuration \in Nat \ {0}
  BY ObservationAssumption DEF AverageIInv, IInv, TypeOK
<1>2. /\ from \in 1..now /\ now \in Nat /\ newest \in 0..(Modulus - 1)
      /\ LastUpdate \in from..now
      /\ Elapsed = now - LastUpdate /\ Elapsed \in Nat /\ Modulus \in Nat \ {0}
  BY <1>1, NewestTyped DEF Elapsed
<1>3. /\ more \in Nat /\ LowestPrice * Elapsed <= more /\ more <= HighestPrice * Elapsed
      /\ HighestPrice \in Nat /\ LowestPrice \in Nat
  BY <1>1, <1>2, AccumulatedBounds
<1>4. /\ age \in Nat /\ sure \in Nat /\ Elapsed <= age /\ sure <= Elapsed /\ age <= MaxTime
  BY <1>1, <1>2 DEF AverageIInv, UpdatedSoon
<1> HIDE DEF age, sure
<1>5. /\ HighestPrice * Elapsed <= HighestPrice * age
      /\ HighestPrice * age \in Nat /\ HighestPrice * Elapsed \in Nat
  <2>1. Elapsed * HighestPrice <= age * HighestPrice
    BY <1>2, <1>3, <1>4, PriceTimes
  <2> QED BY <1>2, <1>3, <1>4, <2>1
<1>6. /\ LowestPrice * sure <= LowestPrice * Elapsed
      /\ LowestPrice * sure \in Nat /\ LowestPrice * Elapsed \in Nat
  <2>1. sure * LowestPrice <= Elapsed * LowestPrice
    BY <1>2, <1>3, <1>4, PriceTimes
  <2> QED BY <1>2, <1>3, <1>4, <2>1
<1>7. HighestPrice * age < Modulus
  BY <1>1, <1>4, AccumulatedBounds
<1>8. more \in 0..(Modulus - 1)
  <2> HIDE DEF more
  <2> QED BY <1>2, <1>3, <1>5, <1>7
<1>9. grown = more
  <2>1. grown = (((newest + more) % Modulus) - newest) % Modulus
    BY DEF Accumulated
  <2>2. newest \in Int /\ newest - newest = 0 /\ more \in Int
    BY <1>2, <1>3
  <2> HIDE DEF newest, more, grown
  <2>3. (((newest + more) % Modulus) - newest) % Modulus
          = (((newest - newest) % Modulus) + more) % Modulus
    <3>1. newest \in Int /\ more \in Int /\ Modulus \in Nat \ {0}
      BY <1>2, <2>2
    <3> QED BY <3>1, GrowthAdds, Zenon
  <2>4. 0 % Modulus = 0 /\ 0 + more = more
    BY <1>2, <2>2, RemainderSmall
  <2>5. more % Modulus = more
    BY <1>2, <1>8, RemainderSmall
  <2> QED BY <2>1, <2>2, <2>3, <2>4, <2>5
<1>10. more <= HighestPrice * age /\ more >= LowestPrice * sure
  <2> HIDE DEF more
  <2> QED BY <1>3, <1>5, <1>6
<1> QED BY <1>9, <1>10 DEF age, sure

LEMMA UpdateNothingAverage ==
  ASSUME AverageIInv, UpdateNothing, UNCHANGED now
  PROVE  UpdatedSoon' /\ GrowthKept'
<1>1. initialized /\ IInv
  BY DEF UpdateNothing, AverageIInv
<1>2. /\ lastUpdate' = LastUpdate /\ observations' = observations /\ index' = index
      /\ initialized' = initialized
  BY DEF UpdateNothing
<1>3. LastUpdate' = LastUpdate
  BY <1>1, <1>2, NewestTyped DEF LastUpdate
<1> QED BY <1>2, <1>3
        DEF AverageIInv, UpdatedSoon, GrowthKept, GrowthTo, Growth, Before, Behind

LEMMA TickAverage ==
  ASSUME AverageIInv, UNCHANGED <<initialized, index, observations, lastUpdate>>
  PROVE  UpdatedSoon' /\ GrowthKept'
<1>1. LastUpdate' = LastUpdate
  BY DEF LastUpdate
<1> QED BY <1>1 DEF AverageIInv, UpdatedSoon, GrowthKept, GrowthTo, Growth, Before, Behind

LEMMA UpdateFirstAverage ==
  ASSUME AverageIInv, UpdateFirst, UNCHANGED now
  PROVE  UpdatedSoon' /\ GrowthKept'
<1>1. Untouched /\ now \in Nat /\ now > 0 /\ 0 \in Slots /\ UpdateDuration \in Nat \ {0}
  BY ObservationAssumption DEF AverageIInv, IInv, UpdateFirst, TypeOK, Slots
<1>2. /\ observations' = [i \in Slots |-> IF i = 0 THEN [time |-> now, cumulative |-> 0] ELSE Empty]
      /\ lastUpdate' = now /\ index' = 0
  BY <1>1 DEF UpdateFirst, Untouched
<1>3. LastUpdate' = now /\ observations'[0].time = now
  BY <1>1, <1>2 DEF LastUpdate
<1>4. GrowthKept'
  <2>1. ASSUME NEW i \in Slots, NEW j \in Slots, observations'[i].time # 0
        PROVE  ~(Behind(i)' > Behind(j)')
    <3>1. i = 0 /\ index' = 0
      BY <1>2, <2>1 DEF Empty
    <3> QED BY <3>1, ObservationAssumption DEF Behind, Slots
  <2> QED BY <2>1 DEF GrowthKept, Before
<1>5. UpdatedSoon'
  BY <1>1, <1>2, <1>3 DEF UpdatedSoon
<1> QED BY <1>4, <1>5

LEMMA UpdateInPlaceAverage ==
  ASSUME SumsFit, AverageIInv, UpdateInPlace, UNCHANGED now
  PROVE  UpdatedSoon' /\ GrowthKept'
<1>1. /\ IInv /\ initialized /\ index \in Slots
      /\ observations \in [Slots -> [time : 0..now, cumulative : 0..(Modulus - 1)]]
      /\ UpdateDuration \in Nat \ {0}
  BY ObservationAssumption DEF AverageIInv, UpdateInPlace, IInv, TypeOK
<1>2. /\ lastUpdate' = now /\ index' = index
      /\ observations' = [observations EXCEPT ![index].cumulative = Accumulated]
      /\ now - observations[index].time < UpdateDuration
  BY DEF UpdateInPlace
<1>3. observations[index].time \in 1..now /\ now \in Nat
  BY <1>1, NewestTyped
<1>4. /\ \A i \in Slots : observations'[i].time = observations[i].time
      /\ \A i \in Slots \ {index} : observations'[i] = observations[i]
      /\ observations'[index].cumulative = Accumulated
  BY <1>1, <1>2
<1>5. LastUpdate' = now
  BY <1>2, <1>3 DEF LastUpdate
<1>6. UpdatedSoon'
  BY <1>1, <1>2, <1>3, <1>4, <1>5 DEF UpdatedSoon
<1>7. GrowthKept'
  <2> SUFFICES ASSUME NEW i \in Slots, NEW j \in Slots, Before(i, j)'
               PROVE  \E written \in observations'[j].time..
                                        (observations'[j].time + UpdateDuration - 1) :
                         /\ j = index' => written = LastUpdate'
                         /\ GrowthTo(i, j, written)'
    BY DEF GrowthKept
  <2>1. Before(i, j) /\ i # index
    BY <1>1, <1>2, <1>4, BehindRange, ObservationAssumption DEF Before, Behind
  <2>2. observations'[i] = observations[i]
    BY <1>4, <2>1
  <2>3. CASE j # index
    <3>1. Growth(i, j)' = Growth(i, j) /\ observations'[j] = observations[j]
      BY <1>4, <2>2, <2>3 DEF Growth
    <3>2. PICK written \in observations[j].time..(observations[j].time + UpdateDuration - 1) :
            GrowthTo(i, j, written)
      BY <2>1 DEF AverageIInv, GrowthKept
    <3>3. GrowthTo(i, j, written)'
      BY <2>2, <3>1, <3>2 DEF GrowthTo
    <3> QED BY <1>2, <2>3, <3>1, <3>2, <3>3
  <2>4. CASE j = index
    <3>1. GrowthTo(i, j, now)'
      BY <1>1, <1>4, <2>1, <2>2, <2>4, GrowthContinues DEF GrowthTo, Growth
    <3>2. now \in observations'[j].time..(observations'[j].time + UpdateDuration - 1)
      BY <1>1, <1>2, <1>3, <1>4, <2>4
    <3> QED BY <1>5, <3>1, <3>2
  <2> QED BY <2>3, <2>4
<1> QED BY <1>6, <1>7

LEMMA UpdateNextAverage ==
  ASSUME SumsFit, AverageIInv, UpdateNext, UNCHANGED now
  PROVE  UpdatedSoon' /\ GrowthKept'
<1> DEFINE new == NextSlot(index)
<1>1. /\ IInv /\ initialized /\ index \in Slots
      /\ observations \in [Slots -> [time : 0..now, cumulative : 0..(Modulus - 1)]]
      /\ now <= MaxTime /\ MaxTime \in Nat /\ UpdateDuration \in Nat \ {0} /\ price \in Prices
  BY ObservationAssumption DEF AverageIInv, UpdateNext, IInv, TypeOK
<1>2. new \in Slots /\ new # index
  BY <1>1, NextSlotInRing
<1>3. /\ lastUpdate' = now /\ index' = new
      /\ observations' = [observations EXCEPT ![new] = [time |-> now, cumulative |-> Accumulated]]
      /\ now - observations[index].time >= UpdateDuration
  BY DEF UpdateNext
<1>4. /\ observations[index].time \in 1..now /\ now \in Nat
      /\ observations[index].cumulative \in 0..(Modulus - 1)
      /\ LastUpdate \in observations[index].time..now
      /\ Elapsed = now - LastUpdate /\ Elapsed \in Nat /\ Modulus \in Nat \ {0}
  BY <1>1, NewestTyped DEF Elapsed
<1>5. /\ \A i \in Slots \ {new} : observations'[i] = observations[i]
      /\ observations'[new] = [time |-> now, cumulative |-> Accumulated]
  BY <1>1, <1>2, <1>3
<1>6. LastUpdate' = now
  BY <1>3, <1>4 DEF LastUpdate
<1>7. UpdatedSoon'
  BY <1>1, <1>3, <1>4, <1>5, <1>6 DEF UpdatedSoon
<1>8. /\ \A k \in Slots : Behind(k) \in Nat /\ (Behind(k) = 0 <=> k = index)
      /\ \A k \in Slots : Behind(k)' = IF k = new THEN 0 ELSE Behind(k) + 1
  BY <1>1, <1>3, BehindRange, BehindOneMore, ObservationAssumption
<1> HIDE DEF new
<1>9. GrowthKept'
  <2> SUFFICES ASSUME NEW i \in Slots, NEW j \in Slots, Before(i, j)'
               PROVE  \E written \in observations'[j].time..
                                        (observations'[j].time + UpdateDuration - 1) :
                         /\ j = index' => written = LastUpdate'
                         /\ GrowthTo(i, j, written)'
    BY DEF GrowthKept
  <2>1. i # new /\ observations'[i] = observations[i] /\ observations[i].time # 0
    BY <1>2, <1>5, <1>8 DEF Before
  <2>2. CASE j # new
    <3>1. Before(i, j) /\ observations'[j] = observations[j]
      BY <1>5, <1>8, <2>1, <2>2 DEF Before
    <3>2. PICK written \in observations[j].time..(observations[j].time + UpdateDuration - 1) :
            GrowthTo(i, j, written)
      BY <3>1 DEF AverageIInv, GrowthKept
    <3>3. GrowthTo(i, j, written)'
      BY <2>1, <3>1, <3>2 DEF GrowthTo, Growth
    <3> QED BY <1>3, <2>2, <3>1, <3>2, <3>3
  <2>3. CASE j = new
    <3>1. GrowthTo(i, j, now)'
      <4>1. CASE i # index
        <5>1. Before(i, index)
          BY <1>1, <1>8, <2>1, <4>1 DEF Before
        <5> QED BY <1>1, <1>5, <2>1, <2>3, <5>1, GrowthContinues DEF GrowthTo, Growth
      <4>2. CASE i = index
        BY <1>1, <1>3, <1>5, <2>1, <2>3, <4>2, GrowthBegins DEF GrowthTo, Growth
      <4> QED BY <4>1, <4>2
    <3>2. now \in observations'[j].time..(observations'[j].time + UpdateDuration - 1)
      BY <1>1, <1>4, <1>5, <2>3
    <3> QED BY <1>6, <2>3, <3>1, <3>2
  <2> QED BY <2>2, <2>3
<1> QED BY <1>7, <1>9

LEMMA AverageInit ==
  ASSUME SumsFit, Init
  PROVE  AverageIInv
<1>1. IInv /\ now <= MaxTime
  BY InitGood DEF Init, SumsFit
<1>2. UpdatedSoon
  BY ObservationAssumption DEF Init, UpdatedSoon, LastUpdate, Slots
<1>3. GrowthKept
  <2>1. ASSUME NEW i \in Slots, NEW j \in Slots, observations[i].time # 0
        PROVE  ~(Behind(i) > Behind(j))
    <3>1. i = 0 /\ index = 0
      BY <2>1 DEF Init, Empty
    <3> QED BY <3>1, ObservationAssumption DEF Behind, Slots
  <2> QED BY <2>1 DEF GrowthKept, Before
<1> QED BY <1>1, <1>2, <1>3 DEF AverageIInv

LEMMA AverageNext ==
  ASSUME SumsFit, AverageIInv, [Next]_vars
  PROVE  AverageIInv'
<1>1. IInv'
  BY NextGood DEF AverageIInv
<1>2. (now <= MaxTime)'
  BY ObservationAssumption DEF AverageIInv, IInv, TypeOK, Next, Swap, Tick, vars
<1>3. UpdatedSoon' /\ GrowthKept'
  BY UpdateFirstAverage, UpdateNothingAverage, UpdateInPlaceAverage, UpdateNextAverage, TickAverage
     DEF Next, Swap, Tick, vars
<1> QED BY <1>1, <1>2, <1>3 DEF AverageIInv

\* A sum that belongs to a time within UpdateDuration - 1 of the timestamp makes
\* the average wrong by that many seconds' worth of price at most.
LEMMA AverageFollows ==
  ASSUME SumsFit, AverageIInv
  PROVE  AverageWithinDuration
<1> SUFFICES ASSUME NEW i \in Slots, NEW j \in Slots, Before(i, j)
             PROVE  /\ Growth(i, j) <= HighestPrice * (Age(i, j) + UpdateDuration - 1)
                    /\ Growth(i, j) >= LowestPrice * (Age(i, j) - (UpdateDuration - 1))
  BY DEF AverageWithinDuration
<1> DEFINE from == observations[i].time
           to == observations[j].time
<1>1. /\ from \in Nat /\ to \in Nat /\ to >= from + UpdateDuration
      /\ UpdateDuration \in Nat \ {0} /\ Growth(i, j) \in Nat
  BY Recorded, ObservationAssumption DEF AverageIInv
<1>2. PICK written \in to..(to + UpdateDuration - 1) : GrowthTo(i, j, written)
  BY DEF AverageIInv, GrowthKept
<1>3. HighestPrice \in Nat /\ LowestPrice \in Nat
  BY ObservationAssumption DEF SumsFit
<1> DEFINE most == Age(i, j) + UpdateDuration - 1
           least == Age(i, j) - (UpdateDuration - 1)
           long == written - from
           short == written - from - (UpdateDuration - 1)
<1>4. /\ most \in Nat /\ least \in Nat /\ long \in Nat /\ short \in Nat
      /\ long <= most /\ least <= short
  BY <1>1, <1>2 DEF Age
<1>5. Growth(i, j) <= HighestPrice * long /\ Growth(i, j) >= LowestPrice * short
  BY <1>2 DEF GrowthTo
<1> HIDE DEF most, least, long, short
<1>6. long * HighestPrice <= most * HighestPrice /\ least * LowestPrice <= short * LowestPrice
  BY <1>3, <1>4, PriceTimes
<1>7. Growth(i, j) <= HighestPrice * most
  BY <1>1, <1>3, <1>4, <1>5, <1>6
<1>8. Growth(i, j) >= LowestPrice * least
  BY <1>1, <1>3, <1>4, <1>5, <1>6
<1> QED BY <1>7, <1>8 DEF most, least

\* The average price between any two observations is within UpdateDuration - 1
\* seconds' worth of the prices there were, on every account and through every
\* wrap of the ring.
THEOREM AverageIsClose ==
  ASSUME SumsFit
  PROVE  Spec => []AverageWithinDuration
<1>1. Init => AverageIInv
  BY AverageInit
<1>2. AverageIInv /\ [Next]_vars => AverageIInv'
  BY AverageNext
<1>3. AverageIInv => AverageWithinDuration
  BY AverageFollows
<1> QED BY <1>1, <1>2, <1>3, PTL DEF Spec
=============================================================================
