----------------------------- MODULE Observation -----------------------------
(***************************************************************************)
(* The price oracle of a cp-swap pool (programs/cp-swap/src/states/        *)
(* oracle.rs): a ring of observations of the cumulative price, updated by  *)
(* every swap with the price before it.  The prices of the two tokens are  *)
(* accumulated by the same statements, so one of them is modelled.         *)
(*                                                                         *)
(* `price` and `integral` are the environment: the pool's price, which     *)
(* only a swap changes, and its sum over the seconds since the first       *)
(* update, which is what the oracle sets out to record.                    *)
(***************************************************************************)
EXTENDS Integers

CONSTANTS
  ObservationNum,   \* OBSERVATION_NUM, 100
  UpdateDuration,   \* OBSERVATION_UPDATE_DURATION_DEFAULT, 15
  Prices,           \* prices a swap may leave behind
  Modulus,          \* 2^128
  LegacySums,       \* sums an account of an earlier version may hold
  StartTime,        \* the clock when the model starts
  MaxTime           \* bound: the clock stops here

ASSUME ObservationAssumption ==
  /\ ObservationNum \in Nat \ {0, 1}
  /\ UpdateDuration \in Nat \ {0}
  /\ Modulus \in Nat \ {0}
  /\ Prices \subseteq Nat /\ Prices # {}
  /\ LegacySums \subseteq 0..(Modulus - 1)
  /\ StartTime \in Nat \ {0} /\ MaxTime \in Nat

VARIABLES
  initialized, index, observations, lastUpdate,   \* ObservationState
  now, price, integral

vars == <<initialized, index, observations, lastUpdate, now, price, integral>>

Slots == 0..(ObservationNum - 1)

\* variant: the ring does not wrap
NextSlotPastEnd(i) == i + 1

NextSlot(i) == IF i = ObservationNum - 1 THEN 0 ELSE i + 1

Empty == [time |-> 0, cumulative |-> 0]

\* An account written by a version that did not keep last_update_timestamp has
\* 0 there; its newest observation was exact at its own timestamp.
LastUpdate == IF lastUpdate = 0 THEN observations[index].time ELSE lastUpdate

\* variant: the time since the observation, part of it accumulated before
ElapsedSinceObservation == now - observations[index].time

\* The time the current price has not been accumulated for.
Elapsed == now - LastUpdate

Accumulated ==
  (observations[index].cumulative + price * Elapsed) % Modulus

----------------------------------------------------------------------------
Init ==
  /\ index = 0
  /\ \/ initialized = FALSE /\ observations = [i \in Slots |-> Empty]
        /\ integral = 0
     \/ /\ initialized = TRUE       \* an account of an earlier version
        /\ integral \in LegacySums
        /\ observations =
             [i \in Slots |-> IF i = 0 THEN [time |-> StartTime, cumulative |-> integral]
                                      ELSE Empty]
  /\ lastUpdate = 0
  /\ now = StartTime
  /\ price \in Prices

\* The first update records the time and skips the price.
UpdateFirst ==
  /\ ~initialized
  /\ initialized' = TRUE
  /\ observations' = [observations EXCEPT ![index] = [time |-> now, cumulative |-> 0]]
  /\ lastUpdate' = now
  /\ UNCHANGED index

\* Nothing to accumulate: an update in this second, or a clock that is behind.
UpdateNothing ==
  /\ initialized
  /\ Elapsed <= 0 \/ now <= observations[index].time
  /\ lastUpdate' = LastUpdate
  /\ UNCHANGED <<initialized, index, observations>>

\* variant: the timestamp follows, so the observation stays young for ever
UpdateInPlaceStamped ==
  /\ initialized
  /\ Elapsed > 0 /\ now > observations[index].time
  /\ now - observations[index].time < UpdateDuration
  /\ observations' = [observations EXCEPT
                        ![index] = [time |-> now, cumulative |-> Accumulated]]
  /\ lastUpdate' = now
  /\ UNCHANGED <<initialized, index>>

\* The newest observation is young: it is brought up to date where it is.
UpdateInPlace ==
  /\ initialized
  /\ Elapsed > 0 /\ now > observations[index].time
  /\ now - observations[index].time < UpdateDuration
  /\ observations' = [observations EXCEPT ![index].cumulative = Accumulated]
  /\ lastUpdate' = now
  /\ UNCHANGED <<initialized, index>>

\* variant: every update takes a slot
UpdateNextEarly ==
  /\ initialized
  /\ Elapsed > 0 /\ now > observations[index].time
  /\ observations' = [observations EXCEPT
                        ![NextSlot(index)] = [time |-> now, cumulative |-> Accumulated]]
  /\ index' = NextSlot(index)
  /\ lastUpdate' = now
  /\ UNCHANGED initialized

\* Otherwise the next slot of the ring is overwritten.
UpdateNext ==
  /\ initialized
  /\ Elapsed > 0 /\ now > observations[index].time
  /\ now - observations[index].time >= UpdateDuration
  /\ observations' = [observations EXCEPT
                        ![NextSlot(index)] = [time |-> now, cumulative |-> Accumulated]]
  /\ index' = NextSlot(index)
  /\ lastUpdate' = now
  /\ UNCHANGED initialized

\* A swap updates the oracle with the price it found and leaves another.
Swap ==
  /\ UpdateFirst \/ UpdateNothing \/ UpdateInPlace \/ UpdateNext
  /\ price' \in Prices
  /\ UNCHANGED <<now, integral>>

Tick ==
  /\ now < MaxTime
  /\ now' = now + 1
  /\ integral' = IF initialized THEN integral + price ELSE integral
  /\ UNCHANGED <<initialized, index, observations, lastUpdate, price>>

Next == Swap \/ Tick

Spec == Init /\ [][Next]_vars

----------------------------------------------------------------------------
(* Properties *)

\* ObservationState keeps its shape: the index stays in the ring and no
\* timestamp is later than the clock.
TypeOK ==
  /\ initialized \in BOOLEAN
  /\ index \in Slots
  /\ observations \in [Slots -> [time : 0..now, cumulative : 0..(Modulus - 1)]]
  /\ lastUpdate \in 0..now
  /\ now \in Nat /\ price \in Prices /\ integral \in Nat

\* The newest observation, with the current price since the last update, is
\* the exact sum of the prices, however swaps fall into the seconds.
NewestIsExact ==
  initialized => Accumulated = integral % Modulus

\* How many slots an observation is behind the newest.
Behind(i) == IF i <= index THEN index - i ELSE index - i + ObservationNum

\* Going round the ring, i is an observation and j a newer one.
Before(i, j) == observations[i].time # 0 /\ Behind(i) > Behind(j)

\* Timestamps grow round the ring by at least UpdateDuration a slot, from any
\* observation to any newer one and through every wrap: there are no gaps, and a
\* full ring covers at least (OBSERVATION_NUM - 1) * 15 seconds.
RingOrdered ==
  \A i, j \in Slots :
    Before(i, j) =>
      observations[j].time >= observations[i].time + (Behind(i) - Behind(j)) * UpdateDuration

\* An update writes the newest observation or the one after it, moves no
\* timestamp of a recorded observation, and seals all the others.
ObservationsAreSealed ==
  [][initialized =>
       \A i \in Slots : observations'[i] # observations[i] =>
         \/ i = index /\ index' = index /\ observations'[i].time = observations[i].time
         \/ i = NextSlot(index) /\ index' = i /\ observations'[i].time = now]_vars

HighestPrice == CHOOSE p \in Prices : \A q \in Prices : q <= p
LowestPrice  == CHOOSE p \in Prices : \A q \in Prices : q >= p

\* What accumulated from one observation to another.
Growth(i, j) ==
  (observations[j].cumulative - observations[i].cumulative) % Modulus

Age(i, j) == observations[j].time - observations[i].time

\* The average price between any two observations is wrong by at most
\* UpdateDuration - 1 seconds' worth of price, however many others are between
\* them: that is how far the sum of an observation can be ahead of its timestamp.
AverageWithinDuration ==
  \A i, j \in Slots :
    Before(i, j) =>
      /\ Growth(i, j) <= HighestPrice * (Age(i, j) + UpdateDuration - 1)
      /\ Growth(i, j) >= LowestPrice * (Age(i, j) - (UpdateDuration - 1))

\* The average price between two observations is a price between the lowest
\* and the highest there was: "block timestamp of the observation", "cumulative
\* of token0 price during the duration time" (states/oracle.rs).
AverageIsAPrice ==
  \A i, j \in Slots :
    Before(i, j) =>
      Growth(i, j) \in (LowestPrice * Age(i, j))..(HighestPrice * Age(i, j))
=============================================================================
