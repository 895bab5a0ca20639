----------------------------- MODULE ClientProofs -----------------------------
(***************************************************************************)
(* The limits the client sends keep its user to the price that was quoted, *)
(* whatever others do before the transaction is executed; and as long as   *)
(* nobody does anything, the program takes the order.                      *)
(***************************************************************************)
EXTENDS Client, CpPoolProofs

Orders ==
  [kind : {"initialize", "deposit", "withdraw", "swap_in", "swap_out"}, side : Sides,
   amount : Nat, slip : 0..SlippageUnit, quoted : [Sides -> Nat], limit : [Sides -> Int],
   fresh : BOOLEAN]

\* How the limits of an order come from the price that was quoted.
FromQuote(o) ==
  /\ o \in Orders
  /\ o.kind = "initialize" => o.limit = o.quoted
  /\ o.kind = "deposit" =>
       \A s \in Sides : o.limit[s] = AmountUp(o.quoted[s], o.slip) + TransferInverseFee(s, Epoch)
  /\ o.kind = "withdraw" =>
       \A s \in Sides : o.limit[s] = AmountDown(o.quoted[s], o.slip) - TransferFee(s, Epoch)
  /\ o.kind = "swap_in" =>
       o.limit[Other(o.side)] = AmountDown(o.quoted[Other(o.side)], o.slip)
  /\ o.kind = "swap_out" => o.limit[o.side] = AmountUp(o.quoted[o.side], o.slip)

LimitsOK == order # NoOrder => FromQuote(order)

ClientIInv == IInv /\ LimitsOK

\* Fees that take the same of every amount but zero: none, or one unit.
FlatFees == \A s \in Sides : TransferRate[s] = 0 \/ TransferMax[s] <= 1

----------------------------------------------------------------------------
(* Transfer fees *)

\* A mint withholds at most its maximum, and no less of more.
LEMMA TransferFeeBounds ==
  ASSUME NEW s \in Sides, NEW amount \in Nat
  PROVE  TransferFee(s, amount) \in Nat /\ TransferFee(s, amount) <= TransferMax[s]
<1>1. /\ BasisPoints \in Nat /\ BasisPoints > 0
      /\ TransferRate[s] \in Nat /\ TransferRate[s] <= BasisPoints
      /\ TransferMax[s] \in Nat
  BY PoolAssumption
<1>2. CeilDiv(amount * TransferRate[s], BasisPoints) \in 0..amount
  BY <1>1, FractionOfWhole
<1> QED BY <1>1, <1>2 DEF TransferFee

LEMMA CeilDivMonotone ==
  ASSUME NEW a \in Nat, NEW b \in Nat, NEW d \in Nat, d > 0, a <= b
  PROVE  CeilDiv(a, d) <= CeilDiv(b, d)
<1> DEFINE p == CeilDiv(a, d)
           q == CeilDiv(b, d)
<1>1. p \in Nat /\ q \in Nat /\ p * d < a + d /\ b <= q * d
  BY CeilDivBounds
<1> HIDE DEF p, q
<1>2. p * d \in Nat /\ q * d \in Nat /\ (q + 1) * d = q * d + d
  BY <1>1
<1>3. p * d < (q + 1) * d
  BY <1>1, <1>2
<1>4. p < q + 1
  BY <1>1, <1>3, CancelLess
<1> QED BY <1>1, <1>4 DEF p, q

LEMMA TransferFeeMonotone ==
  ASSUME NEW s \in Sides, NEW a \in Nat, NEW b \in Nat, a <= b
  PROVE  TransferFee(s, a) <= TransferFee(s, b)
<1>1. /\ BasisPoints \in Nat /\ BasisPoints > 0
      /\ TransferRate[s] \in Nat /\ TransferRate[s] <= BasisPoints
      /\ TransferMax[s] \in Nat
  BY PoolAssumption
<1>2. a * TransferRate[s] <= b * TransferRate[s]
  BY <1>1, TimesLeq
<1>3. a * TransferRate[s] \in Nat /\ b * TransferRate[s] \in Nat
  BY <1>1
<1>4. CeilDiv(a * TransferRate[s], BasisPoints) <= CeilDiv(b * TransferRate[s], BasisPoints)
  BY <1>1, <1>2, <1>3, CeilDivMonotone
<1>5. /\ CeilDiv(a * TransferRate[s], BasisPoints) \in Nat
      /\ CeilDiv(b * TransferRate[s], BasisPoints) \in Nat
  BY <1>1, <1>3, CeilDivBounds
<1> QED BY <1>1, <1>4, <1>5 DEF TransferFee

\* The client's inverse fee is at most the maximum.
LEMMA InverseFeeBounds ==
  ASSUME NEW s \in Sides, NEW amount \in Nat
  PROVE  TransferInverseFee(s, amount) \in Nat
         /\ TransferInverseFee(s, amount) <= TransferMax[s]
<1>1. /\ BasisPoints \in Nat /\ BasisPoints > 0
      /\ TransferRate[s] \in Nat /\ TransferRate[s] <= BasisPoints
      /\ TransferMax[s] \in Nat
  BY PoolAssumption
<1>2. CASE TransferRate[s] = BasisPoints
  BY <1>1, <1>2 DEF TransferInverseFee
<1>3. CASE TransferRate[s] # BasisPoints
  <2> DEFINE sent == CeilDiv(amount * BasisPoints, BasisPoints - TransferRate[s])
  <2>1. /\ amount * BasisPoints \in Nat
        /\ BasisPoints - TransferRate[s] \in Nat /\ BasisPoints - TransferRate[s] > 0
    BY <1>1, <1>3
  <2>2. sent \in Nat
    BY <2>1, CeilDivBounds
  <2> HIDE DEF sent
  <2>3. \/ TransferInverseFee(s, amount) = TransferFee(s, amount + TransferMax[s])
        \/ TransferInverseFee(s, amount) = TransferFee(s, sent)
    BY <1>3 DEF TransferInverseFee, sent
  <2> QED BY <1>1, <2>2, <2>3, TransferFeeBounds
<1> QED BY <1>2, <1>3

\* What must be sent for an amount to arrive is no less than the amount and the
\* client's inverse fee of it.
LEMMA InverseFeeIsLeast ==
  ASSUME NEW s \in Sides, NEW amount \in Nat \ {0}, NEW sent \in Nat, sent >= amount,
         Received(s, sent) = amount
  PROVE  amount + TransferInverseFee(s, amount) <= sent
<1> DEFINE B == BasisPoints
           r == TransferRate[s]
           M == TransferMax[s]
<1>1. /\ B \in Nat /\ B > 0 /\ r \in Nat /\ r <= B /\ M \in Nat /\ B - r \in Nat
  BY PoolAssumption
<1>2. sent \in Nat /\ sent >= amount /\ sent - TransferFee(s, sent) = amount
  BY DEF Received
<1> DEFINE c == CeilDiv(sent * r, B)
<1>3. sent * r \in Nat /\ sent * B \in Nat /\ c \in Nat /\ sent * r <= c * B
  <2>1. sent * r \in Nat /\ sent * B \in Nat
    BY <1>1, <1>2
  <2> HIDE DEF B, r
  <2> QED BY <1>1, <2>1, CeilDivBounds
<1>4. /\ TransferFee(s, sent) = IF c > M THEN M ELSE c
      /\ TransferFee(s, sent) = sent - amount
  <2>1. TransferFee(s, sent) \in Nat
    BY <1>2, TransferFeeBounds
  <2> QED BY <1>2, <2>1 DEF TransferFee
<1>5. CASE c > M
  BY <1>1, <1>2, <1>4, <1>5, InverseFeeBounds
<1>6. CASE c <= M
  <2>1. sent - amount = c
    BY <1>1, <1>3, <1>4, <1>6
  <2>2. sent * r <= (sent - amount) * B
    BY <1>3, <2>1
  <2>3. amount * B <= sent * (B - r)
    <3>1. sent * (B - r) = sent * B - sent * r /\ (sent - amount) * B = sent * B - amount * B
      BY <1>1, <1>2
    <3>2. amount * B \in Nat
      BY <1>1
    <3> HIDE DEF B, r, c
    <3> QED BY <1>3, <2>2, <3>1, <3>2
  <2>4. r # B
    <3> SUFFICES ASSUME r = B PROVE FALSE
      OBVIOUS
    <3>1. sent * (B - r) = 0
      BY <1>1, <1>2
    <3>2. amount * B >= B
      <4> HIDE DEF B
      <4>1. 1 * B <= amount * B
        BY <1>1, TimesLeq
      <4> QED BY <1>1, <4>1
    <3>3. amount * B \in Nat
      BY <1>1
    <3> HIDE DEF B, r
    <3> QED BY <1>1, <2>3, <3>1, <3>2, <3>3
  <2> DEFINE least == CeilDiv(amount * B, B - r)
  <2>5. amount * B \in Nat /\ B - r \in Nat /\ B - r > 0
    BY <1>1, <2>4
  <2>6. least \in Nat /\ least * (B - r) < amount * B + (B - r)
    BY <2>5, CeilDivBounds
  <2>7. least <= sent
    <3> HIDE DEF B, r, least
    <3> DEFINE d == B - r
    <3>1. d \in Nat /\ d > 0 /\ least \in Nat /\ sent \in Nat
      BY <1>2, <2>5, <2>6
    <3>2. least * d < amount * B + d /\ amount * B <= sent * d
      BY <2>3, <2>6
    <3> HIDE DEF d
    <3>3. (sent + 1) * d = sent * d + d /\ sent * d \in Nat /\ least * d \in Nat
      BY <3>1
    <3>4. least * d < (sent + 1) * d
      BY <2>5, <3>1, <3>2, <3>3
    <3>5. least < sent + 1
      BY <3>1, <3>4, CancelLess
    <3> QED BY <3>1, <3>5
  <2> HIDE DEF least
  <2>8. TransferInverseFee(s, amount)
          = IF least - amount >= M THEN TransferFee(s, amount + M) ELSE TransferFee(s, least)
    BY <2>4 DEF TransferInverseFee, least
  <2>9. CASE least - amount >= M
    <3>1. TransferFee(s, amount + M) <= M /\ TransferFee(s, amount + M) \in Nat
      BY <1>1, TransferFeeBounds
    <3> QED BY <1>1, <1>2, <2>6, <2>7, <2>8, <2>9, <3>1
  <2>10. CASE ~(least - amount >= M)
    <3>1. TransferFee(s, least) <= TransferFee(s, sent) /\ TransferFee(s, least) \in Nat
      BY <1>2, <2>6, <2>7, TransferFeeMonotone, TransferFeeBounds
    <3> QED BY <1>2, <1>4, <2>8, <2>10, <3>1
  <2> QED BY <2>9, <2>10
<1> QED BY <1>1, <1>3, <1>5, <1>6

\* A quotient that is rounded up exceeds k - 1 as soon as the quotient does.
LEMMA CeilDivMost ==
  ASSUME NEW a \in Nat, NEW b \in Nat, b > 0, NEW k \in Nat, (k - 1) * b < a
  PROVE  CeilDiv(a, b) >= k
<1> DEFINE c == CeilDiv(a, b)
<1>1. c \in Nat /\ a <= c * b
  BY CeilDivBounds
<1> HIDE DEF c
<1>2. (k - 1) * b \in Int /\ c * b \in Nat
  BY <1>1
<1>3. (k - 1) * b < c * b
  BY <1>1, <1>2
<1>4. k - 1 < c
  BY <1>1, <1>3, CancelLess
<1> QED BY <1>1, <1>4 DEF c

\* The mint withholds exactly the client's inverse fee of what is sent for an
\* amount to arrive ...
LEMMA InverseFeeIsWithheld ==
  ASSUME NEW s \in Sides, NEW amount \in Nat \ {0}
  PROVE  Received(s, amount + TransferInverseFee(s, amount)) = amount
<1> DEFINE B == BasisPoints
           r == TransferRate[s]
           M == TransferMax[s]
           C(n) == CeilDiv(n * r, B)
           d == B - r
<1>1. /\ B \in Nat /\ B > 0 /\ r \in Nat /\ r <= B /\ M \in Nat /\ d \in Nat /\ r = B - d
  BY PoolAssumption
<1>2. ASSUME NEW n \in Nat
      PROVE  /\ TransferFee(s, n) = IF C(n) > M THEN M ELSE C(n)
             /\ C(n) \in Nat /\ n * r \in Nat
  <2>1. n * r \in Nat
    BY <1>1
  <2>2. CeilDiv(n * r, B) \in Nat
    <3> HIDE DEF B, r
    <3> QED BY <1>1, <2>1, CeilDivBounds
  <2>3. TransferFee(s, n) = IF C(n) > M THEN M ELSE C(n)
    BY DEF TransferFee
  <2> QED BY <2>1, <2>2, <2>3
<1> SUFFICES TransferFee(s, amount + TransferInverseFee(s, amount)) = TransferInverseFee(s, amount)
  BY InverseFeeBounds DEF Received
<1>3. CASE r = B
  <2>1. TransferInverseFee(s, amount) = M
    BY <1>3 DEF TransferInverseFee
  <2>2. C(amount + M) >= M
    <3>1. (M - 1) * B < (amount + M) * B
      <4> HIDE DEF B, M
      <4>1. (M - 1) * B = M * B - B /\ (amount + M) * B = amount * B + M * B
            /\ M * B \in Nat /\ amount * B \in Nat
        BY <1>1
      <4> QED BY <1>1, <4>1
    <3>2. (amount + M) * r \in Nat /\ (M - 1) * B < (amount + M) * r
      BY <1>1, <1>2, <1>3, <3>1
    <3> HIDE DEF B, M, r
    <3> QED BY <1>1, <3>2, CeilDivMost
  <2>3. amount + M \in Nat
    BY <1>1
  <2>4. /\ TransferFee(s, amount + M) = IF C(amount + M) > M THEN M ELSE C(amount + M)
        /\ C(amount + M) \in Nat
    BY <1>2, <2>3
  <2> HIDE DEF C, M
  <2>5. TransferFee(s, amount + M) = M
    BY <1>1, <2>2, <2>4
  <2> QED BY <2>1, <2>5
<1>4. CASE r # B
  <2> DEFINE least == CeilDiv(amount * B, d)
  <2>1. d > 0 /\ amount * B \in Nat
    BY <1>1, <1>4
  <2>2. least \in Nat /\ amount * B <= least * d /\ least * d < amount * B + d
    <3> HIDE DEF d, B
    <3> QED BY <1>1, <2>1, CeilDivBounds
  <2>3. TransferInverseFee(s, amount)
          = IF least - amount >= M THEN TransferFee(s, amount + M) ELSE TransferFee(s, least)
    BY <1>4 DEF TransferInverseFee
  <2> HIDE DEF least
  <2>4. CASE least - amount >= M
    <3> DEFINE n == amount + M
    <3>1. n \in Nat /\ n > 0 /\ n <= least
      BY <1>1, <2>2, <2>4
    <3>2. (M - 1) * B < n * r
      <4> HIDE DEF B, M, r, d, n
      <4>1. n * d <= least * d /\ n * d \in Nat /\ least * d \in Nat
        BY <1>1, <2>2, <3>1, TimesLeq
      <4>2. n * d < amount * B + d
        BY <1>1, <2>1, <2>2, <4>1
      <4>3. n * r = n * B - n * d /\ n * B \in Nat
        BY <1>1, <3>1
      <4>4. n * B = amount * B + M * B /\ (M - 1) * B = M * B - B /\ M * B \in Nat
        BY <1>1, <3>1 DEF n
      <4> QED BY <1>1, <2>1, <4>1, <4>2, <4>3, <4>4
    <3>3. C(n) >= M
      <4>1. n * r \in Nat
        BY <1>2, <3>1
      <4> HIDE DEF B, M, r, n
      <4> QED BY <1>1, <3>2, <4>1, CeilDivMost
    <3>4. TransferFee(s, n) = M
      <4>1. TransferFee(s, n) = (IF C(n) > M THEN M ELSE C(n)) /\ C(n) \in Nat
        BY <1>2, <3>1
      <4> HIDE DEF C, M, n
      <4> QED BY <1>1, <3>3, <4>1
    <3> QED BY <2>3, <2>4, <3>4
  <2>5. CASE ~(least - amount >= M)
    <3>1. least * r = least * B - least * d /\ least * B \in Nat /\ least * d \in Nat
      <4> HIDE DEF B, r, d
      <4> QED BY <1>1, <2>2
    <3>2. amount <= least
      <4> SUFFICES ASSUME least < amount PROVE FALSE
        BY <2>2
      <4>1. least * B < amount * B /\ least * r \in Nat
        <5> HIDE DEF B, r, d
        <5>1. (amount - least) * B >= 1 * B /\ least * r \in Nat
          BY <1>1, <2>2, TimesLeq
        <5>2. (amount - least) * B = amount * B - least * B /\ least * B \in Nat
          BY <1>1, <2>2
        <5> QED BY <1>1, <2>1, <5>1, <5>2
      <4> HIDE DEF B, r, d
      <4> QED BY <2>1, <2>2, <3>1, <4>1
    <3> DEFINE f == least - amount
    <3>3. f \in Nat /\ f < M /\ amount + f = least
      BY <1>1, <2>2, <2>5, <3>2
    <3>4. (f - 1) * B < least * r /\ least * r <= f * B /\ least * r \in Nat
      <4>1. f * B = least * B - amount * B /\ (f - 1) * B = f * B - B
        BY <1>1, <2>2
      <4>2. least * r \in Nat
        BY <1>2, <2>2
      <4>3. least * d < amount * B + B - r
        BY <1>1, <2>1, <2>2, <3>1
      <4> HIDE DEF B, r, d, f
      <4> QED BY <1>1, <2>1, <2>2, <3>1, <4>1, <4>2, <4>3
    <3>5. C(least) >= f /\ C(least) <= f
      <4> HIDE DEF B, r, f
      <4> QED BY <1>1, <2>2, <3>3, <3>4, CeilDivMost, CeilDivLeast
    <3>6. TransferFee(s, least) = f
      BY <1>1, <1>2, <2>2, <3>3, <3>5
    <3> HIDE DEF f
    <3> QED BY <2>3, <2>5, <3>3, <3>6
  <2> QED BY <2>4, <2>5
<1> QED BY <1>3, <1>4

\* ... so amount and inverse fee are what the program asks to be sent.
LEMMA InverseFeeIsExact ==
  ASSUME NEW s \in Sides, NEW amount \in Nat \ {0},
         amount + TransferInverseFee(s, amount) <= Tokens[s]
  PROVE  amount + TransferInverseFee(s, amount) \in SentFor(s, amount)
<1> DEFINE sent == amount + TransferInverseFee(s, amount)
<1>1. sent \in Nat /\ sent >= amount /\ Tokens[s] \in Nat
  BY InverseFeeBounds, PoolAssumption
<1>2. Received(s, sent) = amount
  BY InverseFeeIsWithheld
<1>3. \A less \in amount..(sent - 1) : Received(s, less) # amount
  <2> SUFFICES ASSUME NEW less \in amount..(sent - 1), Received(s, less) = amount
               PROVE  FALSE
    OBVIOUS
  <2>1. less \in Nat /\ less >= amount
    OBVIOUS
  <2>2. sent <= less
    BY <2>1, InverseFeeIsLeast
  <2> HIDE DEF sent
  <2> QED BY <1>1, <2>1, <2>2
<1> HIDE DEF sent
<1>4. sent <= Tokens[s]
  BY DEF sent
<1> QED BY <1>1, <1>2, <1>3, <1>4 DEF SentFor, sent

\* A flat fee is the same for the epoch, which the client's helpers take for the
\* amount, as for the amount.
LEMMA FlatFee ==
  ASSUME FlatFees, NEW s \in Sides, NEW amount \in Nat \ {0}, NEW any \in Nat
  PROVE  /\ TransferFee(s, amount) >= TransferFee(s, any)
         /\ TransferFee(s, amount) >= TransferInverseFee(s, any)
<1>1. /\ BasisPoints \in Nat /\ BasisPoints > 0
      /\ TransferRate[s] \in Nat /\ TransferRate[s] <= BasisPoints
      /\ TransferMax[s] \in Nat
  BY PoolAssumption
<1>2. CASE TransferRate[s] = 0
  <2>1. ASSUME NEW n \in Nat
        PROVE  TransferFee(s, n) = 0
    <3>1. CeilDiv(n * 0, BasisPoints) \in 0..n /\ CeilDiv(0 * 0, BasisPoints) \in 0..0
      BY <1>1, FractionOfWhole
    <3>2. n * 0 = 0 /\ 0 * 0 = 0
      BY SMT
    <3>3. CeilDiv(n * TransferRate[s], BasisPoints) = 0
      BY <1>2, <3>1, <3>2
    <3> QED BY <1>1, <3>3 DEF TransferFee
  <2>2. any + TransferMax[s] \in Nat /\ TransferRate[s] # BasisPoints
    BY <1>1, <1>2
  <2> DEFINE sent == CeilDiv(any * BasisPoints, BasisPoints - TransferRate[s])
  <2>3. sent \in Nat
    <3>1. any * BasisPoints \in Nat /\ BasisPoints - TransferRate[s] \in Nat
          /\ BasisPoints - TransferRate[s] > 0
      BY <1>1, <1>2
    <3> QED BY <3>1, CeilDivBounds
  <2> HIDE DEF sent
  <2>4. \/ TransferInverseFee(s, any) = TransferFee(s, any + TransferMax[s])
        \/ TransferInverseFee(s, any) = TransferFee(s, sent)
    BY <2>2 DEF TransferInverseFee, sent
  <2> QED BY <2>1, <2>2, <2>3, <2>4
<1>3. CASE TransferRate[s] # 0 /\ TransferMax[s] <= 1
  <2> DEFINE c == CeilDiv(amount * TransferRate[s], BasisPoints)
  <2>1. amount * TransferRate[s] \in Nat /\ amount * TransferRate[s] > 0
    <3>1. 1 * TransferRate[s] <= amount * TransferRate[s]
      BY <1>1, TimesLeq
    <3> QED BY <1>1, <1>3, <3>1
  <2>2. c \in Nat /\ amount * TransferRate[s] <= c * BasisPoints
    BY <1>1, <2>1, CeilDivBounds
  <2>3. c # 0
    <3> HIDE DEF c
    <3> SUFFICES ASSUME c = 0 PROVE FALSE
      OBVIOUS
    <3>1. c * BasisPoints = 0
      BY <1>1
    <3> QED BY <2>1, <2>2, <3>1
  <2>4. TransferFee(s, amount) = IF c > TransferMax[s] THEN TransferMax[s] ELSE c
    BY DEF TransferFee
  <2> HIDE DEF c
  <2>5. TransferFee(s, amount) = TransferMax[s]
    BY <1>1, <1>3, <2>2, <2>3, <2>4
  <2> QED BY <1>1, <2>5, TransferFeeBounds, InverseFeeBounds
<1> QED BY <1>2, <1>3 DEF FlatFees

LEMMA SlippedAmounts ==
  ASSUME NEW amount \in Nat, NEW slip \in 0..SlippageUnit
  PROVE  AmountUp(amount, slip) \in Nat /\ AmountDown(amount, slip) \in Nat
<1>1. SlippageUnit \in Nat /\ SlippageUnit > 0
  BY ClientAssumption
<1>2. amount * (SlippageUnit + slip) \in Nat /\ amount * (SlippageUnit - slip) \in Nat
  <2>1. SlippageUnit + slip \in Nat /\ SlippageUnit - slip \in Nat
    BY <1>1
  <2> QED BY <2>1
<1> QED BY <1>1, <1>2, CeilDivBounds, FloorDivBounds DEF AmountUp, AmountDown

----------------------------------------------------------------------------
(* Executing an order keeps its price *)

LEMMA InitializeKeepsPrice ==
  ASSUME IInv, LimitsOK, Execute, order.kind = "initialize"
  PROVE  IInv' /\ PriceKept(order)
<1>1. order \in Orders /\ order.limit = order.quoted
  BY DEF Execute, LimitsOK, FromQuote
<1>2. PICK liquidity \in 1..(Tokens[0] + Tokens[1]) :
        CreatePool(order.limit, Sides, FALSE, liquidity)
  BY DEF Execute, Executes, Initialize
<1>3. liquidity \in Nat /\ order.limit \in [Sides -> Nat]
  BY <1>1, PoolAssumption DEF Orders, Sides
<1>4. IInv'
  BY <1>2, <1>3, CreatePoolGood DEF Good
<1>5. vault' = [s \in Sides |-> Received(s, order.limit[s])]
  BY <1>2 DEF CreatePool
<1>6. PriceKept(order)
  BY <1>1, <1>5 DEF PriceKept
<1> QED BY <1>4, <1>6

LEMMA SwapInKeepsPrice ==
  ASSUME IInv, LimitsOK, Execute, order.kind = "swap_in"
  PROVE  IInv' /\ PriceKept(order)
<1> DEFINE s == order.side
           out == Other(s)
<1>1. /\ order \in Orders
      /\ order.limit[out] = AmountDown(order.quoted[out], order.slip)
  BY DEF Execute, LimitsOK, FromQuote
<1>2. s \in Sides /\ out \in Sides /\ out # s /\ order.amount \in Nat
  BY <1>1, OtherSide DEF Orders
<1>3. SwapBaseInput(s, order.amount, order.limit[out])
  BY DEF Execute, Executes
<1>4. IInv'
  BY <1>2, <1>3, SwapBaseInputExchanges, ExchangeGood DEF Good
<1> DEFINE q == QuoteInput(IsCreatorFeeOnInput(s), Received(s, order.amount), Net(s), Net(out),
                           config.trade, CreatorRate)
<1>5. /\ Received(out, q.output) >= order.limit[out]
      /\ vault' = [vault EXCEPT ![s] = @ + q.input, ![out] = @ - q.output]
      /\ created /\ Priced(s)
  BY <1>3 DEF SwapBaseInput, Exchange, SwapOpen
<1>6. q.output \in Nat
  <2>1. Net(s) \in Nat /\ Net(s) > 0 /\ Net(out) \in Nat /\ Net(out) > 0
    BY <1>2, <1>5, OpenPool
  <2>2. Received(s, order.amount) \in Nat /\ IsCreatorFeeOnInput(s) \in BOOLEAN
    BY <1>2, ReceivedBounds DEF IsCreatorFeeOnInput
  <2> QED BY <1>5, <2>1, <2>2, RatesBelowDenominator, QuoteInputAccounted DEF Priced, Accounted
<1> HIDE DEF q
<1>7. Drawn(out) = q.output
  <2>1. vault \in [Sides -> Nat]
    BY DEF IInv, TypeOK
  <2> HIDE DEF s, out
  <2>2. vault'[out] = vault[out] - q.output /\ vault[out] \in Nat
    BY <1>2, <1>5, <2>1
  <2> QED BY <1>6, <2>2 DEF Drawn
<1>8. PriceKept(order)
  BY <1>1, <1>5, <1>7 DEF PriceKept
<1> QED BY <1>4, <1>8

LEMMA SwapOutKeepsPrice ==
  ASSUME IInv, LimitsOK, Execute, order.kind = "swap_out"
  PROVE  IInv' /\ PriceKept(order)
<1> DEFINE s == order.side
           out == Other(s)
           Q(output) == QuoteOutput(IsCreatorFeeOnInput(s), output, Net(s), Net(out),
                                    config.trade, CreatorRate)
           most == AmountUp(order.quoted[s], order.slip)
<1>1. order \in Orders /\ order.limit[s] = most
  BY DEF Execute, LimitsOK, FromQuote
<1>2. s \in Sides /\ out \in Sides /\ out # s /\ order.amount \in Nat /\ most \in Nat
  BY <1>1, OtherSide, SlippedAmounts DEF Orders
<1>3. SwapBaseOutput(s, order.limit[s], order.amount)
  BY DEF Execute, Executes
<1>4. IInv'
  BY <1>2, <1>3, SwapBaseOutputExchanges, ExchangeGood DEF Good
<1>5. PICK output \in SentFor(out, order.amount) :
        /\ created /\ Priced(s)
        /\ DrawnFor(IsCreatorFeeOnInput(s), output, CreatorRate) < Net(out)
        /\ Q(output).input > 0
        /\ \E sent \in SentFor(s, Q(output).input) : sent <= order.limit[s]
        /\ vault' = [vault EXCEPT ![s] = @ + Q(output).input, ![out] = @ - Q(output).output]
  BY <1>3 DEF SwapBaseOutput, SwapOpen, Exchange
<1>6. output \in Nat /\ Received(out, output) = order.amount
  BY <1>2 DEF SentFor
<1>7. Q(output).input \in Nat /\ Q(output).output = output
  <2>1. Net(s) \in Nat /\ Net(out) \in Nat /\ IsCreatorFeeOnInput(s) \in BOOLEAN
    BY <1>2, <1>5, OpenPool DEF IsCreatorFeeOnInput
  <2>2. Q(output).input \in Nat
    BY <1>5, <1>6, <2>1, RatesBelowDenominator, QuoteOutputAccounted DEF Priced, Accounted
  <2>3. Q(output).output = output
    BY DEF QuoteOutput, QuoteOutputFeeIn, QuoteOutputFeeOut, Quote
  <2> QED BY <2>2, <2>3
<1> DEFINE input == Q(output).input
<1>8. input \in Nat \ {0} /\ \E sent \in SentFor(s, input) : sent <= most
  BY <1>1, <1>5, <1>7
<1>9. vault' = [vault EXCEPT ![s] = @ + input, ![out] = @ - output]
  BY <1>5, <1>7
<1> HIDE DEF input, Q
<1>10. input + TransferInverseFee(s, input) <= most
  <2>1. PICK sent \in SentFor(s, input) : sent <= most
    BY <1>8
  <2>2. sent \in Nat /\ sent >= input /\ Received(s, sent) = input
    BY <1>8, <2>1 DEF SentFor
  <2>3. input + TransferInverseFee(s, input) <= sent /\ TransferInverseFee(s, input) \in Nat
    BY <1>2, <1>8, <2>2, InverseFeeIsLeast, InverseFeeBounds
  <2> QED BY <1>2, <1>8, <2>1, <2>2, <2>3
<1>11. Paid(s) = input /\ Drawn(out) = output
  <2>1. vault \in [Sides -> Nat]
    BY DEF IInv, TypeOK
  <2> HIDE DEF s, out
  <2>2. /\ vault'[s] = vault[s] + input /\ vault'[out] = vault[out] - output
        /\ vault[s] \in Nat /\ vault[out] \in Nat
    BY <1>2, <1>9, <2>1
  <2> QED BY <1>6, <1>8, <2>2 DEF Paid, Drawn
<1>12. PriceKept(order)
  BY <1>6, <1>10, <1>11 DEF PriceKept
<1> QED BY <1>4, <1>12

LEMMA DepositOrderExecuted ==
  ASSUME IInv, LimitsOK, Execute, order.kind = "deposit"
  PROVE  IInv' /\ (FlatFees => PriceKept(order))
<1>1. /\ order \in Orders
      /\ \A s \in Sides :
           order.limit[s] = AmountUp(order.quoted[s], order.slip) + TransferInverseFee(s, Epoch)
  BY DEF Execute, LimitsOK, FromQuote
<1>2. order.amount \in Nat /\ Deposit(order.amount, order.limit)
  BY <1>1 DEF Execute, Executes, Orders
<1>3. IInv'
  BY <1>2, DepositGood DEF Good
<1> DEFINE amount(s) == LpToDeposit(order.amount, lpSupply, Net(s))
           most(s) == AmountUp(order.quoted[s], order.slip)
<1>4. /\ created /\ \A s \in Sides : amount(s) > 0
      /\ \A s \in Sides : \E sent \in SentFor(s, amount(s)) : sent <= order.limit[s]
      /\ vault' = [s \in Sides |-> vault[s] + amount(s)]
  BY <1>2 DEF Deposit
<1>5. \A s \in Sides : amount(s) \in Nat \ {0} /\ most(s) \in Nat
  <2>1. \A s \in Sides : amount(s) \in Nat
    BY <1>2, <1>4, OpenPool, DepositBounds
  <2>2. \A s \in Sides : most(s) \in Nat
    BY <1>1, SlippedAmounts DEF Orders
  <2> QED BY <1>4, <2>1, <2>2
<1> HIDE DEF amount, most
<1>6. ASSUME FlatFees, NEW s \in Sides
      PROVE  amount(s) <= most(s)
  <2>1. order.limit[s] = most(s) + TransferInverseFee(s, Epoch)
    BY <1>1 DEF most
  <2>2. PICK sent \in SentFor(s, amount(s)) : sent <= order.limit[s]
    BY <1>4
  <2>3. /\ sent \in Nat /\ sent >= amount(s) /\ sent - TransferFee(s, sent) = amount(s)
    BY <1>5, <1>6 DEF SentFor, Received
  <2>4. sent \in Nat \ {0}
    BY <1>5, <2>3
  <2>5. /\ TransferFee(s, sent) >= TransferInverseFee(s, Epoch)
        /\ TransferFee(s, sent) \in Nat /\ TransferInverseFee(s, Epoch) \in Nat
    BY <1>6, <2>4, ClientAssumption, FlatFee, TransferFeeBounds, InverseFeeBounds
  <2> QED BY <1>5, <2>1, <2>2, <2>3, <2>5
<1>7. \A s \in Sides : Paid(s) = amount(s)
  BY <1>4, <1>5 DEF Paid, IInv, TypeOK
<1>8. FlatFees => PriceKept(order)
  BY <1>6, <1>7 DEF PriceKept, most
<1> QED BY <1>3, <1>8

LEMMA WithdrawOrderExecuted ==
  ASSUME IInv, LimitsOK, Execute, order.kind = "withdraw"
  PROVE  IInv' /\ (FlatFees => PriceKept(order))
<1>1. /\ order \in Orders
      /\ \A s \in Sides :
           order.limit[s] = AmountDown(order.quoted[s], order.slip) - TransferFee(s, Epoch)
  BY DEF Execute, LimitsOK, FromQuote
<1>2. order.amount \in Nat /\ Withdraw(order.amount, order.limit)
  BY <1>1 DEF Execute, Executes, Orders
<1>3. IInv'
  BY <1>2, WithdrawGood DEF Good
<1> DEFINE amount(s) == LpToWithdraw(order.amount, lpSupply, Net(s))
           least(s) == AmountDown(order.quoted[s], order.slip)
<1>4. /\ created /\ \A s \in Sides : amount(s) > 0
      /\ \A s \in Sides : Received(s, amount(s)) >= order.limit[s]
      /\ vault' = [s \in Sides |-> vault[s] - amount(s)]
  BY <1>2 DEF Withdraw
<1>5. \A s \in Sides : amount(s) \in Nat \ {0} /\ least(s) \in Nat
  <2>1. \A s \in Sides : amount(s) \in Nat
    <3>1. lpSupply \in Nat /\ lpSupply > 0
          /\ \A s \in Sides : order.amount * Net(s) \in Nat
      BY <1>2, <1>4, OpenPool
    <3> QED BY <3>1, FloorDivBounds DEF LpToWithdraw
  <2>2. \A s \in Sides : least(s) \in Nat
    BY <1>1, SlippedAmounts DEF Orders
  <2> QED BY <1>4, <2>1, <2>2
<1> HIDE DEF amount, least
<1>6. ASSUME FlatFees, NEW s \in Sides
      PROVE  amount(s) >= least(s)
  <2>1. /\ order.limit[s] = least(s) - TransferFee(s, Epoch)
        /\ amount(s) - TransferFee(s, amount(s)) >= order.limit[s]
    BY <1>1, <1>4 DEF least, Received
  <2>2. /\ TransferFee(s, amount(s)) >= TransferFee(s, Epoch)
        /\ TransferFee(s, amount(s)) \in Nat /\ TransferFee(s, Epoch) \in Nat
    BY <1>5, <1>6, ClientAssumption, FlatFee, TransferFeeBounds
  <2> QED BY <1>5, <2>1, <2>2
<1>7. \A s \in Sides : Drawn(s) = amount(s)
  BY <1>4, <1>5 DEF Drawn, IInv, TypeOK
<1>8. FlatFees => PriceKept(order)
  BY <1>6, <1>7 DEF PriceKept, least
<1> QED BY <1>3, <1>8

\* Creation and swaps keep to the price whatever the mints withhold; deposits and
\* withdrawals do when the client's swapped arguments make no difference.
SettledAsQuoted ==
  Execute => \/ PriceKept(order)
             \/ order.kind \in {"deposit", "withdraw"} /\ ~FlatFees

LEMMA ExecuteGood ==
  ASSUME IInv, LimitsOK, Execute
  PROVE  ClientIInv' /\ SettledAsQuoted
<1>1. order' = NoOrder
  BY DEF Execute
<1>2. LimitsOK'
  BY <1>1 DEF LimitsOK
<1>3. order.kind \in {"initialize", "deposit", "withdraw", "swap_in", "swap_out"}
  BY DEF Execute, LimitsOK, FromQuote, Orders
<1>4. IInv' /\ (PriceKept(order) \/ (order.kind \in {"deposit", "withdraw"} /\ ~FlatFees))
  BY <1>3, InitializeKeepsPrice, SwapInKeepsPrice, SwapOutKeepsPrice,
     DepositOrderExecuted, WithdrawOrderExecuted
<1> QED BY <1>2, <1>4 DEF ClientIInv, SettledAsQuoted

----------------------------------------------------------------------------
(* The commands write such orders *)

LEMMA OrderFields ==
  ASSUME NEW kind \in {"initialize", "deposit", "withdraw", "swap_in", "swap_out"},
         NEW side \in Sides, NEW amount \in Nat, NEW slip \in 0..SlippageUnit,
         NEW quoted \in [Sides -> Nat], NEW limit \in [Sides -> Int]
  PROVE  LET o == Order(kind, side, amount, slip, quoted, limit)
         IN  /\ o \in Orders /\ o.kind = kind /\ o.side = side /\ o.amount = amount
             /\ o.slip = slip /\ o.quoted = quoted /\ o.limit = limit
BY DEF Order, Orders

LEMMA InitializePoolOrders ==
  ASSUME NEW mint0 \in Sides, NEW a0 \in Nat, NEW a1 \in Nat, InitializePool(mint0, a0, a1)
  PROVE  FromQuote(order')
<1> DEFINE amounts == [s \in Sides |-> IF s = mint0 THEN a0 ELSE a1]
<1>1. amounts \in [Sides -> Nat] /\ amounts \in [Sides -> Int]
  OBVIOUS
<1>2. order' = Order("initialize", 0, 0, 0, amounts, amounts)
  BY DEF InitializePool
<1>3. 0 \in Sides /\ 0 \in 0..SlippageUnit
  BY ClientAssumption DEF Sides
<1> HIDE DEF amounts
<1> QED BY <1>1, <1>2, <1>3, OrderFields DEF FromQuote

\* What the client prices a deposit and a withdrawal at.
LEMMA PricedLp ==
  ASSUME IInv, created, NEW lp \in Nat, NEW slip \in 0..SlippageUnit
  PROVE  /\ [s \in Sides |-> LpToDeposit(lp, lpSupply, Fetched(s))] \in [Sides -> Nat]
         /\ \A s \in Sides :
              /\ AmountUp(LpToDeposit(lp, lpSupply, Fetched(s)), slip) \in Nat
              /\ AmountDown(LpToDeposit(lp, lpSupply, Fetched(s)), slip) \in Nat
<1>1. \A s \in Sides : LpToDeposit(lp, lpSupply, Fetched(s)) \in Nat
  <2>1. lpSupply \in Nat /\ lpSupply > 0 /\ \A s \in Sides : lp * Net(s) \in Nat
    BY OpenPool
  <2> QED BY <2>1, CeilDivBounds DEF LpToDeposit, Fetched
<1> QED BY <1>1, SlippedAmounts

LEMMA DepositCommandOrders ==
  ASSUME IInv, NEW lp \in Nat, NEW slip \in 0..SlippageUnit, DepositCommand(lp, slip)
  PROVE  FromQuote(order')
<1> DEFINE quoted == [s \in Sides |-> LpToDeposit(lp, lpSupply, Fetched(s))]
           slipped == [s \in Sides |-> AmountUp(quoted[s], slip)]
           limit == [s \in Sides |-> slipped[s] + PoolMintInverseFee(s, slipped[s])]
<1>1. created /\ order' = Order("deposit", 0, lp, slip, quoted, limit)
  BY DEF DepositCommand
<1>2. quoted \in [Sides -> Nat] /\ slipped \in [Sides -> Nat]
  BY <1>1, PricedLp
<1> HIDE DEF quoted
<1>3. \A s \in Sides : limit[s] = AmountUp(quoted[s], slip) + TransferInverseFee(s, Epoch)
  BY DEF PoolMintInverseFee
<1>4. limit \in [Sides -> Int]
  <2>1. \A s \in Sides : TransferInverseFee(s, Epoch) \in Nat
    BY ClientAssumption, InverseFeeBounds
  <2> QED BY <1>2, <2>1 DEF PoolMintInverseFee
<1> HIDE DEF slipped, limit
<1>5. 0 \in Sides
  BY DEF Sides
<1>6. /\ order' \in Orders /\ order'.kind = "deposit"
      /\ order'.slip = slip /\ order'.quoted = quoted /\ order'.limit = limit
  BY <1>1, <1>2, <1>4, <1>5, OrderFields
<1> QED BY <1>3, <1>6 DEF FromQuote

LEMMA WithdrawCommandOrders ==
  ASSUME IInv, NEW lp \in Nat, NEW slip \in 0..SlippageUnit, WithdrawCommand(lp, slip)
  PROVE  FromQuote(order')
<1> DEFINE quoted == [s \in Sides |-> LpToDeposit(lp, lpSupply, Fetched(s))]
           slipped == [s \in Sides |-> AmountDown(quoted[s], slip)]
           fee == [s \in Sides |-> PoolMintTransferFee(s, slipped[s])]
           limit == [s \in Sides |-> slipped[s] - fee[s]]
<1>1. created /\ order' = Order("withdraw", 0, lp, slip, quoted, limit)
  BY DEF WithdrawCommand
<1>2. quoted \in [Sides -> Nat] /\ slipped \in [Sides -> Nat]
  BY <1>1, PricedLp
<1> HIDE DEF quoted
<1>3. \A s \in Sides : limit[s] = AmountDown(quoted[s], slip) - TransferFee(s, Epoch)
  BY DEF PoolMintTransferFee
<1>4. limit \in [Sides -> Int]
  <2>1. \A s \in Sides : TransferFee(s, Epoch) \in Nat
    BY ClientAssumption, TransferFeeBounds
  <2> QED BY <1>2, <2>1 DEF PoolMintTransferFee
<1> HIDE DEF slipped, fee, limit
<1>5. 0 \in Sides
  BY DEF Sides
<1>6. /\ order' \in Orders /\ order'.kind = "withdraw"
      /\ order'.slip = slip /\ order'.quoted = quoted /\ order'.limit = limit
  BY <1>1, <1>2, <1>4, <1>5, OrderFields
<1> QED BY <1>3, <1>6 DEF FromQuote

LEMMA OnSide ==
  ASSUME NEW s \in Sides, NEW amount \in Nat
  PROVE  /\ On(s, amount) \in [Sides -> Nat] /\ On(s, amount) \in [Sides -> Int]
         /\ On(s, amount)[s] = amount
BY DEF On

LEMMA SwapBaseInOrders ==
  ASSUME IInv, NEW s \in Sides, NEW amountIn \in Nat, NEW slip \in 0..SlippageUnit,
         SwapBaseIn(s, amountIn, slip)
  PROVE  FromQuote(order')
<1> DEFINE q == QuoteInput(IsCreatorFeeOnInput(s), Received(s, amountIn), Net(s), Net(Other(s)),
                           config.trade, CreatorRate)
           received == Received(Other(s), q.output)
<1>1. /\ created /\ Priced(s)
      /\ order' = Order("swap_in", s, amountIn, slip, On(Other(s), received),
                        On(Other(s), AmountDown(received, slip)))
  BY DEF SwapBaseIn, Fetched, LeastOutput
<1>2. Other(s) \in Sides
  BY OtherSide
<1>3. received \in Nat
  <2>1. /\ Net(s) \in Nat /\ Net(s) > 0 /\ Net(Other(s)) \in Nat /\ Net(Other(s)) > 0
    BY <1>1, <1>2, OpenPool
  <2>2. Received(s, amountIn) \in Nat /\ IsCreatorFeeOnInput(s) \in BOOLEAN
    BY ReceivedBounds DEF IsCreatorFeeOnInput
  <2>3. q.output \in Nat
    BY <1>1, <2>1, <2>2, RatesBelowDenominator, QuoteInputAccounted DEF Priced, Accounted
  <2> HIDE DEF q
  <2> QED BY <1>2, <2>3, ReceivedBounds
<1> HIDE DEF received
<1>4. AmountDown(received, slip) \in Nat
  BY <1>3, SlippedAmounts
<1> DEFINE quoted == On(Other(s), received)
           limit == On(Other(s), AmountDown(received, slip))
<1>5. /\ quoted \in [Sides -> Nat] /\ limit \in [Sides -> Int]
      /\ limit[Other(s)] = AmountDown(quoted[Other(s)], slip)
  BY <1>2, <1>3, <1>4, OnSide
<1>6. order' = Order("swap_in", s, amountIn, slip, quoted, limit)
  BY <1>1
<1> HIDE DEF quoted, limit
<1>7. /\ order' \in Orders /\ order'.kind = "swap_in" /\ order'.side = s
      /\ order'.slip = slip /\ order'.quoted = quoted /\ order'.limit = limit
  BY <1>5, <1>6, OrderFields
<1> QED BY <1>5, <1>7 DEF FromQuote

LEMMA SwapBaseOutOrders ==
  ASSUME IInv, NEW s \in Sides, NEW amountOut \in Nat, NEW slip \in 0..SlippageUnit,
         SwapBaseOut(s, amountOut, slip)
  PROVE  FromQuote(order')
<1> DEFINE output == amountOut + TransferInverseFee(Other(s), amountOut)
           q == QuoteOutput(IsCreatorFeeOnInput(s), output, Net(s), Net(Other(s)),
                            config.trade, CreatorRate)
           asked == q.input + TransferInverseFee(s, q.input)
<1>1. /\ created /\ Priced(s)
      /\ DrawnFor(IsCreatorFeeOnInput(s), output, CreatorRate) < Net(Other(s))
      /\ order' = Order("swap_out", s, amountOut, slip, On(s, asked),
                        On(s, AmountUp(asked, slip)))
  BY DEF SwapBaseOut, Fetched, MostInput
<1>2. Other(s) \in Sides
  BY OtherSide
<1>3. asked \in Nat
  <2>1. output \in Nat
    BY <1>2, InverseFeeBounds
  <2>2. Net(s) \in Nat /\ Net(Other(s)) \in Nat /\ IsCreatorFeeOnInput(s) \in BOOLEAN
    BY <1>1, <1>2, OpenPool DEF IsCreatorFeeOnInput
  <2> HIDE DEF output
  <2>3. q.input \in Nat
    BY <1>1, <2>1, <2>2, RatesBelowDenominator, QuoteOutputAccounted DEF Priced, Accounted
  <2> HIDE DEF q
  <2> QED BY <2>3, InverseFeeBounds
<1> HIDE DEF asked
<1>4. AmountUp(asked, slip) \in Nat
  BY <1>3, SlippedAmounts
<1> DEFINE quoted == On(s, asked)
           limit == On(s, AmountUp(asked, slip))
<1>5. /\ quoted \in [Sides -> Nat] /\ limit \in [Sides -> Int]
      /\ limit[s] = AmountUp(quoted[s], slip)
  BY <1>3, <1>4, OnSide
<1>6. order' = Order("swap_out", s, amountOut, slip, quoted, limit)
  BY <1>1
<1> HIDE DEF quoted, limit
<1>7. /\ order' \in Orders /\ order'.kind = "swap_out" /\ order'.side = s
      /\ order'.slip = slip /\ order'.quoted = quoted /\ order'.limit = limit
  BY <1>5, <1>6, OrderFields
<1> QED BY <1>5, <1>7 DEF FromQuote

LEMMA CommandGood ==
  ASSUME IInv, Command
  PROVE  ClientIInv'
<1>0. /\ MaxLp \in Nat /\ Slippages \subseteq 0..SlippageUnit
      /\ \A s \in Sides : Tokens[s] \in Nat /\ Tokens[Other(s)] \in Nat
  BY PoolAssumption, ClientAssumption DEF Sides, Other
<1>1. IInv'
  BY StutterGood DEF Command, Good
<1>2. lpMinted \in Nat
  BY DEF IInv, TypeOK
<1>3. FromQuote(order')
  BY <1>0, <1>2, InitializePoolOrders, DepositCommandOrders, WithdrawCommandOrders,
     SwapBaseInOrders, SwapBaseOutOrders DEF Command
<1> QED BY <1>1, <1>3 DEF ClientIInv, LimitsOK

LEMMA MeanwhileGood ==
  ASSUME IInv, LimitsOK, Meanwhile
  PROVE  ClientIInv'
<1>1. IInv'
  BY NextGood DEF Meanwhile, Good
<1>2. CASE order = NoOrder
  BY <1>1, <1>2 DEF Meanwhile, ClientIInv, LimitsOK
<1>3. CASE order # NoOrder
  <2>1. PICK fresh \in BOOLEAN : order' = [order EXCEPT !.fresh = fresh]
    <3>1. order.fresh \in BOOLEAN
      BY <1>3 DEF LimitsOK, FromQuote, Orders
    <3>2. order' = [order EXCEPT !.fresh = @ /\ UNCHANGED vars]
      BY <1>3 DEF Meanwhile
    <3> DEFINE still == order.fresh /\ UNCHANGED vars
    <3>3. order' = [order EXCEPT !.fresh = still] /\ still \in BOOLEAN
      BY <3>1, <3>2
    <3> HIDE DEF still
    <3> QED BY <3>3
  <2>2. FromQuote(order)
    BY <1>3 DEF LimitsOK
  <2>3. /\ order' \in Orders /\ order'.kind = order.kind /\ order'.side = order.side
        /\ order'.amount = order.amount /\ order'.slip = order.slip
        /\ order'.quoted = order.quoted /\ order'.limit = order.limit
    BY <2>1, <2>2 DEF FromQuote, Orders
  <2>4. FromQuote(order')
    BY <2>2, <2>3 DEF FromQuote
  <2> QED BY <1>1, <2>4 DEF ClientIInv, LimitsOK
<1> QED BY <1>2, <1>3

----------------------------------------------------------------------------
(* Theorems *)

LEMMA ClientInvariant == ClientSpec => []ClientIInv
<1>1. ClientInit => ClientIInv
  BY InitIInv DEF ClientInit, ClientIInv, LimitsOK
<1>2. ASSUME ClientIInv, [ClientNext]_<<vars, order>>
      PROVE  ClientIInv'
  <2>1. IInv /\ LimitsOK
    BY <1>2 DEF ClientIInv
  <2>2. CASE Command
    BY <2>1, <2>2, CommandGood
  <2>3. CASE Execute
    BY <2>1, <2>3, ExecuteGood
  <2>4. CASE Lapse
    <3>1. IInv' /\ order' = NoOrder
      BY <2>1, <2>4, StutterGood DEF Lapse, Good
    <3> QED BY <3>1 DEF ClientIInv, LimitsOK
  <2>5. CASE Meanwhile
    BY <2>1, <2>5, MeanwhileGood
  <2>6. CASE UNCHANGED <<vars, order>>
    <3>1. IInv' /\ order' = order
      BY <2>1, <2>6, StutterGood DEF Good
    <3> QED BY <2>1, <3>1 DEF ClientIInv, LimitsOK
  <2> QED BY <1>2, <2>2, <2>3, <2>4, <2>5, <2>6 DEF ClientNext
<1> QED BY <1>1, <1>2, PTL DEF ClientSpec

\* Whatever others do between the quote and the transaction, and whatever the
\* mints withhold, a creation or a swap of the client that executes keeps to the
\* price its user was quoted.
THEOREM SwapsSettleAsQuoted == ClientSpec => [][SettledAsQuoted]_<<vars, order>>
<1>1. ClientIInv /\ [ClientNext]_<<vars, order>> => [SettledAsQuoted]_<<vars, order>>
  BY ExecuteGood DEF ClientIInv, SettledAsQuoted
<1> QED BY <1>1, ClientInvariant, PTL DEF ClientSpec

\* While no mint's fee depends on the amount, deposits and withdrawals of the
\* client keep to the price too.
THEOREM FlatFeesKeepSlippage ==
  ASSUME FlatFees
  PROVE  ClientSpec => SlippageHolds
<1>1. SettledAsQuoted => (Execute => PriceKept(order))
  BY DEF SettledAsQuoted
<1>2. [SettledAsQuoted]_<<vars, order>> => [Execute => PriceKept(order)]_<<vars, order>>
  BY <1>1
<1>3. ClientSpec => [][Execute => PriceKept(order)]_<<vars, order>>
  BY <1>2, SwapsSettleAsQuoted, PTL
<1> QED BY <1>3 DEF SlippageHolds

----------------------------------------------------------------------------
(* What the program checks of an order *)

\* What the program asks of a swap once it is quoted: that the product of the
\* reserves does not fall, and that no creator's fee is booked where none is due.
ExchangeAccepted(s, q) ==
  /\ (Net(s) + q.swapped) * (Net(Other(s)) - q.drawn) >= Net(s) * Net(Other(s))
  /\ enableCreatorFee \/ q.creatorFee = 0

InputQuote(s, amountIn) ==
  QuoteInput(IsCreatorFeeOnInput(s), Received(s, amountIn), Net(s), Net(Other(s)),
             config.trade, CreatorRate)

OutputQuote(s, output) ==
  QuoteOutput(IsCreatorFeeOnInput(s), output, Net(s), Net(Other(s)), config.trade, CreatorRate)

DepositAccepted(lp, maximum) ==
  /\ created /\ lp > 0 /\ "deposit" \notin disabled /\ NetsOK
  /\ \A s \in Sides : LpToDeposit(lp, lpSupply, Net(s)) > 0
  /\ \A s \in Sides : \E sent \in SentFor(s, LpToDeposit(lp, lpSupply, Net(s))) :
       sent <= maximum[s] /\ sent <= Held(s)

WithdrawAccepted(lp, minimum) ==
  /\ created /\ lp > 0 /\ lp <= lpMinted /\ lp <= lpSupply
  /\ "withdraw" \notin disabled /\ NetsOK
  /\ \A s \in Sides : LpToWithdraw(lp, lpSupply, Net(s)) > 0
  /\ \A s \in Sides : Received(s, LpToWithdraw(lp, lpSupply, Net(s))) >= minimum[s]

SwapInAccepted(s, amountIn, minimumOut) ==
  LET q == InputQuote(s, amountIn)
  IN  /\ SwapOpen /\ Priced(s)
      /\ Received(s, amountIn) > 0 /\ amountIn <= Held(s)
      /\ Received(Other(s), q.output) > 0 /\ Received(Other(s), q.output) >= minimumOut
      /\ ExchangeAccepted(s, q)

SwapOutAccepted(s, maximumIn, amountOut, output) ==
  LET q == OutputQuote(s, output)
  IN  /\ amountOut > 0 /\ SwapOpen /\ Priced(s)
      /\ DrawnFor(IsCreatorFeeOnInput(s), output, CreatorRate) < Net(Other(s))
      /\ q.input > 0
      /\ \E sent \in SentFor(s, q.input) : sent <= maximumIn /\ sent <= Held(s)
      /\ ExchangeAccepted(s, q)

\* Every check of the instruction an order names, in the current state.
Accepted(o) ==
  \/ o.kind = "deposit" /\ DepositAccepted(o.amount, o.limit)
  \/ o.kind = "withdraw" /\ WithdrawAccepted(o.amount, o.limit)
  \/ o.kind = "swap_in" /\ SwapInAccepted(o.side, o.amount, o.limit[Other(o.side)])
  \/ /\ o.kind = "swap_out"
     /\ \E output \in SentFor(Other(o.side), o.amount) :
          SwapOutAccepted(o.side, o.limit[o.side], o.amount, output)

\* An order nobody got ahead of was priced in the current state.
FreshPrice(o) ==
  /\ created /\ o.amount > 0
  /\ o.kind \in {"deposit", "withdraw"} =>
       \A s \in Sides : o.quoted[s] = LpToDeposit(o.amount, lpSupply, Net(s))
  /\ o.kind = "withdraw" => o.amount <= lpMinted
  /\ o.kind = "swap_in" =>
       /\ Priced(o.side)
       /\ o.quoted[Other(o.side)]
            = Received(Other(o.side), InputQuote(o.side, o.amount).output)
  /\ o.kind = "swap_out" =>
       LET output == o.amount + TransferInverseFee(Other(o.side), o.amount)
           q == OutputQuote(o.side, output)
       IN  /\ Priced(o.side)
           /\ DrawnFor(IsCreatorFeeOnInput(o.side), output, CreatorRate) < Net(Other(o.side))
           /\ o.quoted[o.side] = q.input + TransferInverseFee(o.side, q.input)

PricedNow ==
  order # NoOrder /\ order.fresh /\ order.kind # "initialize" => FreshPrice(order)

----------------------------------------------------------------------------
(* Accepted is the guard of Execute *)

\* What the end of a swap assigns.
Exchanged(s, q) ==
  /\ protocolFees' = [protocolFees EXCEPT ![s] = @ + PartOfFee(q.tradeFee, config.protocol)]
  /\ fundFees' = [fundFees EXCEPT ![s] = @ + PartOfFee(q.tradeFee, config.fund)]
  /\ creatorFees' = [creatorFees EXCEPT ![CreatorFeeSide(s)] = @ + q.creatorFee]
  /\ vault' = [vault EXCEPT ![s] = @ + q.input, ![Other(s)] = @ - q.output]
  /\ UNCHANGED <<admin, modes, opened, lpSupply, lpMinted>>

\* What an order's instruction assigns: one value to each variable.
Assigned(o) ==
  /\ o.kind = "deposit" =>
       /\ vault' = [s \in Sides |-> vault[s] + LpToDeposit(o.amount, lpSupply, Net(s))]
       /\ lpSupply' = lpSupply + o.amount /\ lpMinted' = lpMinted + o.amount
       /\ UNCHANGED <<admin, modes, opened, fees>>
  /\ o.kind = "withdraw" =>
       /\ vault' = [s \in Sides |-> vault[s] - LpToWithdraw(o.amount, lpSupply, Net(s))]
       /\ lpSupply' = lpSupply - o.amount /\ lpMinted' = lpMinted - o.amount
       /\ UNCHANGED <<admin, modes, opened, fees>>
  /\ o.kind = "swap_in" => Exchanged(o.side, InputQuote(o.side, o.amount))
  /\ o.kind = "swap_out" =>
       \A output \in SentFor(Other(o.side), o.amount) :
         Exchanged(o.side, OutputQuote(o.side, output))

\* An accepted order has a step: its instruction with these assignments ...
LEMMA AcceptedIsExecuted ==
  ASSUME order # NoOrder, Accepted(order), Assigned(order), order' = NoOrder
  PROVE  Execute
<1>1. CASE order.kind = "deposit"
  BY <1>1 DEF Accepted, DepositAccepted, Assigned, Execute, Executes, Deposit
<1>2. CASE order.kind = "withdraw"
  BY <1>2 DEF Accepted, WithdrawAccepted, Assigned, Execute, Executes, Withdraw
<1>3. CASE order.kind = "swap_in"
  BY <1>3 DEF Accepted, SwapInAccepted, Assigned, Exchanged, ExchangeAccepted, InputQuote,
              Execute, Executes, SwapBaseInput, Exchange, BookFees
<1>4. CASE order.kind = "swap_out"
  BY <1>4 DEF Accepted, SwapOutAccepted, Assigned, Exchanged, ExchangeAccepted, OutputQuote,
              Execute, Executes, SwapBaseOutput, Exchange, BookFees
<1> QED BY <1>1, <1>2, <1>3, <1>4 DEF Accepted

\* ... and no other order has one, but the creation of a pool.
LEMMA ExecutedWasAccepted ==
  ASSUME Execute, order.kind # "initialize"
  PROVE  Accepted(order)
<1>1. CASE order.kind = "deposit"
  BY <1>1 DEF Accepted, DepositAccepted, Execute, Executes, Deposit
<1>2. CASE order.kind = "withdraw"
  BY <1>2 DEF Accepted, WithdrawAccepted, Execute, Executes, Withdraw
<1>3. CASE order.kind = "swap_in"
  BY <1>3 DEF Accepted, SwapInAccepted, ExchangeAccepted, InputQuote,
              Execute, Executes, SwapBaseInput, Exchange, BookFees
<1>4. CASE order.kind = "swap_out"
  BY <1>4 DEF Accepted, SwapOutAccepted, ExchangeAccepted, OutputQuote,
              Execute, Executes, SwapBaseOutput, Exchange, BookFees
<1> QED BY <1>1, <1>2, <1>3, <1>4 DEF Execute, Executes

----------------------------------------------------------------------------
(* Quotes pass the program's checks *)

\* Rounded for the pool, neither curve lowers the product of the reserves.
LEMMA ProductKept ==
  ASSUME NEW x \in Nat, NEW y \in Nat, NEW swapped \in Nat, NEW drawn \in Nat, drawn < y,
         drawn * x <= swapped * (y - drawn)
  PROVE  (x + swapped) * (y - drawn) >= x * y
<1> DEFINE left == y - drawn
<1>1. left \in Nat /\ y = left + drawn
  OBVIOUS
<1> HIDE DEF left
<1>2. (x + swapped) * left = x * left + swapped * left /\ x * y = x * left + drawn * x
  BY <1>1
<1>3. x * left \in Nat /\ swapped * left \in Nat /\ drawn * x \in Nat
  BY <1>1
<1>4. drawn * x <= swapped * left
  BY DEF left
<1>5. (x + swapped) * left >= x * y
  BY <1>2, <1>3, <1>4
<1> QED BY <1>5 DEF left

LEMMA NothingOfNothing ==
  ASSUME NEW n \in Nat, NEW b \in Nat, b > 0
  PROVE  /\ FloorDiv(n * 0, b) = 0 /\ CeilDiv(n * 0, b) = 0
<1>1. FloorDiv(n * 0, b) \in 0..n /\ FloorDiv(0 * 0, b) \in 0..0 /\ CeilDiv(0 * 0, b) \in 0..0
  BY FractionOfWhole
<1>2. n * 0 = 0 /\ 0 * 0 = 0
  BY SMT
<1> QED BY <1>1, <1>2

\* Without a creator's rate no creator's fee is quoted.
LEMMA NoRateNoFee ==
  ASSUME NEW onInput \in BOOLEAN, NEW n \in Nat, NEW x \in Nat, NEW y \in Nat,
         x > 0, y > 0, NEW t \in Nat, t < Denominator, onInput => FeeCanBeSplit(t, 0)
  PROVE  /\ QuoteInput(onInput, n, x, y, t, 0).creatorFee = 0
         /\ DrawnFor(onInput, n, 0) < y => QuoteOutput(onInput, n, x, y, t, 0).creatorFee = 0
<1>1. Denominator \in Nat /\ Denominator > 0 /\ t + 0 = t
  BY DenominatorAssumption
<1>2. CASE onInput
  <2>1. t > 0
    BY <1>1, <1>2 DEF FeeCanBeSplit
  <2>2. ASSUME NEW fee \in Nat
        PROVE  SplitCreatorFee(fee, t, 0) = 0
    BY <1>1, <2>1, NothingOfNothing DEF SplitCreatorFee
  <2>3. TradingFee(n, t) \in Nat
    BY <1>1, TradingFeeBounds
  <2>4. QuoteInput(onInput, n, x, y, t, 0).creatorFee = 0
    BY <1>1, <1>2, <2>2, <2>3 DEF QuoteInput, QuoteInputFeeIn, Quote
  <2>5. ASSUME DrawnFor(onInput, n, 0) < y
        PROVE  QuoteOutput(onInput, n, x, y, t, 0).creatorFee = 0
    <3> DEFINE swapped == CurveInput(n, x, y)
               input == PreFeeAmount(swapped, t)
    <3>1. swapped \in Nat
      BY <1>2, <2>5, CurveInputType DEF DrawnFor
    <3> HIDE DEF swapped
    <3>2. input \in Nat /\ input >= swapped
      BY <3>1, PreFeeBounds
    <3> HIDE DEF input
    <3>3. SplitCreatorFee(input - swapped, t, 0) = 0
      BY <2>2, <3>1, <3>2
    <3> QED BY <1>1, <1>2, <3>3 DEF QuoteOutput, QuoteOutputFeeIn, Quote, swapped, input
  <2> QED BY <2>4, <2>5
<1>3. CASE ~onInput
  <2>1. TradingFee(n, t) \in 0..n
    BY <1>1, TradingFeeBounds
  <2>2. CurveOutput(n - TradingFee(n, t), x, y) \in Nat
    BY <2>1, CurveOutputBounds
  <2>3. QuoteInput(onInput, n, x, y, t, 0).creatorFee = 0
    BY <1>1, <1>3, <2>2, NothingOfNothing
       DEF QuoteInput, QuoteInputFeeOut, Quote, TradingFee
  <2>4. QuoteOutput(onInput, n, x, y, t, 0).creatorFee = 0
    BY <1>3 DEF QuoteOutput, QuoteOutputFeeOut, Quote, PreFeeAmount
  <2> QED BY <2>3, <2>4
<1> QED BY <1>2, <1>3

\* Both quotes pass the checks at the end of a swap.
LEMMA QuotesAreAccepted ==
  ASSUME IInv, created, NEW s \in Sides, Priced(s), NEW n \in Nat
  PROVE  /\ ExchangeAccepted(s, InputQuote(s, n))
         /\ DrawnFor(IsCreatorFeeOnInput(s), n, CreatorRate) < Net(Other(s))
              => ExchangeAccepted(s, OutputQuote(s, n))
<1> DEFINE x == Net(s)
           y == Net(Other(s))
           t == config.trade
           c == CreatorRate
           onInput == IsCreatorFeeOnInput(s)
<1>1. x \in Nat /\ x > 0 /\ y \in Nat /\ y > 0 /\ onInput \in BOOLEAN
  BY OpenPool, OtherSide DEF IsCreatorFeeOnInput
<1>2. t \in Nat /\ c \in Nat /\ t + c < Denominator /\ t < Denominator
  BY RatesBelowDenominator, DenominatorAssumption
<1>3. /\ onInput => FeeCanBeSplit(t, c)
      /\ ~enableCreatorFee => c = 0
  BY DEF Priced, CreatorRate
<1> HIDE DEF x, y, t, c, onInput
<1>4. ASSUME ~enableCreatorFee, NEW m \in Nat
      PROVE  /\ QuoteInput(onInput, m, x, y, t, c).creatorFee = 0
             /\ DrawnFor(onInput, m, c) < y => QuoteOutput(onInput, m, x, y, t, c).creatorFee = 0
  BY <1>1, <1>2, <1>3, <1>4, NoRateNoFee
<1>5. ASSUME NEW m \in Nat
      PROVE  LET q == QuoteInput(onInput, m, x, y, t, c)
             IN  (x + q.swapped) * (y - q.drawn) >= x * y
  <2> DEFINE q == QuoteInput(onInput, m, x, y, t, c)
             swapped == q.swapped
             drawn == q.drawn
  <2>1. swapped \in 0..m /\ drawn \in 0..(y - 1) /\ drawn = CurveOutput(swapped, x, y)
    BY <1>1, <1>2, QuoteInputForm
  <2> HIDE DEF swapped, drawn
  <2>2. drawn * x <= swapped * (y - drawn)
    BY <1>1, <2>1, CurveOutputValue
  <2>3. swapped \in Nat /\ drawn \in Nat /\ drawn < y
    BY <1>1, <2>1
  <2>4. (x + swapped) * (y - drawn) >= x * y
    BY <1>1, <2>2, <2>3, ProductKept
  <2> QED BY <2>4 DEF swapped, drawn
<1>6. ASSUME DrawnFor(onInput, n, c) < y
      PROVE  LET q == QuoteOutput(onInput, n, x, y, t, c)
             IN  (x + q.swapped) * (y - q.drawn) >= x * y
  <2> DEFINE drawn == DrawnFor(onInput, n, c)
             swapped == CurveInput(drawn, x, y)
  <2>1. /\ QuoteOutput(onInput, n, x, y, t, c).swapped = swapped
        /\ QuoteOutput(onInput, n, x, y, t, c).drawn = drawn
    BY <1>1 DEF QuoteOutput, QuoteOutputFeeIn, QuoteOutputFeeOut, Quote, DrawnFor
  <2>2. drawn \in Nat /\ drawn < y
    BY <1>1, <1>2, <1>6, PreFeeBounds, DenominatorAssumption DEF DrawnFor
  <2> HIDE DEF drawn
  <2>3. x * drawn \in Nat /\ y - drawn \in Nat /\ y - drawn > 0
    BY <1>1, <2>2
  <2>4. swapped \in Nat /\ x * drawn <= swapped * (y - drawn)
    BY <2>3, CeilDivBounds DEF CurveInput
  <2> HIDE DEF swapped
  <2>5. drawn * x = x * drawn
    BY <1>1, <2>2
  <2>6. (x + swapped) * (y - drawn) >= x * y
    BY <1>1, <2>2, <2>4, <2>5, ProductKept
  <2> QED BY <2>1, <2>6
<1>7. ExchangeAccepted(s, InputQuote(s, n))
  <2>1. Received(s, n) \in Nat
    BY ReceivedBounds
  <2> DEFINE q == QuoteInput(onInput, Received(s, n), x, y, t, c)
  <2>2. /\ (x + q.swapped) * (y - q.drawn) >= x * y
        /\ enableCreatorFee \/ q.creatorFee = 0
    BY <1>4, <1>5, <2>1
  <2> QED BY <2>2 DEF ExchangeAccepted, InputQuote, x, y, t, c, onInput
<1>8. ASSUME DrawnFor(onInput, n, c) < y
      PROVE  ExchangeAccepted(s, OutputQuote(s, n))
  <2> DEFINE q == QuoteOutput(onInput, n, x, y, t, c)
  <2>1. /\ (x + q.swapped) * (y - q.drawn) >= x * y
        /\ enableCreatorFee \/ q.creatorFee = 0
    BY <1>4, <1>6, <1>8
  <2> QED BY <2>1 DEF ExchangeAccepted, OutputQuote, x, y, t, c, onInput
<1> QED BY <1>7, <1>8 DEF y, c, onInput

----------------------------------------------------------------------------
(* Limits leave room for the price they were made of *)

LEMMA SlipLeavesRoom ==
  ASSUME NEW n \in Nat, NEW slip \in 0..SlippageUnit
  PROVE  /\ AmountUp(n, slip) >= n
         /\ AmountDown(n, slip) <= n
         /\ n * slip >= SlippageUnit => AmountDown(n, slip) <= n - 1
<1> DEFINE U == SlippageUnit
           up == CeilDiv(n * (U + slip), U)
           down == FloorDiv(n * (U - slip), U)
<1>1. U \in Nat /\ U > 0 /\ slip \in Nat /\ slip <= U
  BY ClientAssumption
<1> HIDE DEF U
<1>2. /\ n * (U + slip) = n * U + n * slip /\ n * (U - slip) = n * U - n * slip
      /\ n * U \in Nat /\ n * slip \in Nat /\ n * (U - slip) \in Nat
      /\ (n - 1) * U = n * U - U
  BY <1>1
<1>3. /\ up \in Nat /\ n * (U + slip) <= up * U
      /\ down \in Nat /\ down * U <= n * (U - slip)
  <2>1. n * (U + slip) \in Nat /\ n * (U - slip) \in Nat
    BY <1>1, <1>2
  <2> QED BY <1>1, <2>1, CeilDivBounds, FloorDivBounds
<1> HIDE DEF up, down
<1>4. up * U \in Nat /\ down * U \in Nat
  BY <1>1, <1>3
<1>5. n * U <= up * U /\ down * U <= n * U
  BY <1>2, <1>3, <1>4
<1>6. up >= n /\ down <= n
  BY <1>1, <1>3, <1>5, CancelLeq
<1>7. ASSUME n * slip >= U
      PROVE  down <= n - 1
  <2>1. down * U <= (n - 1) * U
    BY <1>1, <1>2, <1>3, <1>4, <1>7
  <2> QED BY <1>1, <1>3, <2>1, CancelLeq
<1> QED BY <1>6, <1>7 DEF AmountUp, AmountDown, up, down, U

\* What LP tokens are priced at when they are bought is at most a unit more than
\* what they bring.
LEMMA RoundedUpByOne ==
  ASSUME NEW lp \in Nat, NEW S \in Nat, S > 0, NEW total \in Nat,
         LpToDeposit(lp, S, total) > 0
  PROVE  /\ LpToDeposit(lp, S, total) \in Nat
         /\ LpToWithdraw(lp, S, total) \in Nat /\ LpToWithdraw(lp, S, total) > 0
         /\ LpToDeposit(lp, S, total) <= LpToWithdraw(lp, S, total) + 1
<1> DEFINE n == lp * total
           up == CeilDiv(n, S)
           down == FloorDiv(n, S)
<1>1. n \in Nat
  OBVIOUS
<1> HIDE DEF n
<1>2. LpToDeposit(lp, S, total) = up /\ n >= S
  BY DEF LpToDeposit, n
<1>3. up \in Nat /\ down \in Nat /\ n < (down + 1) * S
  BY <1>1, CeilDivBounds, FloorDivBounds
<1> HIDE DEF up, down
<1>4. up <= down + 1
  <2>1. n <= (down + 1) * S /\ down + 1 \in Nat
    <3>1. (down + 1) * S \in Nat
      BY <1>3
    <3> QED BY <1>1, <1>3, <3>1
  <2> QED BY <1>1, <2>1, CeilDivLeast DEF up
<1>5. down # 0
  BY <1>1, <1>2, <1>3
<1> QED BY <1>2, <1>3, <1>4, <1>5 DEF LpToWithdraw, down, n

\* A flat fee computed of the epoch leaves enough to send any amount.
LEMMA FlatInverseFee ==
  ASSUME FlatFees, Epoch > 0, NEW s \in Sides, NEW amount \in Nat
  PROVE  TransferInverseFee(s, Epoch) >= TransferInverseFee(s, amount)
<1> DEFINE B == BasisPoints
           d == B - TransferRate[s]
           least == CeilDiv(Epoch * B, d)
<1>1. /\ B \in Nat /\ B > 0 /\ TransferRate[s] \in Nat /\ TransferRate[s] <= B
      /\ TransferMax[s] \in Nat /\ d \in Nat /\ Epoch \in Nat
  BY PoolAssumption, ClientAssumption
<1>2. CASE TransferRate[s] = BasisPoints
  BY <1>2, <1>1 DEF TransferInverseFee
<1>3. CASE TransferRate[s] # BasisPoints
  <2>1. d > 0 /\ Epoch * B \in Nat
    BY <1>1, <1>3
  <2>2. least \in Nat /\ Epoch * B <= least * d
    <3> HIDE DEF B, d
    <3> QED BY <1>1, <2>1, CeilDivBounds
  <2> HIDE DEF least
  <2>3. least # 0
    <3> SUFFICES ASSUME least = 0 PROVE FALSE
      OBVIOUS
    <3> HIDE DEF B, d
    <3>1. least * d = 0
      BY <1>1
    <3>2. 1 * B <= Epoch * B
      BY <1>1, TimesLeq
    <3> QED BY <1>1, <2>1, <2>2, <3>1, <3>2
  <2>4. \E sent \in Nat \ {0} : TransferInverseFee(s, Epoch) = TransferFee(s, sent)
    <3>1. Epoch + TransferMax[s] \in Nat \ {0} /\ least \in Nat \ {0}
      BY <1>1, <2>2, <2>3
    <3> QED BY <1>3, <3>1 DEF TransferInverseFee, least
  <2> QED BY <2>4, FlatFee
<1> QED BY <1>2, <1>3

----------------------------------------------------------------------------
(* Fresh orders pass *)

LEMMA FreshDepositPasses ==
  ASSUME IInv, FlatFees, Epoch > 0, LimitsOK, order # NoOrder, order.kind = "deposit",
         FreshPrice(order), Acceptable(order)
  PROVE  Accepted(order)
<1> DEFINE lp == order.amount
           amount(s) == LpToDeposit(lp, lpSupply, Net(s))
<1>1. /\ order \in Orders /\ created /\ lp \in Nat /\ lp > 0
      /\ "deposit" \notin disabled
      /\ \A s \in Sides : /\ order.quoted[s] = amount(s) /\ amount(s) > 0
                          /\ order.limit[s] <= Held(s)
                          /\ order.limit[s]
                               = AmountUp(order.quoted[s], order.slip) + TransferInverseFee(s, Epoch)
  BY DEF LimitsOK, FromQuote, Orders, FreshPrice, Acceptable
<1>2. NetsOK
  BY <1>1, OpenPool DEF NetsOK
<1>3. ASSUME NEW s \in Sides
      PROVE  \E sent \in SentFor(s, amount(s)) : sent <= order.limit[s] /\ sent <= Held(s)
  <2> DEFINE a == amount(s)
             sent == a + TransferInverseFee(s, a)
             limit == order.limit[s]
             up == AmountUp(a, order.slip)
  <2>1. a \in Nat \ {0}
    <3>1. lpSupply \in Nat /\ lpSupply > 0 /\ Net(s) \in Nat /\ lp \in Nat
          /\ LpToDeposit(lp, lpSupply, Net(s)) > 0
      BY <1>1, OpenPool
    <3> HIDE DEF lp
    <3>2. LpToDeposit(lp, lpSupply, Net(s)) \in Nat
      BY <3>1, RoundedUpByOne
    <3> QED BY <3>1, <3>2
  <2>2. order.slip \in 0..SlippageUnit /\ limit \in Int
    BY <1>1 DEF Orders
  <2> HIDE DEF a
  <2>3. up \in Nat /\ up >= a
    BY <2>1, <2>2, SlippedAmounts, SlipLeavesRoom
  <2>4. limit = up + TransferInverseFee(s, Epoch) /\ limit <= Held(s)
    BY <1>1 DEF a
  <2>5. /\ TransferInverseFee(s, a) \in Nat /\ TransferInverseFee(s, Epoch) \in Nat
        /\ TransferInverseFee(s, a) <= TransferInverseFee(s, Epoch)
    BY <1>3, <2>1, ClientAssumption, InverseFeeBounds, FlatInverseFee
  <2>6. Tokens[s] \in Nat /\ vault[s] \in Nat
    BY <1>1, OpenPool, PoolAssumption
  <2> HIDE DEF up, limit
  <2>7. sent \in Nat /\ sent <= limit /\ sent <= Held(s) /\ sent <= Tokens[s]
    BY <2>1, <2>2, <2>3, <2>4, <2>5, <2>6 DEF Held
  <2>8. sent \in SentFor(s, a)
    BY <2>1, <2>7, InverseFeeIsExact
  <2> HIDE DEF sent
  <2> QED BY <2>7, <2>8 DEF a, limit
<1> HIDE DEF amount, lp
<1>4. DepositAccepted(order.amount, order.limit)
  BY <1>1, <1>2, <1>3 DEF DepositAccepted, amount, lp
<1> QED BY <1>4 DEF Accepted

LEMMA FreshWithdrawalPasses ==
  ASSUME IInv, FlatFees, Epoch > 0, LimitsOK, order # NoOrder, order.kind = "withdraw",
         FreshPrice(order), Acceptable(order)
  PROVE  Accepted(order)
<1> DEFINE lp == order.amount
           quoted(s) == LpToDeposit(lp, lpSupply, Net(s))
           amount(s) == LpToWithdraw(lp, lpSupply, Net(s))
<1>1. /\ order \in Orders /\ created /\ lp \in Nat /\ lp > 0 /\ lp <= lpMinted
      /\ "withdraw" \notin disabled
      /\ \A s \in Sides : /\ order.quoted[s] = quoted(s) /\ quoted(s) > 0
                          /\ quoted(s) * order.slip >= SlippageUnit
                          /\ order.limit[s]
                               = AmountDown(order.quoted[s], order.slip) - TransferFee(s, Epoch)
  BY DEF LimitsOK, FromQuote, Orders, FreshPrice, Acceptable
<1>2. /\ NetsOK
      /\ lpSupply \in Nat /\ lpSupply > 0 /\ lp <= lpSupply
  BY <1>1, OpenPool DEF NetsOK
<1>3. ASSUME NEW s \in Sides
      PROVE  amount(s) > 0 /\ Received(s, amount(s)) >= order.limit[s]
  <2> DEFINE a == amount(s)
             n == quoted(s)
             down == AmountDown(n, order.slip)
             limit == order.limit[s]
  <2>1. /\ n \in Nat /\ a \in Nat /\ a > 0 /\ n <= a + 1
    <3>1. Net(s) \in Nat
      BY <1>1, OpenPool
    <3> QED BY <1>1, <1>2, <3>1, RoundedUpByOne
  <2>2. order.slip \in 0..SlippageUnit
    BY <1>1 DEF Orders
  <2>3. n * order.slip >= SlippageUnit /\ limit = down - TransferFee(s, Epoch)
    BY <1>1
  <2> HIDE DEF a, n, limit
  <2>4. down \in Nat /\ down <= n - 1
    BY <2>1, <2>2, <2>3, SlippedAmounts, SlipLeavesRoom
  <2> HIDE DEF down
  <2>5. /\ TransferFee(s, a) \in Nat /\ TransferFee(s, Epoch) \in Nat
        /\ TransferFee(s, a) <= TransferFee(s, Epoch)
    <3>1. Epoch \in Nat \ {0}
      BY ClientAssumption
    <3> QED BY <2>1, <3>1, TransferFeeBounds, FlatFee
  <2>6. a > 0 /\ Received(s, a) >= limit
    BY <2>1, <2>3, <2>4, <2>5 DEF Received
  <2> QED BY <2>6 DEF a, limit
<1> HIDE DEF amount, quoted, lp
<1>4. WithdrawAccepted(order.amount, order.limit)
  BY <1>1, <1>2, <1>3 DEF WithdrawAccepted, amount, lp
<1> QED BY <1>4 DEF Accepted

LEMMA FreshSwapInPasses ==
  ASSUME IInv, LimitsOK, order # NoOrder, order.kind = "swap_in",
         FreshPrice(order), Acceptable(order)
  PROVE  Accepted(order)
<1> DEFINE s == order.side
           out == Other(s)
           n == order.amount
           q == InputQuote(s, n)
           received == Received(out, q.output)
<1>1. /\ order \in Orders /\ s \in Sides /\ n \in Nat /\ order.slip \in 0..SlippageUnit
      /\ created /\ Priced(s) /\ SwapOpen /\ n <= Held(s)
      /\ order.quoted[out] = received /\ received > 0
      /\ order.limit[out] = AmountDown(order.quoted[out], order.slip)
  BY DEF LimitsOK, FromQuote, Orders, FreshPrice, Acceptable
<1>2. out \in Sides /\ IsCreatorFeeOnInput(s) \in BOOLEAN
  BY <1>1, OtherSide DEF IsCreatorFeeOnInput
<1> DEFINE x == Net(s)
           y == Net(out)
           m == Received(s, n)
           drawn == q.drawn
           output == q.output
<1>3. x \in Nat /\ x > 0 /\ y \in Nat /\ y > 0 /\ m \in Nat
  BY <1>1, <1>2, OpenPool, ReceivedBounds
<1>4. drawn \in 0..(y - 1) /\ output \in 0..drawn /\ drawn * x <= m * (y - drawn)
  BY <1>1, <1>2, <1>3, RatesBelowDenominator, QuoteInputValue DEF InputQuote
<1>5. ExchangeAccepted(s, q)
  BY <1>1, QuotesAreAccepted
<1>6. /\ received = Received(out, output) /\ received \in 0..output
  BY <1>2, <1>3, <1>4, ReceivedBounds
<1> HIDE DEF q, x, y, m, drawn, output, received
<1>7. m > 0
  <2> SUFFICES ASSUME m = 0 PROVE FALSE
    BY <1>3
  <2>1. m * (y - drawn) = 0 /\ drawn \in Nat
    BY <1>3, <1>4
  <2>2. drawn * x <= 0 * x /\ 0 \in Nat
    BY <1>3, <1>4, <2>1
  <2>3. drawn <= 0
    BY <1>3, <2>1, <2>2, CancelLeq
  <2> QED BY <1>1, <1>4, <1>6, <2>1, <2>3
<1>8. order.limit[out] <= received
  BY <1>1, <1>4, <1>6, SlipLeavesRoom
<1>9. SwapInAccepted(order.side, order.amount, order.limit[Other(order.side)])
  BY <1>1, <1>5, <1>6, <1>7, <1>8 DEF SwapInAccepted, q, m, output, received
<1> QED BY <1>9 DEF Accepted

LEMMA FreshSwapOutPasses ==
  ASSUME IInv, TokensExist, LimitsOK, order # NoOrder, order.kind = "swap_out",
         FreshPrice(order), Acceptable(order)
  PROVE  Accepted(order)
<1> DEFINE s == order.side
           out == Other(s)
           amountOut == order.amount
           output == amountOut + TransferInverseFee(out, amountOut)
           q == OutputQuote(s, output)
           input == q.input
           sent == input + TransferInverseFee(s, input)
           drawn == DrawnFor(IsCreatorFeeOnInput(s), output, CreatorRate)
           limit == order.limit[s]
<1>1. /\ order \in Orders /\ s \in Sides /\ amountOut \in Nat /\ amountOut > 0
      /\ order.slip \in 0..SlippageUnit /\ limit \in Int
      /\ created /\ Priced(s) /\ SwapOpen /\ limit <= Held(s)
      /\ drawn < Net(out) /\ order.quoted[s] = sent
      /\ limit = AmountUp(order.quoted[s], order.slip)
  BY DEF LimitsOK, FromQuote, Orders, FreshPrice, Acceptable
<1>2. out \in Sides /\ IsCreatorFeeOnInput(s) \in BOOLEAN
  BY <1>1, OtherSide DEF IsCreatorFeeOnInput
<1>3. /\ output \in Nat /\ output >= amountOut
  BY <1>1, <1>2, InverseFeeBounds
<1> HIDE DEF output
<1>4. /\ Net(s) \in Nat /\ Net(s) > 0 /\ Net(out) \in Nat
      /\ Net(out) <= vault[out] /\ vault[out] <= Tokens[out]
      /\ vault[s] \in Nat /\ vault[out] \in Nat /\ Tokens[s] \in Nat /\ Tokens[out] \in Nat
  BY <1>1, <1>2, OpenPool, PoolAssumption DEF TokensExist
<1>5. drawn \in Nat /\ drawn >= output
  BY <1>2, <1>3, RatesBelowDenominator, DenominatorAssumption, PreFeeBounds DEF DrawnFor
<1>6. output \in SentFor(out, amountOut)
  <2>1. output <= Tokens[out]
    BY <1>1, <1>3, <1>4, <1>5
  <2> QED BY <1>1, <1>2, <2>1, InverseFeeIsExact DEF output
<1>7. ExchangeAccepted(s, q)
  BY <1>1, <1>3, QuotesAreAccepted
<1>8. input \in Nat /\ input > 0
  <2> DEFINE swapped == CurveInput(drawn, Net(s), Net(out))
             left == Net(out) - drawn
  <2>1. left \in Nat /\ left > 0 /\ Net(s) * drawn \in Nat
    BY <1>1, <1>4, <1>5
  <2>2. Net(s) * drawn > 0
    <3>1. 1 * drawn <= Net(s) * drawn
      BY <1>4, <1>5, TimesLeq
    <3> QED BY <1>1, <1>3, <1>5, <2>1, <3>1
  <2>3. swapped \in Nat /\ Net(s) * drawn <= swapped * left
    BY <2>1, CeilDivBounds DEF CurveInput
  <2> HIDE DEF swapped, left
  <2>4. swapped # 0
    <3> SUFFICES ASSUME swapped = 0 PROVE FALSE
      OBVIOUS
    <3>1. swapped * left = 0
      BY <2>1
    <3> QED BY <2>1, <2>2, <2>3, <3>1
  <2>5. input = PreFeeAmount(swapped, InputRate(IsCreatorFeeOnInput(s), config.trade, CreatorRate))
    BY <1>2 DEF OutputQuote, QuoteOutput, QuoteOutputFeeIn, QuoteOutputFeeOut, Quote, DrawnFor,
           InputRate, swapped
  <2>6. /\ InputRate(IsCreatorFeeOnInput(s), config.trade, CreatorRate) \in Nat
        /\ InputRate(IsCreatorFeeOnInput(s), config.trade, CreatorRate) < Denominator
    BY <1>2, RatesBelowDenominator, DenominatorAssumption DEF InputRate
  <2>7. input \in Nat /\ input >= swapped
    BY <2>3, <2>5, <2>6, PreFeeBounds
  <2> QED BY <2>3, <2>4, <2>7
<1> HIDE DEF input, drawn, q, limit
<1>9. sent \in Nat /\ sent <= limit /\ sent <= Held(s) /\ sent <= Tokens[s]
  <2>1. sent \in Nat
    BY <1>1, <1>8, InverseFeeBounds
  <2>2. sent <= limit
    BY <1>1, <2>1, SlippedAmounts, SlipLeavesRoom
  <2> HIDE DEF sent
  <2> QED BY <1>1, <1>4, <2>1, <2>2 DEF Held
<1>10. sent \in SentFor(s, input)
  BY <1>1, <1>8, <1>9, InverseFeeIsExact
<1> HIDE DEF sent
<1>11. SwapOutAccepted(order.side, order.limit[order.side], order.amount, output)
  BY <1>1, <1>7, <1>8, <1>9, <1>10 DEF SwapOutAccepted, q, input, drawn, limit
<1> QED BY <1>6, <1>11 DEF Accepted

----------------------------------------------------------------------------
(* A fresh order was priced in the current state *)

LEMMA PriceStays ==
  ASSUME UNCHANGED vars, FreshPrice(order')
  PROVE  FreshPrice(order)'
<1>1. UNCHANGED <<config, created, creatorFeeOn, enableCreatorFee, vault, protocolFees,
                  fundFees, creatorFees, lpSupply, lpMinted>>
  BY DEF vars, admin, modes, fees
<1> QED BY <1>1 DEF FreshPrice, Priced, InputQuote, OutputQuote, Net, OwedFees,
                    IsCreatorFeeOnInput, CreatorRate

LEMMA ExecuteTakesHeld ==
  ASSUME IInv, LimitsOK, TokensExist, Execute
  PROVE  TokensExist'
<1>1. order \in Orders /\ FromQuote(order)
  BY DEF Execute, LimitsOK, FromQuote
<1>2. order.amount \in Nat /\ order.side \in Sides
  BY <1>1 DEF Orders
<1>3. CASE order.kind = "initialize"
  <2>1. order.limit = order.quoted /\ order.quoted \in [Sides -> Nat]
    BY <1>1, <1>3 DEF FromQuote, Orders
  <2>2. \E feeOn, enable, liquidity : CreatePool(order.limit, feeOn, enable, liquidity)
    BY <1>3 DEF Execute, Executes, Initialize
  <2> QED BY <2>1, <2>2, CreationTakesHeld
<1>4. CASE order.kind # "initialize"
  BY <1>2, <1>4, LiquidityTakesHeld, SwapsTakeHeld DEF Execute, Executes
<1> QED BY <1>3, <1>4

LEMMA CommandPrices ==
  ASSUME IInv, Command
  PROVE  PricedNow'
<1>0. /\ MaxLp \in Nat /\ Slippages \subseteq 0..SlippageUnit /\ lpMinted \in Nat
      /\ \A s \in Sides : Tokens[s] \in Nat /\ Tokens[Other(s)] \in Nat /\ Other(s) \in Sides
  BY PoolAssumption, ClientAssumption DEF Sides, Other, IInv, TypeOK
<1>1. UNCHANGED vars
  BY DEF Command
<1>2. ASSUME NEW mint0 \in Sides, NEW a0, NEW a1, InitializePool(mint0, a0, a1)
      PROVE  order'.kind = "initialize"
  BY <1>2 DEF InitializePool, Order
<1>3. ASSUME NEW slip, NEW lp \in 1..MaxLp, DepositCommand(lp, slip)
      PROVE  FreshPrice(order')
  <2>1. /\ order'.kind = "deposit" /\ order'.amount = lp /\ created
        /\ \A s \in Sides : order'.quoted[s] = LpToDeposit(lp, lpSupply, Net(s))
    BY <1>3 DEF DepositCommand, Order, Fetched
  <2> QED BY <1>0, <2>1 DEF FreshPrice
<1>4. ASSUME NEW slip, NEW lp \in 1..lpMinted, WithdrawCommand(lp, slip)
      PROVE  FreshPrice(order')
  <2>1. /\ order'.kind = "withdraw" /\ order'.amount = lp /\ created
        /\ \A s \in Sides : order'.quoted[s] = LpToDeposit(lp, lpSupply, Net(s))
    BY <1>4 DEF WithdrawCommand, Order, Fetched
  <2> QED BY <1>0, <2>1 DEF FreshPrice
<1>5. ASSUME NEW slip, NEW s \in Sides, NEW amount \in 1..Tokens[s], SwapBaseIn(s, amount, slip)
      PROVE  FreshPrice(order')
  <2>1. /\ order'.kind = "swap_in" /\ order'.amount = amount /\ order'.side = s
        /\ created /\ Priced(s)
        /\ order'.quoted = On(Other(s), Received(Other(s), InputQuote(s, amount).output))
    BY <1>5 DEF SwapBaseIn, Order, Fetched, InputQuote
  <2>2. order'.quoted[Other(s)] = Received(Other(s), InputQuote(s, amount).output)
    BY <1>0, <2>1 DEF On
  <2> QED BY <1>0, <2>1, <2>2 DEF FreshPrice
<1>6. ASSUME NEW slip, NEW s \in Sides, NEW amount \in 1..Tokens[Other(s)],
             SwapBaseOut(s, amount, slip)
      PROVE  FreshPrice(order')
  <2> DEFINE output == amount + TransferInverseFee(Other(s), amount)
             q == OutputQuote(s, output)
  <2>1. /\ order'.kind = "swap_out" /\ order'.amount = amount /\ order'.side = s
        /\ created /\ Priced(s)
        /\ DrawnFor(IsCreatorFeeOnInput(s), output, CreatorRate) < Net(Other(s))
        /\ order'.quoted = On(s, q.input + TransferInverseFee(s, q.input))
    BY <1>6 DEF SwapBaseOut, Order, Fetched, OutputQuote
  <2>2. order'.quoted[s] = q.input + TransferInverseFee(s, q.input)
    BY <2>1 DEF On
  <2> QED BY <1>0, <2>1, <2>2 DEF FreshPrice
<1>7. order'.kind = "initialize" \/ FreshPrice(order')
  BY <1>0, <1>2, <1>3, <1>4, <1>5, <1>6 DEF Command
<1> QED BY <1>1, <1>7, PriceStays DEF PricedNow

LEMMA MeanwhilePrices ==
  ASSUME LimitsOK, PricedNow, Meanwhile
  PROVE  PricedNow'
<1> SUFFICES ASSUME (order # NoOrder)', order'.fresh, order'.kind # "initialize"
             PROVE  FreshPrice(order)'
  BY DEF PricedNow
<1>1. order # NoOrder /\ order' = [order EXCEPT !.fresh = @ /\ UNCHANGED vars]
  BY DEF Meanwhile
<1>2. order \in Orders
  BY <1>1 DEF LimitsOK, FromQuote
<1>3. /\ order'.kind = order.kind /\ order'.side = order.side /\ order'.amount = order.amount
      /\ order'.quoted = order.quoted
      /\ order'.fresh = (order.fresh /\ UNCHANGED vars)
  BY <1>1, <1>2 DEF Orders
<1>4. UNCHANGED vars /\ FreshPrice(order)
  BY <1>1, <1>3 DEF PricedNow
<1>5. FreshPrice(order')
  BY <1>3, <1>4 DEF FreshPrice
<1> QED BY <1>4, <1>5, PriceStays

----------------------------------------------------------------------------
(* Theorems about fresh orders *)

OrdersIInv == ClientIInv /\ TokensExist /\ PricedNow

LEMMA OrdersInvariant == ClientSpec => []OrdersIInv
<1>1. ClientInit => OrdersIInv
  <2>1. ASSUME ClientInit
        PROVE  OrdersIInv
    <3>1. IInv /\ LimitsOK /\ PricedNow
      BY <2>1, InitIInv DEF ClientInit, LimitsOK, PricedNow
    <3>2. TokensExist
      BY <2>1, PoolAssumption DEF ClientInit, Init, TokensExist
    <3> QED BY <3>1, <3>2 DEF OrdersIInv, ClientIInv
  <2> QED BY <2>1
<1>2. ASSUME OrdersIInv, ClientIInv', [ClientNext]_<<vars, order>>
      PROVE  OrdersIInv'
  <2>1. IInv /\ LimitsOK /\ TokensExist /\ PricedNow
    BY <1>2 DEF OrdersIInv, ClientIInv
  <2>2. ASSUME UNCHANGED vars
        PROVE  TokensExist'
    BY <2>1, <2>2 DEF vars, TokensExist
  <2>3. CASE Command
    BY <1>2, <2>1, <2>2, <2>3, CommandPrices DEF Command, OrdersIInv
  <2>4. CASE Execute
    <3>1. order' = NoOrder
      BY <2>4 DEF Execute
    <3>2. TokensExist'
      BY <2>1, <2>4, ExecuteTakesHeld
    <3> QED BY <1>2, <3>1, <3>2 DEF OrdersIInv, PricedNow
  <2>5. CASE Lapse
    BY <1>2, <2>2, <2>5 DEF Lapse, OrdersIInv, PricedNow
  <2>6. CASE Meanwhile
    BY <1>2, <2>1, <2>6, NextTakesHeld, MeanwhilePrices DEF Meanwhile, OrdersIInv
  <2>7. CASE UNCHANGED <<vars, order>>
    <3>1. UNCHANGED vars /\ order' = order
      BY <2>7
    <3>2. PricedNow'
      BY <2>1, <3>1, PriceStays DEF PricedNow
    <3> QED BY <1>2, <2>2, <3>1, <3>2 DEF OrdersIInv
  <2> QED BY <1>2, <2>3, <2>4, <2>5, <2>6, <2>7 DEF ClientNext
<1>3. OrdersIInv /\ ClientIInv' /\ [ClientNext]_<<vars, order>> => OrdersIInv'
  BY <1>2
<1> QED BY <1>1, <1>3, ClientInvariant, PTL DEF ClientSpec

\* As long as nobody gets ahead of it, a swap that asks for what the pool and its
\* user can give passes every check of the instruction, whatever the mints
\* withhold: the client's inverse fee is the one the program computes.
THEOREM FreshSwapsAreAccepted ==
  ClientSpec =>
    [](order # NoOrder /\ order.fresh /\ order.kind \in {"swap_in", "swap_out"}
         /\ Acceptable(order) => Accepted(order))
<1>1. OrdersIInv =>
        (order # NoOrder /\ order.fresh /\ order.kind \in {"swap_in", "swap_out"}
           /\ Acceptable(order) => Accepted(order))
  BY FreshSwapInPasses, FreshSwapOutPasses DEF OrdersIInv, ClientIInv, PricedNow
<1> QED BY <1>1, OrdersInvariant, PTL

\* While the mints' fees are flat, deposits and withdrawals pass too: only the
\* command that creates a pool, which quotes nothing, is not covered.
THEOREM FreshOrdersAreAccepted ==
  ASSUME FlatFees, Epoch > 0
  PROVE  ClientSpec =>
           [](order # NoOrder /\ order.fresh /\ Acceptable(order) => Accepted(order))
<1>1. OrdersIInv => (order # NoOrder /\ order.fresh /\ Acceptable(order) => Accepted(order))
  <2> SUFFICES ASSUME OrdersIInv, order # NoOrder, order.fresh, Acceptable(order)
               PROVE  Accepted(order)
    OBVIOUS
  <2>1. IInv /\ LimitsOK /\ TokensExist /\ PricedNow
    BY DEF OrdersIInv, ClientIInv
  <2>2. order.kind \in {"deposit", "withdraw", "swap_in", "swap_out"}
    BY <2>1 DEF LimitsOK, FromQuote, Orders, Acceptable
  <2>3. FreshPrice(order)
    BY <2>1, <2>2 DEF PricedNow
  <2> QED BY <2>1, <2>2, <2>3, FreshDepositPasses, FreshWithdrawalPasses, FreshSwapInPasses,
             FreshSwapOutPasses
<1> QED BY <1>1, OrdersInvariant, PTL
----------------------------------------------------------------------------
(* What the program never refuses *)

\* The two checks at the end of a swap, constant_after >= constant_before and
\* the one that no creator's fee is charged where none is enabled, are there for
\* errors of the curve alone: no swap the pool can quote is refused by them, at
\* any configuration, in any state and for any amount.
THEOREM SwapChecksNeverRefuse ==
  Spec => [](created => \A s \in Sides : \A n \in Nat :
               Priced(s) =>
                 /\ ExchangeAccepted(s, InputQuote(s, n))
                 /\ DrawnFor(IsCreatorFeeOnInput(s), n, CreatorRate) < Net(Other(s))
                      => ExchangeAccepted(s, OutputQuote(s, n)))
<1>1. IInv => (created => \A s \in Sides : \A n \in Nat :
                 Priced(s) =>
                   /\ ExchangeAccepted(s, InputQuote(s, n))
                   /\ DrawnFor(IsCreatorFeeOnInput(s), n, CreatorRate) < Net(Other(s))
                        => ExchangeAccepted(s, OutputQuote(s, n)))
  BY QuotesAreAccepted
<1> QED BY <1>1, PoolInvariant, PTL

\* What `lp` of the LP tokens bring, with no limit on the result.
NoLimit == [s \in Sides |-> 0]

\* Nobody is locked in: unless the admin has disabled withdrawals, whoever holds
\* LP tokens that are worth a unit of each token can withdraw them, be they all
\* that were ever minted, and is paid from the liquidity and not from the fees.
THEOREM HoldersCanWithdraw ==
  Spec => [](created /\ "withdraw" \notin disabled =>
               \A lp \in 1..lpMinted :
                 (\A s \in Sides : lp * Net(s) >= lpSupply) =>
                   /\ WithdrawAccepted(lp, NoLimit)
                   /\ \A s \in Sides : LpToWithdraw(lp, lpSupply, Net(s)) < Net(s))
<1>1. ASSUME IInv, created, "withdraw" \notin disabled, NEW lp \in 1..lpMinted,
             \A s \in Sides : lp * Net(s) >= lpSupply
      PROVE  /\ WithdrawAccepted(lp, NoLimit)
             /\ \A s \in Sides : LpToWithdraw(lp, lpSupply, Net(s)) < Net(s)
  <2>1. /\ lp \in Nat /\ lp > 0 /\ lp <= lpMinted /\ lp < lpSupply
        /\ lpSupply \in Nat /\ lpSupply > 0
        /\ \A s \in Sides : Net(s) \in Nat /\ Net(s) > 0
    BY <1>1, OpenPool
  <2>2. ASSUME NEW s \in Sides
        PROVE  /\ LpToWithdraw(lp, lpSupply, Net(s)) \in 1..(Net(s) - 1)
               /\ Received(s, LpToWithdraw(lp, lpSupply, Net(s))) >= 0
    <3> DEFINE worth == lp * Net(s)
               paid == LpToWithdraw(lp, lpSupply, Net(s))
    <3>1. worth \in Nat /\ worth >= lpSupply
      BY <1>1, <2>1
    <3>2. paid \in 0..(Net(s) - 1)
      BY <2>1, WithdrawBounds
    <3>3. paid = FloorDiv(worth, lpSupply)
      BY DEF LpToWithdraw
    <3> HIDE DEF worth, paid
    <3>4. worth < (paid + 1) * lpSupply
      BY <2>1, <3>1, <3>3, FloorDivBounds
    <3>5. paid # 0
      <4> SUFFICES ASSUME paid = 0 PROVE FALSE
        OBVIOUS
      <4> QED BY <2>1, <3>1, <3>4
    <3>6. paid \in 1..(Net(s) - 1) /\ paid \in Nat
      BY <2>1, <3>2, <3>5
    <3>7. Received(s, paid) >= 0
      BY <3>6, ReceivedBounds
    <3> QED BY <3>6, <3>7 DEF paid
  <2>3. \A s \in Sides : /\ LpToWithdraw(lp, lpSupply, Net(s)) > 0
                         /\ LpToWithdraw(lp, lpSupply, Net(s)) < Net(s)
    BY <2>1, <2>2
  <2>4. \A s \in Sides : Received(s, LpToWithdraw(lp, lpSupply, Net(s))) >= NoLimit[s]
    BY <2>2 DEF NoLimit
  <2>5. NetsOK
    BY <2>1 DEF NetsOK
  <2> QED BY <1>1, <2>1, <2>3, <2>4, <2>5 DEF WithdrawAccepted
<1>2. IInv => (created /\ "withdraw" \notin disabled =>
                 \A lp \in 1..lpMinted :
                   (\A s \in Sides : lp * Net(s) >= lpSupply) =>
                     /\ WithdrawAccepted(lp, NoLimit)
                     /\ \A s \in Sides : LpToWithdraw(lp, lpSupply, Net(s)) < Net(s))
  BY <1>1
<1> QED BY <1>2, PoolInvariant, PTL
=============================================================================
