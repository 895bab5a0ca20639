--------------------------- MODULE SwapCurveProofs ---------------------------
(***************************************************************************)
(* What the curve's arithmetic promises, for every amount and every rate.  *)
(***************************************************************************)
EXTENDS SwapCurve, TLAPS

\* What rounding down a quotient bounds.
LEMMA FloorDivBounds ==
  ASSUME NEW a \in Nat, NEW b \in Nat, b > 0
  PROVE  /\ FloorDiv(a, b) \in Nat
         /\ FloorDiv(a, b) * b <= a
         /\ a < (FloorDiv(a, b) + 1) * b
BY DEF FloorDiv

\* What rounding up a quotient bounds.
LEMMA CeilDivBounds ==
  ASSUME NEW a \in Nat, NEW b \in Nat, b > 0
  PROVE  /\ CeilDiv(a, b) \in Nat
         /\ a <= CeilDiv(a, b) * b
         /\ CeilDiv(a, b) * b < a + b
<1>1. a + b - 1 \in Nat
  OBVIOUS
<1> DEFINE q == (a + b - 1) \div b
<1>2. q \in Nat /\ q * b <= a + b - 1 /\ a + b - 1 < (q + 1) * b
  BY <1>1, FloorDivBounds DEF FloorDiv
<1> HIDE DEF q
<1>3. (q + 1) * b = q * b + b /\ q * b \in Nat
  BY <1>2
<1>4. CeilDiv(a, b) = q
  BY DEF CeilDiv, q
<1> QED BY <1>2, <1>3, <1>4

\* An inequality survives a product with a natural number ...
LEMMA TimesLeq ==
  ASSUME NEW a \in Int, NEW b \in Int, NEW c \in Nat, a <= b
  PROVE  a * c <= b * c
OBVIOUS

\* ... and a positive factor can be cancelled from it, strict or not.
LEMMA CancelLeq ==
  ASSUME NEW a \in Int, NEW b \in Int, NEW c \in Nat, c > 0, a * c <= b * c
  PROVE  a <= b
OBVIOUS

LEMMA CancelLess ==
  ASSUME NEW a \in Int, NEW b \in Int, NEW c \in Nat, c > 0, a * c < b * c
  PROVE  a < b
<1> SUFFICES ASSUME b <= a PROVE FALSE
  OBVIOUS
<1>1. b * c <= a * c
  BY TimesLeq
<1> QED BY <1>1

\* A fraction of a whole is at most the whole, whichever way it is rounded.
LEMMA FractionOfWhole ==
  ASSUME NEW n \in Nat, NEW r \in Nat, NEW d \in Nat, d > 0, r <= d
  PROVE  FloorDiv(n * r, d) \in 0..n /\ CeilDiv(n * r, d) \in 0..n
<1>1. n * r \in Nat /\ n * d \in Nat /\ n * r <= n * d
  <2>1. r * n <= d * n
    BY TimesLeq
  <2> QED BY <2>1
<1>2. FloorDiv(n * r, d) \in Nat /\ FloorDiv(n * r, d) * d <= n * r
  BY <1>1, FloorDivBounds
<1>3. FloorDiv(n * r, d) <= n
  <2> DEFINE q == FloorDiv(n * r, d)
  <2> HIDE DEF q
  <2>1. q \in Nat /\ q * d <= n * d
    <3>1. q \in Nat /\ q * d \in Int
      BY <1>2 DEF q
    <3> QED BY <1>1, <1>2, <3>1 DEF q
  <2>2. q <= n
    BY <2>1, CancelLeq
  <2> QED BY <2>2 DEF q
<1>4. CeilDiv(n * r, d) \in Nat /\ CeilDiv(n * r, d) * d < n * r + d
  BY <1>1, CeilDivBounds
<1>5. CeilDiv(n * r, d) < n + 1
  <2> DEFINE q == CeilDiv(n * r, d)
  <2> HIDE DEF q
  <2>1. q \in Nat /\ q * d < (n + 1) * d
    <3>1. q \in Nat /\ q * d \in Int /\ q * d < n * r + d
      BY <1>4 DEF q
    <3>2. (n + 1) * d = n * d + d
      OBVIOUS
    <3> QED BY <1>1, <3>1, <3>2
  <2>2. q < n + 1
    BY <2>1, CancelLess
  <2> QED BY <2>2 DEF q
<1> QED BY <1>2, <1>3, <1>4, <1>5

----------------------------------------------------------------------------
(* Fees *)

\* The protocol's and the fund's parts are never more than the trade fee, when
\* the two rates add up to at most the denominator.
LEMMA PartsOfFee ==
  ASSUME NEW fee \in Nat, NEW p \in Nat, NEW f \in Nat, p + f <= Denominator
  PROVE  /\ PartOfFee(fee, p) \in Nat /\ PartOfFee(fee, f) \in Nat
         /\ PartOfFee(fee, p) + PartOfFee(fee, f) <= fee
<1> DEFINE a == FloorDiv(fee * p, Denominator)
           b == FloorDiv(fee * f, Denominator)
<1>0. Denominator \in Nat /\ Denominator > 0
  BY DenominatorAssumption
<1>1. fee * p \in Nat /\ fee * f \in Nat
  OBVIOUS
<1>2. a \in Nat /\ a * Denominator <= fee * p
  BY <1>0, <1>1, FloorDivBounds
<1>3. b \in Nat /\ b * Denominator <= fee * f
  BY <1>0, <1>1, FloorDivBounds
<1> HIDE DEF a, b
<1>4. (a + b) * Denominator <= fee * Denominator
  <2>1. fee * p + fee * f = (p + f) * fee
    OBVIOUS
  <2>2. (p + f) * fee <= Denominator * fee
    BY <1>0, TimesLeq
  <2>3. (a + b) * Denominator = a * Denominator + b * Denominator
    BY <1>0, <1>2, <1>3
  <2>4. a * Denominator \in Nat /\ b * Denominator \in Nat /\ Denominator * fee = fee * Denominator
    BY <1>0, <1>2, <1>3
  <2> QED BY <1>0, <1>1, <1>2, <1>3, <2>1, <2>2, <2>3, <2>4
<1>5. a + b <= fee
  BY <1>0, <1>2, <1>3, <1>4, CancelLeq
<1>6. PartOfFee(fee, p) = a /\ PartOfFee(fee, f) = b
  BY DEF PartOfFee, a, b
<1> QED BY <1>2, <1>3, <1>5, <1>6

\* A fee at a rate below the denominator leaves something of the amount, or all.
LEMMA TradingFeeBounds ==
  ASSUME NEW n \in Nat, NEW r \in Nat, r <= Denominator
  PROVE  TradingFee(n, r) \in 0..n
<1>1. Denominator \in Nat /\ Denominator > 0
  BY DenominatorAssumption
<1> QED BY <1>1, FractionOfWhole DEF TradingFee

\* The creator's part of a fee is at most the fee.
LEMMA SplitBounds ==
  ASSUME NEW fee \in Nat, NEW t \in Nat, NEW c \in Nat, FeeCanBeSplit(t, c)
  PROVE  SplitCreatorFee(fee, t, c) \in 0..fee
<1>1. t + c \in Nat /\ t + c > 0 /\ c <= t + c
  BY DEF FeeCanBeSplit
<1> QED BY <1>1, FractionOfWhole DEF SplitCreatorFee

\* An amount before the fee is at least the amount after it.
LEMMA PreFeeBounds ==
  ASSUME NEW n \in Nat, NEW r \in Nat, r < Denominator
  PROVE  PreFeeAmount(n, r) \in Nat /\ PreFeeAmount(n, r) >= n
<1>0. Denominator \in Nat /\ Denominator - r \in Nat /\ Denominator - r > 0
  BY DenominatorAssumption
<1>1. CASE r = 0
  BY <1>1 DEF PreFeeAmount
<1>2. CASE r > 0
  <2> DEFINE d == Denominator - r
             q == CeilDiv(n * Denominator, d)
  <2>1. n * Denominator \in Nat /\ d \in Nat /\ d > 0
    BY <1>0
  <2>2. q \in Nat /\ n * Denominator <= q * d
    <3> HIDE DEF d
    <3> QED BY <2>1, CeilDivBounds
  <2> HIDE DEF q
  <2>3. n * d <= n * Denominator
    <3>1. d * n <= Denominator * n
      BY <1>0, TimesLeq
    <3> QED BY <1>0, <3>1
  <2>4. n * d <= q * d
    <3>1. n * d \in Int /\ q * d \in Int
      BY <2>1, <2>2
    <3> HIDE DEF d
    <3> QED BY <2>1, <2>2, <2>3, <3>1
  <2>5. n <= q
    <3> HIDE DEF d
    <3> QED BY <2>1, <2>2, <2>4, CancelLeq
  <2>6. PreFeeAmount(n, r) = q
    BY <1>2 DEF PreFeeAmount, q
  <2> QED BY <2>2, <2>5, <2>6
<1> QED BY <1>1, <1>2

----------------------------------------------------------------------------
(* The curve *)

\* The curve never gives the whole reserve.
LEMMA CurveOutputBounds ==
  ASSUME NEW n \in Nat, NEW x \in Nat, NEW y \in Nat, x > 0, y > 0
  PROVE  CurveOutput(n, x, y) \in 0..(y - 1)
<1> DEFINE q == FloorDiv(n * y, x + n)
<1>1. n * y \in Nat /\ x + n \in Nat /\ x + n > 0
  OBVIOUS
<1>2. q \in Nat /\ q * (x + n) <= n * y
  BY <1>1, FloorDivBounds
<1> HIDE DEF q
<1>3. n * y < y * (x + n)
  <2>1. y * (x + n) = y * x + n * y
    OBVIOUS
  <2>2. y * x > 0
    OBVIOUS
  <2>3. y * x \in Int
    OBVIOUS
  <2> QED BY <1>1, <2>1, <2>2, <2>3
<1>4. q * (x + n) < y * (x + n)
  <2>1. q * (x + n) \in Int /\ y * (x + n) \in Int
    BY <1>2
  <2> QED BY <1>1, <1>2, <1>3, <2>1
<1>5. q < y
  <2> DEFINE d == x + n
  <2>1. d \in Nat /\ d > 0 /\ q * d < y * d
    BY <1>1, <1>4
  <2> HIDE DEF d
  <2> QED BY <2>1, <1>2, CancelLess
<1>6. CurveOutput(n, x, y) = q
  BY DEF CurveOutput, q
<1> QED BY <1>2, <1>5, <1>6

\* What the curve asks for an output it can give is a natural number.
LEMMA CurveInputType ==
  ASSUME NEW n \in Nat, NEW x \in Nat, NEW y \in Nat, n < y
  PROVE  CurveInput(n, x, y) \in Nat
<1>1. x * n \in Nat /\ y - n \in Nat /\ y - n > 0
  OBVIOUS
<1> QED BY <1>1, CeilDivBounds DEF CurveInput

\* A quote that accounts for every token: what the trader pays goes to the
\* reserve or to a fee, what the reserve gives goes to the trader or to a fee.
Accounted(q, onInput, y) ==
  /\ q.input \in Nat /\ q.swapped \in Nat /\ q.tradeFee \in Nat /\ q.creatorFee \in Nat
  /\ q.drawn \in 0..(y - 1) /\ q.output \in Nat
  /\ IF onInput
     THEN q.input = q.swapped + q.tradeFee + q.creatorFee /\ q.drawn = q.output
     ELSE q.input = q.swapped + q.tradeFee /\ q.drawn = q.output + q.creatorFee

LEMMA QuoteAccounted ==
  ASSUME NEW i \in Nat, NEW s \in 0..i, NEW y \in Nat, NEW d \in 0..(y - 1), NEW o \in 0..d,
         NEW c \in Nat, NEW onInput \in BOOLEAN,
         IF onInput THEN d = o /\ c <= i - s ELSE c = d - o
  PROVE  Accounted(Quote(i, s, d, o, c), onInput, y)
<1> DEFINE q == Quote(i, s, d, o, c)
<1>1. /\ q.input = i /\ q.swapped = s /\ q.drawn = d /\ q.output = o /\ q.creatorFee = c
      /\ q.tradeFee = i - s - (c - (d - o))
  BY DEF Quote
<1> HIDE DEF q
<1>2. Accounted(q, onInput, y)
  BY <1>1 DEF Accounted
<1> QED BY <1>2 DEF q

\* Both quotes of the calculator account for every token.
LEMMA QuoteInputAccounted ==
  ASSUME NEW onInput \in BOOLEAN, NEW n \in Nat, NEW x \in Nat, NEW y \in Nat, x > 0, y > 0,
         NEW t \in Nat, NEW c \in Nat, t + c < Denominator,
         onInput => FeeCanBeSplit(t, c)
  PROVE  Accounted(QuoteInput(onInput, n, x, y, t, c), onInput, y)
<1>1. CASE onInput
  <2> DEFINE fee == TradingFee(n, t + c)
             out == CurveOutput(n - fee, x, y)
             split == SplitCreatorFee(fee, t, c)
  <2>1. fee \in 0..n
    BY DenominatorAssumption, TradingFeeBounds
  <2>2. split \in 0..fee
    BY <1>1, <2>1, SplitBounds
  <2> HIDE DEF fee
  <2>3. out \in 0..(y - 1)
    BY <2>1, CurveOutputBounds
  <2> HIDE DEF out, split
  <2>4. QuoteInput(onInput, n, x, y, t, c) = Quote(n, n - fee, out, out, split)
    BY <1>1 DEF QuoteInput, QuoteInputFeeIn, fee, out, split
  <2>5. n - fee \in 0..n /\ out \in 0..out /\ split \in Nat /\ split <= n - (n - fee)
    BY <2>1, <2>2, <2>3
  <2>6. Accounted(Quote(n, n - fee, out, out, split), onInput, y)
    BY <1>1, <2>3, <2>5, QuoteAccounted
  <2> QED BY <2>4, <2>6
<1>2. CASE ~onInput
  <2> DEFINE charge == TradingFee(n, t)
             out == CurveOutput(n - charge, x, y)
             fee == TradingFee(out, c)
  <2>1. charge \in 0..n
    BY DenominatorAssumption, TradingFeeBounds
  <2> HIDE DEF charge
  <2>2. out \in 0..(y - 1)
    BY <2>1, CurveOutputBounds
  <2> HIDE DEF out
  <2>3. fee \in 0..out
    BY <2>2, DenominatorAssumption, TradingFeeBounds
  <2> HIDE DEF fee
  <2>4. QuoteInput(onInput, n, x, y, t, c) = Quote(n, n - charge, out, out - fee, fee)
    BY <1>2 DEF QuoteInput, QuoteInputFeeOut, charge, out, fee
  <2> QED BY <1>2, <2>1, <2>2, <2>3, <2>4, QuoteAccounted
<1> QED BY <1>1, <1>2

LEMMA QuoteOutputAccounted ==
  ASSUME NEW onInput \in BOOLEAN, NEW n \in Nat, NEW x \in Nat, NEW y \in Nat,
         NEW t \in Nat, NEW c \in Nat, t + c < Denominator,
         onInput => FeeCanBeSplit(t, c), DrawnFor(onInput, n, c) < y
  PROVE  Accounted(QuoteOutput(onInput, n, x, y, t, c), onInput, y)
<1>1. CASE onInput
  <2> DEFINE swapped == CurveInput(n, x, y)
             input == PreFeeAmount(swapped, t + c)
             split == SplitCreatorFee(input - swapped, t, c)
  <2>0. n < y
    BY <1>1 DEF DrawnFor
  <2>1. swapped \in Nat
    BY <2>0, CurveInputType
  <2> HIDE DEF swapped
  <2>2. input \in Nat /\ input >= swapped
    BY <2>1, PreFeeBounds
  <2> HIDE DEF input
  <2>3. split \in 0..(input - swapped)
    BY <1>1, <2>1, <2>2, SplitBounds
  <2> HIDE DEF split
  <2>4. QuoteOutput(onInput, n, x, y, t, c) = Quote(input, swapped, n, n, split)
    BY <1>1 DEF QuoteOutput, QuoteOutputFeeIn, swapped, input, split
  <2>5. swapped \in 0..input /\ n \in 0..(y - 1) /\ n \in 0..n /\ split \in Nat
        /\ split <= input - swapped
    BY <2>0, <2>1, <2>2, <2>3
  <2>6. Accounted(Quote(input, swapped, n, n, split), onInput, y)
    BY <1>1, <2>2, <2>5, QuoteAccounted
  <2> QED BY <2>4, <2>6
<1>2. CASE ~onInput
  <2> DEFINE drawn == PreFeeAmount(n, c)
             swapped == CurveInput(drawn, x, y)
             input == PreFeeAmount(swapped, t)
  <2>1. drawn \in Nat /\ drawn >= n /\ drawn < y
    BY <1>2, DenominatorAssumption, PreFeeBounds DEF DrawnFor
  <2> HIDE DEF drawn
  <2>2. swapped \in Nat
    BY <2>1, CurveInputType
  <2> HIDE DEF swapped
  <2>3. input \in Nat /\ input >= swapped
    BY <2>2, DenominatorAssumption, PreFeeBounds
  <2> HIDE DEF input
  <2>4. QuoteOutput(onInput, n, x, y, t, c) = Quote(input, swapped, drawn, n, drawn - n)
    BY <1>2 DEF QuoteOutput, QuoteOutputFeeOut, drawn, swapped, input
  <2> QED BY <1>2, <2>1, <2>2, <2>3, <2>4, QuoteAccounted
<1> QED BY <1>1, <1>2

----------------------------------------------------------------------------
(* The two quotes against each other *)

\* What is left of an amount that is at least the amount before the fee.
LEMMA FeeLeavesEnough ==
  ASSUME NEW n \in Nat, NEW r \in Nat, r < Denominator,
         NEW a \in Nat, a >= PreFeeAmount(n, r)
  PROVE  a - TradingFee(a, r) >= n
<1> DEFINE d == Denominator
           p == PreFeeAmount(n, r)
           f == TradingFee(a, r)
<1>1. d \in Nat /\ d > 0 /\ r < d
  BY DenominatorAssumption
<1>2. p \in Nat /\ p <= a
  BY PreFeeBounds
<1>3. n * d <= p * (d - r)
  <2>1. CASE r = 0
    BY <1>1, <2>1 DEF PreFeeAmount
  <2>2. CASE r > 0
    <3>1. n * d \in Nat /\ d - r \in Nat /\ d - r > 0
      BY <1>1
    <3>2. n * d <= CeilDiv(n * d, d - r) * (d - r)
      BY <3>1, CeilDivBounds
    <3> QED BY <2>2, <3>2 DEF PreFeeAmount
  <2> QED BY <2>1, <2>2
<1>4. f \in 0..a /\ f * d < a * r + d
  <2>1. a * r \in Nat
    OBVIOUS
  <2>2. CeilDiv(a * r, d) * d < a * r + d
    BY <1>1, <2>1, CeilDivBounds
  <2>3. f \in 0..a
    BY <1>1, TradingFeeBounds
  <2> QED BY <2>2, <2>3 DEF TradingFee
<1> HIDE DEF d, p, f
<1>5. n * d <= a * (d - r)
  <2>1. d - r \in Nat
    BY <1>1
  <2>2. p * (d - r) <= a * (d - r)
    BY <1>2, <2>1, TimesLeq
  <2> QED BY <1>1, <1>2, <1>3, <2>1, <2>2
<1>6. (n - 1) * d < (a - f) * d
  <2>1. (a - f) * d = a * d - f * d /\ a * (d - r) = a * d - a * r /\ (n - 1) * d = n * d - d
    BY <1>1, <1>4
  <2>2. /\ a * d \in Int /\ f * d \in Int /\ a * r \in Int /\ n * d \in Int
    BY <1>1, <1>4
  <2> QED BY <1>1, <1>4, <1>5, <2>1, <2>2
<1>7. n - 1 < a - f
  BY <1>1, <1>4, <1>6, CancelLess
<1>8. f \in Int /\ n <= a - f
  BY <1>4, <1>7
<1> QED BY <1>8 DEF f

\* Whoever pays what the curve asks for an output gets it.
LEMMA CurveInputPays ==
  ASSUME NEW n \in Nat, NEW x \in Nat, NEW y \in Nat, x > 0, n < y,
         NEW m \in Nat, m >= CurveInput(n, x, y)
  PROVE  CurveOutput(m, x, y) \in Nat /\ CurveOutput(m, x, y) >= n
<1> DEFINE asked == CurveInput(n, x, y)
           q == CurveOutput(m, x, y)
           w == x + m
<1>1. asked \in Nat /\ x * n <= asked * (y - n)
  <2>1. x * n \in Nat /\ y - n \in Nat /\ y - n > 0
    OBVIOUS
  <2> QED BY <2>1, CeilDivBounds DEF CurveInput
<1>2. q \in Nat /\ m * y < (q + 1) * w /\ w \in Nat /\ w > 0
  <2>1. m * y \in Nat /\ x + m \in Nat /\ x + m > 0
    OBVIOUS
  <2> QED BY <2>1, FloorDivBounds DEF CurveOutput
<1> HIDE DEF asked
<1>3. x * n <= m * (y - n)
  <2>1. y - n \in Nat /\ asked <= m
    BY DEF asked
  <2>2. asked * (y - n) <= m * (y - n)
    BY <1>1, <2>1, TimesLeq
  <2> QED BY <1>1, <2>1, <2>2
<1>4. n * w <= m * y
  <2>1. m * (y - n) = m * y - m * n /\ n * w = x * n + m * n
    OBVIOUS
  <2>2. m * y \in Int /\ m * n \in Int /\ x * n \in Int
    OBVIOUS
  <2> QED BY <1>3, <2>1, <2>2
<1> HIDE DEF q, w
<1>5. n * w < (q + 1) * w
  <2>1. n * w \in Int /\ m * y \in Int /\ (q + 1) * w \in Int
    BY <1>2
  <2> QED BY <1>2, <1>4, <2>1
<1>6. n < q + 1
  BY <1>2, <1>5, CancelLess
<1> QED BY <1>2, <1>6 DEF q

\* swap_base_input, given what swap_base_output asks, gives at least as much.
LEMMA QuoteOutputSuffices ==
  ASSUME NEW onInput \in BOOLEAN, NEW n \in Nat, NEW x \in Nat, NEW y \in Nat, x > 0,
         NEW t \in Nat, NEW c \in Nat, t + c < Denominator, DrawnFor(onInput, n, c) < y
  PROVE  QuoteInput(onInput, QuoteOutput(onInput, n, x, y, t, c).input, x, y, t, c).output >= n
<1>0. t + c \in Nat /\ t < Denominator /\ c < Denominator
  BY DenominatorAssumption
<1>1. CASE onInput
  <2> DEFINE swapped == CurveInput(n, x, y)
             input == PreFeeAmount(swapped, t + c)
             net == input - TradingFee(input, t + c)
  <2>1. n < y /\ swapped \in Nat
    BY <1>1, CurveInputType DEF DrawnFor
  <2> HIDE DEF swapped
  <2>2. input \in Nat
    BY <1>0, <2>1, PreFeeBounds
  <2>3. net >= swapped
    BY <1>0, <2>1, <2>2, FeeLeavesEnough
  <2>4. TradingFee(input, t + c) \in 0..input
    BY <1>0, <2>2, DenominatorAssumption, TradingFeeBounds
  <2>5. net \in Nat
    <3> HIDE DEF input
    <3> QED BY <2>2, <2>4
  <2>6. CurveOutput(net, x, y) >= n
    <3> HIDE DEF net
    <3> QED BY <2>1, <2>3, <2>5, CurveInputPays DEF swapped
  <2>7. QuoteOutput(onInput, n, x, y, t, c).input = input
    BY <1>1 DEF QuoteOutput, QuoteOutputFeeIn, Quote, input, swapped
  <2>8. QuoteInput(onInput, input, x, y, t, c).output = CurveOutput(net, x, y)
    BY <1>1 DEF QuoteInput, QuoteInputFeeIn, Quote, net
  <2> HIDE DEF input, net
  <2> QED BY <2>6, <2>7, <2>8
<1>2. CASE ~onInput
  <2> DEFINE drawn == PreFeeAmount(n, c)
             swapped == CurveInput(drawn, x, y)
             input == PreFeeAmount(swapped, t)
             net == input - TradingFee(input, t)
             out == CurveOutput(net, x, y)
  <2>1. drawn \in Nat /\ drawn < y
    BY <1>0, <1>2, PreFeeBounds DEF DrawnFor
  <2> HIDE DEF drawn
  <2>2. swapped \in Nat
    BY <2>1, CurveInputType
  <2> HIDE DEF swapped
  <2>3. input \in Nat
    BY <1>0, <2>2, PreFeeBounds
  <2>4. net >= swapped
    BY <1>0, <2>2, <2>3, FeeLeavesEnough
  <2>5. TradingFee(input, t) \in 0..input
    <3> HIDE DEF input
    <3> QED BY <1>0, <2>3, DenominatorAssumption, TradingFeeBounds
  <2>6. net \in Nat
    <3> HIDE DEF input
    <3> QED BY <2>3, <2>5
  <2>7. out \in Nat /\ out >= drawn
    <3> HIDE DEF net
    <3> QED BY <2>1, <2>4, <2>6, CurveInputPays DEF swapped
  <2>8. QuoteOutput(onInput, n, x, y, t, c).input = input
    BY <1>2 DEF QuoteOutput, QuoteOutputFeeOut, Quote, input, swapped, drawn
  <2>9. QuoteInput(onInput, input, x, y, t, c).output = out - TradingFee(out, c)
    BY <1>2 DEF QuoteInput, QuoteInputFeeOut, Quote, out, net
  <2> HIDE DEF input, out
  <2>10. out - TradingFee(out, c) >= n
    BY <1>0, <2>7, FeeLeavesEnough DEF drawn
  <2> QED BY <2>8, <2>9, <2>10
<1> QED BY <1>1, <1>2

\* The curve gives at most the value of what it gets, at the price it leaves.
LEMMA CurveOutputValue ==
  ASSUME NEW n \in Nat, NEW x \in Nat, NEW y \in Nat, x > 0, y > 0
  PROVE  /\ CurveOutput(n, x, y) \in 0..(y - 1)
         /\ CurveOutput(n, x, y) * x <= n * (y - CurveOutput(n, x, y))
<1> DEFINE q == CurveOutput(n, x, y)
<1>1. q \in 0..(y - 1)
  BY CurveOutputBounds
<1>2. q * (x + n) <= n * y
  <2>1. n * y \in Nat /\ x + n \in Nat /\ x + n > 0
    OBVIOUS
  <2> QED BY <2>1, FloorDivBounds DEF CurveOutput
<1> HIDE DEF q
<1>3. q * (x + n) = q * x + n * q /\ n * (y - q) = n * y - n * q
  BY <1>1
<1>4. q * x \in Int /\ n * q \in Int /\ n * y \in Int
  BY <1>1
<1>5. q * x <= n * (y - q)
  BY <1>2, <1>3, <1>4
<1> QED BY <1>1, <1>5 DEF q

\* So does a quote: the fees only make it worse for the trader.
LEMMA QuoteInputValue ==
  ASSUME NEW onInput \in BOOLEAN, NEW n \in Nat, NEW x \in Nat, NEW y \in Nat, x > 0, y > 0,
         NEW t \in Nat, NEW c \in Nat, t + c < Denominator
  PROVE  LET q == QuoteInput(onInput, n, x, y, t, c)
         IN  /\ q.input = n /\ q.drawn \in 0..(y - 1) /\ q.output \in 0..q.drawn
             /\ q.drawn * x <= n * (y - q.drawn)
<1> DEFINE rate == IF onInput THEN t + c ELSE t
           net == n - TradingFee(n, rate)
           out == CurveOutput(net, x, y)
           fee == IF onInput THEN 0 ELSE TradingFee(out, c)
           q == QuoteInput(onInput, n, x, y, t, c)
<1>1. TradingFee(n, rate) \in 0..n
  BY DenominatorAssumption, TradingFeeBounds
<1>2. net \in 0..n
  BY <1>1
<1>3. q.input = n /\ q.drawn = out /\ q.output = out - fee
  <2>1. CASE onInput
    <3> HIDE DEF out
    <3>1. q.input = n /\ q.drawn = CurveOutput(n - TradingFee(n, t + c), x, y)
          /\ q.output = CurveOutput(n - TradingFee(n, t + c), x, y)
      BY <2>1 DEF QuoteInput, QuoteInputFeeIn, Quote
    <3>2. out = CurveOutput(n - TradingFee(n, t + c), x, y) /\ fee = 0
      BY <2>1 DEF out
    <3>3. out \in Nat
      <4> HIDE DEF net
      <4> QED BY <1>2, CurveOutputBounds DEF out
    <3> QED BY <3>1, <3>2, <3>3
  <2>2. CASE ~onInput
    BY <2>2 DEF QuoteInput, QuoteInputFeeOut, Quote
  <2> QED BY <2>1, <2>2
<1> HIDE DEF net
<1>4. out \in 0..(y - 1) /\ out * x <= net * (y - out)
  BY <1>2, CurveOutputValue
<1> HIDE DEF out
<1>5. fee \in 0..out
  BY <1>4, DenominatorAssumption, TradingFeeBounds
<1>6. net * (y - out) <= n * (y - out)
  <2>1. y - out \in Nat /\ net \in Int /\ net <= n
    BY <1>2, <1>4
  <2> QED BY <2>1, TimesLeq
<1>7. out * x <= n * (y - out)
  <2>1. /\ out * x \in Int /\ net * (y - out) \in Int /\ n * (y - out) \in Int
    BY <1>2, <1>4
  <2> QED BY <1>4, <1>6, <2>1
<1> HIDE DEF q, fee
<1>8. /\ q.input = n /\ q.drawn \in 0..(y - 1) /\ q.output \in 0..q.drawn
      /\ q.drawn * x <= n * (y - q.drawn)
  BY <1>3, <1>4, <1>5, <1>7
<1> QED BY <1>8 DEF q

\* The way back brings at most what the way there cost.
LEMMA RoundTripLoses ==
  ASSUME NEW there \in BOOLEAN, NEW back \in BOOLEAN, NEW n \in Nat,
         NEW x \in Nat, NEW y \in Nat, x > 0, y > 0,
         NEW t \in Nat, NEW c \in Nat, t + c < Denominator
  PROVE  LET q == QuoteInput(there, n, x, y, t, c)
         IN  QuoteInput(back, q.output, y - q.drawn, x + q.input, t, c).output <= n
<1> DEFINE q == QuoteInput(there, n, x, y, t, c)
           d == q.drawn
           o == q.output
           X == y - d
           Y == x + n
           r == QuoteInput(back, o, X, Y, t, c)
<1>1. q.input = n /\ d \in 0..(y - 1) /\ o \in 0..d /\ d * x <= n * (y - d)
  BY QuoteInputValue
<1> HIDE DEF q, d, o
<1>2. X \in Nat /\ X > 0 /\ Y \in Nat /\ Y > 0 /\ o \in Nat
  BY <1>1
<1> HIDE DEF X, Y
<1>3. r.drawn \in 0..(Y - 1) /\ r.output \in 0..r.drawn /\ r.drawn * X <= o * (Y - r.drawn)
  BY <1>2, QuoteInputValue
<1> DEFINE b == r.drawn
<1> HIDE DEF r, b
<1>4. b \in Nat /\ b < Y /\ b * X <= o * (Y - b)
  BY <1>2, <1>3 DEF b
<1>5. b <= n
  <2> SUFFICES ASSUME b > n PROVE FALSE
    BY <1>4
  <2>1. o * (Y - b) <= o * x
    <3>1. (Y - b) \in Nat /\ (Y - b) <= x
      BY <1>2, <1>4 DEF Y
    <3>2. (Y - b) * o <= x * o
      BY <1>2, <3>1, TimesLeq
    <3>3. (Y - b) * o = o * (Y - b) /\ x * o = o * x
      BY <1>2, <3>1
    <3> QED BY <3>2, <3>3
  <2>2. o * x <= d * x
    BY <1>1, <1>2, TimesLeq
  <2>3. d * x <= n * X
    BY <1>1 DEF X
  <2>4. b * X <= n * X
    <3>1. b * X \in Int /\ o * (Y - b) \in Int /\ o * x \in Int /\ d * x \in Int /\ n * X \in Int
      BY <1>1, <1>2, <1>4
    <3> QED BY <1>4, <2>1, <2>2, <2>3, <3>1
  <2>5. b <= n
    BY <1>2, <1>4, <2>4, CancelLeq
  <2> QED BY <1>4, <2>5
<1>6. r.output <= n
  BY <1>2, <1>3, <1>5 DEF b
<1>7. QuoteInput(back, q.output, y - q.drawn, x + q.input, t, c) = r
  BY <1>1 DEF r, X, Y, o, d
<1> QED BY <1>6, <1>7 DEF q

----------------------------------------------------------------------------
(* Cutting a trade in two *)

\* The quotient rounded up is the least number whose product covers it.
LEMMA CeilDivLeast ==
  ASSUME NEW a \in Nat, NEW b \in Nat, b > 0, NEW k \in Nat, a <= k * b
  PROVE  CeilDiv(a, b) <= k
<1> DEFINE q == CeilDiv(a, b)
<1>1. q \in Nat /\ q * b < a + b
  BY CeilDivBounds
<1> HIDE DEF q
<1>2. q * b < (k + 1) * b
  <2>1. (k + 1) * b = k * b + b /\ k * b \in Int /\ q * b \in Int
    BY <1>1
  <2> QED BY <1>1, <2>1
<1>3. q < k + 1
  BY <1>1, <1>2, CancelLess
<1> QED BY <1>1, <1>3 DEF q

\* The fees on two parts are at least the fee on the whole.
LEMMA FeesOnParts ==
  ASSUME NEW m \in Nat, NEW n \in Nat, NEW r \in Nat
  PROVE  /\ TradingFee(m, r) \in Nat /\ TradingFee(n, r) \in Nat /\ TradingFee(m + n, r) \in Nat
         /\ TradingFee(m + n, r) <= TradingFee(m, r) + TradingFee(n, r)
<1> DEFINE f == TradingFee(m, r)
           g == TradingFee(n, r)
<1>0. Denominator \in Nat /\ Denominator > 0
  BY DenominatorAssumption
<1>1. m * r \in Nat /\ n * r \in Nat /\ (m + n) * r = m * r + n * r /\ (m + n) * r \in Nat
  OBVIOUS
<1>2. f \in Nat /\ m * r <= f * Denominator
  BY <1>0, <1>1, CeilDivBounds DEF TradingFee
<1>3. g \in Nat /\ n * r <= g * Denominator
  BY <1>0, <1>1, CeilDivBounds DEF TradingFee
<1>4. TradingFee(m + n, r) \in Nat
  BY <1>0, <1>1, CeilDivBounds DEF TradingFee
<1> HIDE DEF f, g
<1>5. (m + n) * r <= (f + g) * Denominator
  <2>1. (f + g) * Denominator = f * Denominator + g * Denominator
    BY <1>0, <1>2, <1>3
  <2>2. f * Denominator \in Int /\ g * Denominator \in Int
    BY <1>0, <1>2, <1>3
  <2> QED BY <1>1, <1>2, <1>3, <2>1, <2>2
<1>6. TradingFee(m + n, r) <= f + g
  <2>1. f + g \in Nat
    BY <1>2, <1>3
  <2> QED BY <1>0, <1>1, <1>5, <2>1, CeilDivLeast DEF TradingFee
<1> QED BY <1>2, <1>3, <1>4, <1>6 DEF f, g

\* What a fee leaves of two parts is at most what it leaves of the whole, or of
\* more.
LEMMA PartsLeaveLess ==
  ASSUME NEW m \in Nat, NEW n \in Nat, NEW k \in Nat, m + n <= k,
         NEW r \in Nat, r <= Denominator
  PROVE  (m - TradingFee(m, r)) + (n - TradingFee(n, r)) <= k - TradingFee(k, r)
<1> DEFINE both == m + n
           rest == k - both
<1>1. both \in Nat /\ rest \in Nat /\ both + rest = k
  OBVIOUS
<1>2. /\ TradingFee(m, r) \in Nat /\ TradingFee(n, r) \in Nat /\ TradingFee(both, r) \in Nat
      /\ TradingFee(both, r) <= TradingFee(m, r) + TradingFee(n, r)
  BY FeesOnParts
<1> HIDE DEF both, rest
<1>3. /\ TradingFee(k, r) \in Nat /\ TradingFee(rest, r) \in Nat
      /\ TradingFee(k, r) <= TradingFee(both, r) + TradingFee(rest, r)
  BY <1>1, FeesOnParts
<1>4. TradingFee(rest, r) <= rest
  BY <1>1, TradingFeeBounds
<1>5. TradingFee(k, r) <= TradingFee(m, r) + TradingFee(n, r) + (k - (m + n))
  BY <1>1, <1>2, <1>3, <1>4 DEF both
<1> QED BY <1>2, <1>3, <1>5

\* The curve gives no more for two parts than for the whole, wherever between
\* them the input's reserve has grown by more than the first part.
LEMMA CurveOnParts ==
  ASSUME NEW m \in Nat, NEW n \in Nat, NEW k \in Nat, m + n <= k,
         NEW x \in Nat, NEW y \in Nat, x > 0, y > 0, NEW X \in Nat, X >= x + m
  PROVE  CurveOutput(m, x, y) + CurveOutput(n, X, y - CurveOutput(m, x, y))
           <= CurveOutput(k, x, y)
<1> DEFINE o == CurveOutput(m, x, y)
           Y == y - o
           p == CurveOutput(n, X, Y)
           w == x + m
           left == Y - p
           out == o + p
<1>1. o \in 0..(y - 1) /\ o * w <= m * y /\ w \in Nat /\ w > 0
  <2>1. m * y \in Nat /\ x + m \in Nat /\ x + m > 0
    OBVIOUS
  <2> QED BY <2>1, CurveOutputBounds, FloorDivBounds DEF CurveOutput
<1> HIDE DEF o
<1>2. Y \in Nat /\ Y > 0 /\ X > 0
  BY <1>1
<1>3. x * y <= Y * w
  <2>1. Y * w = x * y + m * y - o * w
    BY <1>1
  <2>2. x * y \in Int /\ m * y \in Int /\ o * w \in Int
    BY <1>1
  <2> QED BY <1>1, <2>1, <2>2
<1> HIDE DEF Y
<1>4. p \in 0..(Y - 1) /\ p * (X + n) <= n * Y
  <2>1. n * Y \in Nat /\ X + n \in Nat /\ X + n > 0
    BY <1>2
  <2> QED BY <1>2, <2>1, CurveOutputBounds, FloorDivBounds DEF CurveOutput
<1> HIDE DEF p, w
<1>5. p * (w + n) <= n * Y
  <2>1. w + n \in Int /\ X + n \in Int /\ w + n <= X + n /\ p \in Nat
    BY <1>1, <1>4 DEF w
  <2>2. (w + n) * p <= (X + n) * p
    BY <2>1, TimesLeq
  <2>3. (w + n) * p = p * (w + n) /\ (X + n) * p = p * (X + n)
    BY <2>1
  <2>4. p * (w + n) \in Int /\ p * (X + n) \in Int /\ n * Y \in Int
    BY <1>2, <2>1
  <2> QED BY <1>4, <2>2, <2>3, <2>4
<1>6. Y * w <= left * (w + n)
  <2>1. left * (w + n) = Y * w + n * Y - p * (w + n)
    BY <1>1, <1>2, <1>4
  <2>2. Y * w \in Int /\ n * Y \in Int /\ p * (w + n) \in Int
    BY <1>1, <1>2, <1>4
  <2> QED BY <1>5, <2>1, <2>2
<1>7. out \in 0..y /\ left = y - out
  BY <1>1, <1>2, <1>4 DEF Y
<1> HIDE DEF left, out
<1>8. out * (x + (m + n)) <= (m + n) * y
  <2> DEFINE t == m + n
  <2>1. w + n = x + t /\ t \in Nat
    BY DEF w
  <2> HIDE DEF t
  <2>2. left * (x + t) = y * x + t * y - out * (x + t)
    BY <1>7, <2>1
  <2>3. x * y <= left * (x + t)
    <3>1. x * y \in Int /\ Y * w \in Int /\ left * (x + t) \in Int
      BY <1>1, <1>2, <1>7, <2>1
    <3>2. left * (w + n) = left * (x + t)
      BY <2>1
    <3> QED BY <1>3, <1>6, <3>1, <3>2
  <2>4. y * x = x * y /\ x * y \in Int /\ t * y \in Int /\ out * (x + t) \in Int
    BY <1>7, <2>1
  <2>5. out * (x + t) <= t * y
    BY <2>2, <2>3, <2>4
  <2> QED BY <2>5 DEF t
<1>9. out * (x + k) <= k * y
  <2> DEFINE t == m + n
             rest == k - t
  <2>1. t \in Nat /\ rest \in Nat /\ k = t + rest /\ out * (x + t) <= t * y
    BY <1>8
  <2> HIDE DEF t, rest
  <2>2. out * (x + k) = out * (x + t) + out * rest /\ k * y = t * y + y * rest
    BY <1>7, <2>1
  <2>3. out * rest <= y * rest
    BY <1>7, <2>1, TimesLeq
  <2>4. /\ out * (x + t) \in Int /\ out * rest \in Int /\ t * y \in Int /\ y * rest \in Int
    BY <1>7, <2>1
  <2> QED BY <2>1, <2>2, <2>3, <2>4
<1> DEFINE q == CurveOutput(k, x, y)
           W == x + k
<1>10. q \in Nat /\ k * y < (q + 1) * W /\ W \in Nat /\ W > 0
  <2>1. k * y \in Nat /\ x + k \in Nat /\ x + k > 0
    OBVIOUS
  <2> QED BY <2>1, FloorDivBounds DEF CurveOutput
<1>11. out * W < (q + 1) * W
  <2> HIDE DEF q
  <2>1. out * W \in Int /\ k * y \in Int /\ (q + 1) * W \in Int
    BY <1>7, <1>10
  <2> QED BY <1>9, <1>10, <2>1
<1> HIDE DEF q, W
<1>12. out < q + 1
  BY <1>7, <1>10, <1>11, CancelLess
<1>13. out <= q
  BY <1>7, <1>10, <1>12
<1> QED BY <1>13 DEF out, q, p, Y, o

\* The two placements of the creator's fee as one: a rate on the input, and one
\* on the output.
InputRate(onInput, t, c) == IF onInput THEN t + c ELSE t
OutputRate(onInput, c) == IF onInput THEN 0 ELSE c

LEMMA QuoteInputForm ==
  ASSUME NEW onInput \in BOOLEAN, NEW n \in Nat, NEW x \in Nat, NEW y \in Nat, x > 0, y > 0,
         NEW t \in Nat, NEW c \in Nat, t + c < Denominator
  PROVE  LET q == QuoteInput(onInput, n, x, y, t, c)
         IN  /\ q.swapped = n - TradingFee(n, InputRate(onInput, t, c))
             /\ q.swapped \in 0..n
             /\ q.drawn = CurveOutput(q.swapped, x, y)
             /\ q.drawn \in 0..(y - 1)
             /\ q.output = q.drawn - TradingFee(q.drawn, OutputRate(onInput, c))
<1> DEFINE swapped == n - TradingFee(n, InputRate(onInput, t, c))
           drawn == CurveOutput(swapped, x, y)
           q == QuoteInput(onInput, n, x, y, t, c)
<1>0. InputRate(onInput, t, c) \in Nat /\ InputRate(onInput, t, c) <= Denominator
  BY DenominatorAssumption DEF InputRate
<1>1. swapped \in 0..n
  <2>1. TradingFee(n, InputRate(onInput, t, c)) \in 0..n
    BY <1>0, TradingFeeBounds
  <2> QED BY <2>1
<1>2. drawn \in 0..(y - 1)
  <2> HIDE DEF swapped
  <2> QED BY <1>1, CurveOutputBounds
<1>3. /\ q.swapped = swapped /\ q.drawn = drawn
      /\ q.output = drawn - TradingFee(drawn, OutputRate(onInput, c))
  <2>1. CASE onInput
    <3>1. q.swapped = swapped /\ q.drawn = drawn /\ q.output = drawn
      BY <2>1 DEF QuoteInput, QuoteInputFeeIn, Quote, InputRate
    <3>2. TradingFee(drawn, 0) = 0
      <4> HIDE DEF drawn
      <4>1. drawn * 0 = 0 /\ 0 <= 0 * Denominator /\ Denominator \in Nat /\ Denominator > 0
        BY <1>2, DenominatorAssumption
      <4>2. CeilDiv(0, Denominator) \in Nat /\ CeilDiv(0, Denominator) <= 0
        BY <4>1, CeilDivBounds, CeilDivLeast
      <4> QED BY <4>1, <4>2 DEF TradingFee
    <3>3. OutputRate(onInput, c) = 0
      BY <2>1 DEF OutputRate
    <3> HIDE DEF drawn, swapped, q
    <3> QED BY <1>2, <3>1, <3>2, <3>3
  <2>2. CASE ~onInput
    BY <2>2 DEF QuoteInput, QuoteInputFeeOut, Quote, InputRate, OutputRate
  <2> QED BY <2>1, <2>2
<1> HIDE DEF q, swapped, drawn
<1>4. /\ q.swapped = swapped /\ q.swapped \in 0..n
      /\ q.drawn = CurveOutput(q.swapped, x, y) /\ q.drawn \in 0..(y - 1)
      /\ q.output = q.drawn - TradingFee(q.drawn, OutputRate(onInput, c))
  BY <1>1, <1>2, <1>3 DEF drawn
<1> QED BY <1>4 DEF q, swapped

\* Two quotes, the second from the reserves the first leaves and any fees kept in
\* them, bring at most the quote of the whole.
LEMMA PartsBringLess ==
  ASSUME NEW onInput \in BOOLEAN, NEW m \in Nat, NEW n \in Nat,
         NEW x \in Nat, NEW y \in Nat, x > 0, y > 0, NEW kept \in Nat,
         NEW t \in Nat, NEW c \in Nat, t + c < Denominator
  PROVE  LET first == QuoteInput(onInput, m, x, y, t, c)
         IN  first.output + QuoteInput(onInput, n, x + first.swapped + kept,
                                       y - first.drawn, t, c).output
               <= QuoteInput(onInput, m + n, x, y, t, c).output
<1> DEFINE first == QuoteInput(onInput, m, x, y, t, c)
           X == x + first.swapped + kept
           Y == y - first.drawn
           second == QuoteInput(onInput, n, X, Y, t, c)
           whole == QuoteInput(onInput, m + n, x, y, t, c)
           rate == InputRate(onInput, t, c)
           late == OutputRate(onInput, c)
           a == first.swapped
           b == second.swapped
           k == whole.swapped
           o == first.drawn
           p == second.drawn
           q == whole.drawn
<1>0. /\ rate \in Nat /\ rate <= Denominator /\ late \in Nat /\ late <= Denominator
      /\ m + n \in Nat
  BY DenominatorAssumption DEF InputRate, OutputRate
<1>1. /\ a = m - TradingFee(m, rate) /\ a \in Nat /\ o = CurveOutput(a, x, y)
      /\ o \in 0..(y - 1) /\ first.output = o - TradingFee(o, late)
  BY QuoteInputForm
<1>2. X \in Nat /\ X > 0 /\ X >= x + a /\ Y \in Nat /\ Y > 0 /\ Y = y - o
  <2> HIDE DEF first
  <2> QED BY <1>1
<1>3. /\ k = (m + n) - TradingFee(m + n, rate) /\ k \in Nat /\ q = CurveOutput(k, x, y)
      /\ q \in 0..(y - 1) /\ whole.output = q - TradingFee(q, late)
  BY <1>0, QuoteInputForm
<1> HIDE DEF first, X, Y, whole
<1>4. /\ b = n - TradingFee(n, rate) /\ b \in Nat /\ p = CurveOutput(b, X, Y)
      /\ p \in 0..(Y - 1) /\ second.output = p - TradingFee(p, late)
  <2>1. X \in Nat /\ X > 0 /\ Y \in Nat /\ Y > 0
    BY <1>2
  <2> QED BY <2>1, QuoteInputForm
<1> HIDE DEF second, rate, late, a, b, k, o, p, q
<1>5. a + b <= k
  BY <1>0, <1>1, <1>3, <1>4, PartsLeaveLess
<1>6. o + p <= q
  BY <1>1, <1>2, <1>3, <1>4, <1>5, CurveOnParts
<1>7. (o - TradingFee(o, late)) + (p - TradingFee(p, late)) <= q - TradingFee(q, late)
  <2>1. o \in Nat /\ p \in Nat /\ q \in Nat
    BY <1>1, <1>3, <1>4
  <2> QED BY <1>0, <1>6, <2>1, PartsLeaveLess
<1>8. first.output + second.output <= whole.output
  BY <1>1, <1>3, <1>4, <1>7
<1> QED BY <1>8 DEF first, second, whole, X, Y
----------------------------------------------------------------------------
(* The exact-output swap asks for the least input *)

\* An amount that leaves n after the fee is at least the amount before the fee.
LEMMA PreFeeIsLeast ==
  ASSUME NEW n \in Nat, NEW r \in Nat, r < Denominator,
         NEW a \in Nat, a - TradingFee(a, r) >= n
  PROVE  a >= PreFeeAmount(n, r)
<1> DEFINE d == Denominator
           f == TradingFee(a, r)
<1>1. d \in Nat /\ d > 0 /\ d - r \in Nat /\ d - r > 0
  BY DenominatorAssumption
<1>2. f \in 0..a /\ a * r <= f * d
  <2>1. a * r \in Nat
    OBVIOUS
  <2>2. a * r <= CeilDiv(a * r, d) * d
    BY <1>1, <2>1, CeilDivBounds
  <2>3. f \in 0..a
    BY <1>1, TradingFeeBounds
  <2> QED BY <2>2, <2>3 DEF TradingFee
<1>3. n <= a - f /\ a - f \in Nat
  BY <1>2
<1> HIDE DEF d, f
<1>4. n * d <= a * (d - r)
  <2>1. n * d <= (a - f) * d
    BY <1>1, <1>3, TimesLeq
  <2>2. (a - f) * d = a * d - f * d /\ a * (d - r) = a * d - a * r
    BY <1>1, <1>2
  <2>3. a * d \in Int /\ f * d \in Int /\ a * r \in Int /\ n * d \in Int
    BY <1>1, <1>2
  <2> QED BY <1>2, <2>1, <2>2, <2>3
<1>5. CeilDiv(n * d, d - r) <= a
  <2>1. n * d \in Nat
    BY <1>1
  <2> QED BY <1>1, <1>4, <2>1, CeilDivLeast
<1>6. n <= a
  BY <1>2, <1>3
<1> QED BY <1>5, <1>6 DEF PreFeeAmount, d

\* An amount the curve gives n for is at least what it asks for n.
LEMMA CurveInputIsLeast ==
  ASSUME NEW n \in Nat, NEW x \in Nat, NEW y \in Nat, x > 0, n < y,
         NEW m \in Nat, CurveOutput(m, x, y) >= n
  PROVE  m >= CurveInput(n, x, y)
<1> DEFINE q == CurveOutput(m, x, y)
           w == x + m
<1>1. q \in Nat /\ q * w <= m * y /\ w \in Nat /\ n <= q
  <2>1. m * y \in Nat /\ x + m \in Nat /\ x + m > 0
    OBVIOUS
  <2> QED BY <2>1, FloorDivBounds DEF CurveOutput
<1> HIDE DEF q
<1>2. n * w <= m * y
  <2>1. n * w <= q * w
    BY <1>1, TimesLeq
  <2>2. n * w \in Int /\ q * w \in Int /\ m * y \in Int
    BY <1>1
  <2> QED BY <1>1, <2>1, <2>2
<1>3. x * n <= m * (y - n)
  <2>1. m * (y - n) = m * y - m * n /\ n * w = x * n + m * n
    OBVIOUS
  <2>2. m * y \in Int /\ m * n \in Int /\ x * n \in Int
    OBVIOUS
  <2> QED BY <1>2, <2>1, <2>2
<1>4. x * n \in Nat /\ y - n \in Nat /\ y - n > 0
  OBVIOUS
<1>5. CeilDiv(x * n, y - n) <= m
  BY <1>3, <1>4, CeilDivLeast
<1> QED BY <1>4, <1>5, CeilDivBounds DEF CurveInput

\* Both placements of the creator's fee again, for swap_base_output.
LEMMA QuoteOutputForm ==
  ASSUME NEW onInput \in BOOLEAN, NEW n \in Nat, NEW x, NEW y, NEW t, NEW c
  PROVE  /\ DrawnFor(onInput, n, c) = PreFeeAmount(n, OutputRate(onInput, c))
         /\ QuoteOutput(onInput, n, x, y, t, c).input
              = PreFeeAmount(CurveInput(PreFeeAmount(n, OutputRate(onInput, c)), x, y),
                             InputRate(onInput, t, c))
<1>1. CASE onInput
  <2>1. PreFeeAmount(n, 0) = n
    BY DEF PreFeeAmount
  <2> QED BY <1>1, <2>1 DEF DrawnFor, OutputRate, InputRate, QuoteOutput, QuoteOutputFeeIn, Quote
<1>2. CASE ~onInput
  BY <1>2 DEF DrawnFor, OutputRate, InputRate, QuoteOutput, QuoteOutputFeeOut, Quote
<1> QED BY <1>1, <1>2

\* What the swap asks is an amount.
LEMMA QuoteOutputInput ==
  ASSUME NEW onInput \in BOOLEAN, NEW n \in Nat, NEW x \in Nat, NEW y \in Nat,
         NEW t \in Nat, NEW c \in Nat, t + c < Denominator, DrawnFor(onInput, n, c) < y
  PROVE  QuoteOutput(onInput, n, x, y, t, c).input \in Nat
<1> DEFINE drawn == PreFeeAmount(n, OutputRate(onInput, c))
<1>1. /\ InputRate(onInput, t, c) \in Nat /\ InputRate(onInput, t, c) < Denominator
      /\ OutputRate(onInput, c) \in Nat /\ OutputRate(onInput, c) < Denominator
  BY DenominatorAssumption DEF InputRate, OutputRate
<1>2. drawn \in Nat /\ drawn < y
  BY <1>1, PreFeeBounds, QuoteOutputForm
<1> HIDE DEF drawn
<1>3. CurveInput(drawn, x, y) \in Nat
  BY <1>2, CurveInputType
<1> QED BY <1>1, <1>3, PreFeeBounds, QuoteOutputForm DEF drawn

\* Whatever brings an output is at least what swap_base_output asks for it.
LEMMA QuoteOutputIsLeast ==
  ASSUME NEW onInput \in BOOLEAN, NEW n \in Nat, NEW x \in Nat, NEW y \in Nat, x > 0,
         NEW t \in Nat, NEW c \in Nat, t + c < Denominator, DrawnFor(onInput, n, c) < y,
         NEW a \in Nat, QuoteInput(onInput, a, x, y, t, c).output >= n
  PROVE  a >= QuoteOutput(onInput, n, x, y, t, c).input
<1> DEFINE in == InputRate(onInput, t, c)
           out == OutputRate(onInput, c)
           q == QuoteInput(onInput, a, x, y, t, c)
           drawn == PreFeeAmount(n, out)
           swapped == CurveInput(drawn, x, y)
<1>1. in \in Nat /\ in < Denominator /\ out \in Nat /\ out < Denominator
  BY DenominatorAssumption DEF InputRate, OutputRate
<1>2. drawn \in Nat /\ drawn < y
  BY <1>1, PreFeeBounds, QuoteOutputForm
<1>3. y > 0 /\ swapped \in Nat
  <2> HIDE DEF drawn
  <2> QED BY <1>2, CurveInputType
<1>4. /\ q.swapped = a - TradingFee(a, in) /\ q.swapped \in Nat
      /\ q.drawn = CurveOutput(q.swapped, x, y) /\ q.drawn \in Nat
      /\ q.drawn - TradingFee(q.drawn, out) >= n
  BY <1>3, QuoteInputForm
<1> HIDE DEF in, out, q
<1>5. q.drawn >= drawn
  BY <1>1, <1>4, PreFeeIsLeast
<1>6. q.swapped >= swapped
  <2> HIDE DEF drawn
  <2> QED BY <1>2, <1>4, <1>5, CurveInputIsLeast
<1>7. a >= PreFeeAmount(swapped, in)
  <2> HIDE DEF swapped
  <2>1. a - TradingFee(a, in) >= swapped
    BY <1>4, <1>6
  <2> QED BY <1>1, <1>3, <2>1, PreFeeIsLeast
<1> QED BY <1>7, QuoteOutputForm DEF in, out
----------------------------------------------------------------------------
(* Liquidity in and out, against reserves R for a supply S *)

\* What comes back of a deposit is at most what it cost.
LEMMA DepositThenWithdraw ==
  ASSUME NEW lp \in Nat, NEW S \in Nat, NEW R \in Nat, S > 0, LpToDeposit(lp, S, R) > 0
  PROVE  LpToWithdraw(lp, S + lp, R + LpToDeposit(lp, S, R)) <= LpToDeposit(lp, S, R)
<1> DEFINE cost == CeilDiv(lp * R, S)
           back == FloorDiv(lp * (R + cost), S + lp)
<1>1. lp * R \in Nat /\ LpToDeposit(lp, S, R) = cost
  BY DEF LpToDeposit
<1>2. cost \in Nat /\ lp * R <= cost * S
  BY <1>1, CeilDivBounds
<1> HIDE DEF cost
<1>3. lp * (R + cost) \in Nat /\ S + lp \in Nat /\ S + lp > 0
  BY <1>2
<1>4. back \in Nat /\ back * (S + lp) <= lp * (R + cost)
  BY <1>3, FloorDivBounds
<1> HIDE DEF back
<1>5. lp * (R + cost) <= cost * (S + lp)
  <2>1. lp * (R + cost) = lp * R + lp * cost /\ cost * (S + lp) = cost * S + lp * cost
    BY <1>2
  <2>2. lp * cost \in Nat /\ cost * S \in Nat
    BY <1>2
  <2> QED BY <1>1, <1>2, <2>1, <2>2
<1>6. back * (S + lp) <= cost * (S + lp)
  <2>1. back * (S + lp) \in Nat /\ cost * (S + lp) \in Nat
    BY <1>2, <1>4
  <2> QED BY <1>3, <1>4, <1>5, <2>1
<1>7. back <= cost
  BY <1>2, <1>3, <1>4, <1>6, CancelLeq
<1> QED BY <1>1, <1>7 DEF back, LpToWithdraw

\* Two deposits cost at least what one of both costs.
LEMMA DepositInParts ==
  ASSUME NEW k \in Nat, NEW l \in Nat, NEW S \in Nat, NEW R \in Nat, S > 0,
         LpToDeposit(k, S, R) > 0,
         LpToDeposit(l, S + k, R + LpToDeposit(k, S, R)) > 0
  PROVE  LpToDeposit(k + l, S, R)
           <= LpToDeposit(k, S, R) + LpToDeposit(l, S + k, R + LpToDeposit(k, S, R))
<1> DEFINE first == CeilDiv(k * R, S)
           second == CeilDiv(l * (R + first), S + k)
<1>1. k * R \in Nat /\ LpToDeposit(k, S, R) = first
  BY DEF LpToDeposit
<1>2. first \in Nat /\ k * R <= first * S
  BY <1>1, CeilDivBounds
<1>3. LpToDeposit(l, S + k, R + LpToDeposit(k, S, R)) = second
  BY <1>1 DEF LpToDeposit
<1> HIDE DEF first
<1>4. l * (R + first) \in Nat /\ S + k \in Nat /\ S + k > 0
  BY <1>2
<1>5. second \in Nat /\ l * (R + first) <= second * (S + k)
  BY <1>4, CeilDivBounds
<1> HIDE DEF second
<1>6. l * R <= second * S
  <2>1. (l * (R + first)) * S <= (second * (S + k)) * S
    <3>1. second * (S + k) \in Int
      BY <1>5
    <3> QED BY <1>4, <1>5, <3>1, TimesLeq
  <2>2. (k * R) * l <= (first * S) * l
    <3>1. first * S \in Int
      BY <1>2
    <3> QED BY <1>1, <1>2, <3>1, TimesLeq
  <2>3. /\ (second * (S + k)) * S = (second * S) * (S + k)
        /\ (l * (R + first)) * S = (l * R) * S + (first * S) * l
        /\ (l * R) * (S + k) = (l * R) * S + (k * R) * l
    BY <1>2, <1>5
  <2>4. /\ (l * R) * S \in Int /\ (first * S) * l \in Int /\ (k * R) * l \in Int
        /\ (second * S) * (S + k) \in Int /\ (l * R) * (S + k) \in Int
        /\ second * S \in Int /\ l * R \in Int
    BY <1>2, <1>5
  <2>5. (l * R) * (S + k) <= (second * S) * (S + k)
    BY <2>1, <2>2, <2>3, <2>4
  <2> QED BY <1>4, <2>4, <2>5, CancelLeq
<1>7. (k + l) * R <= (first + second) * S
  <2>1. /\ (k + l) * R = k * R + l * R /\ (first + second) * S = first * S + second * S
        /\ l * R \in Int /\ first * S \in Int /\ second * S \in Int
    BY <1>2, <1>5
  <2> QED BY <1>1, <1>2, <1>6, <2>1
<1>8. LpToDeposit(k + l, S, R) <= first + second
  <2>1. (k + l) * R \in Nat /\ first + second \in Nat
    BY <1>2, <1>5
  <2>2. CeilDiv((k + l) * R, S) <= first + second
    BY <1>7, <2>1, CeilDivLeast
  <2>3. 0 <= first + second
    BY <2>1
  <2> QED BY <2>2, <2>3 DEF LpToDeposit
<1> QED BY <1>1, <1>3, <1>8

\* Two withdrawals bring at most what one of both brings.
LEMMA WithdrawInParts ==
  ASSUME NEW k \in Nat, NEW l \in Nat, NEW S \in Nat, NEW R \in Nat, k + l < S
  PROVE  LpToWithdraw(k, S, R) + LpToWithdraw(l, S - k, R - LpToWithdraw(k, S, R))
           <= LpToWithdraw(k + l, S, R)
<1> DEFINE first == FloorDiv(k * R, S)
           rest == S - k
           second == FloorDiv(l * (R - first), rest)
           whole == FloorDiv((k + l) * R, S)
<1>1. S > 0 /\ k * R \in Nat /\ (k + l) * R \in Nat
  OBVIOUS
<1>2. /\ first \in Nat /\ first * S <= k * R
      /\ whole \in Nat /\ (k + l) * R < (whole + 1) * S
  BY <1>1, FloorDivBounds
<1> HIDE DEF first, whole
<1>3. first <= R
  <2>1. k * R <= S * R
    BY TimesLeq
  <2>2. first * S \in Int /\ S * R \in Int /\ S * R = R * S
    BY <1>2
  <2>3. first * S <= R * S
    BY <1>1, <1>2, <2>1, <2>2
  <2> QED BY <1>1, <1>2, <2>3, CancelLeq
<1>4. rest \in Nat /\ rest > 0 /\ l < rest /\ S = rest + k /\ l * (R - first) \in Nat
  BY <1>2, <1>3
<1>5. second \in Nat /\ second * rest <= l * (R - first)
  BY <1>4, FloorDivBounds
<1> HIDE DEF second, rest
<1> DEFINE more == rest - l
<1>6. more \in Nat /\ rest = l + more
  BY <1>4
<1> HIDE DEF more
<1>7. ((first + second) * S) * rest <= ((k + l) * R) * rest
  <2>1. (second * rest) * S <= (l * (R - first)) * S
    <3>1. second * rest \in Int
      BY <1>4, <1>5
    <3> QED BY <1>4, <1>5, <3>1, TimesLeq
  <2>2. (first * S) * more <= (k * R) * more
    <3>1. first * S \in Int
      BY <1>2
    <3> QED BY <1>1, <1>2, <1>6, <3>1, TimesLeq
  <2>3. ((first + second) * S) * rest = (first * S) * more + (first * S) * l + (second * rest) * S
    <3>1. (first * S) * rest = (first * S) * l + (first * S) * more
      BY <1>2, <1>6
    <3>2. ((first + second) * S) * rest = (first * S) * rest + (second * rest) * S
      BY <1>2, <1>4, <1>5
    <3> QED BY <1>2, <1>4, <1>5, <1>6, <3>1, <3>2
  <2>4. (l * (R - first)) * S = (l * R) * S - (first * S) * l
    BY <1>2
  <2>5. (k * R) * more + (l * R) * S = ((k + l) * R) * rest
    <3>1. (k * R) * rest = (k * R) * l + (k * R) * more
      BY <1>6
    <3>2. (l * R) * S = (l * R) * rest + (k * R) * l
      BY <1>4
    <3>3. ((k + l) * R) * rest = (k * R) * rest + (l * R) * rest
      BY <1>4
    <3>4. (k * R) * l \in Int /\ (k * R) * more \in Int /\ (l * R) * rest \in Int
      BY <1>4, <1>6
    <3> QED BY <3>1, <3>2, <3>3, <3>4
  <2>6. /\ (first * S) * more \in Int /\ (first * S) * l \in Int /\ (second * rest) * S \in Int
        /\ (l * R) * S \in Int /\ (k * R) * more \in Int
    BY <1>2, <1>4, <1>5, <1>6
  <2> QED BY <2>1, <2>2, <2>3, <2>4, <2>5, <2>6
<1>8. (first + second) * S < (whole + 1) * S
  <2>1. (first + second) * S \in Int /\ (k + l) * R \in Int /\ (whole + 1) * S \in Int
    BY <1>2, <1>5
  <2>2. (first + second) * S <= (k + l) * R
    BY <1>4, <1>7, <2>1, CancelLeq
  <2> QED BY <1>2, <2>1, <2>2
<1>9. first + second <= whole
  <2>1. first + second < whole + 1
    BY <1>1, <1>2, <1>5, <1>8, CancelLess
  <2> QED BY <1>2, <1>5, <2>1
<1> QED BY <1>9 DEF first, second, rest, whole, LpToWithdraw
=============================================================================
