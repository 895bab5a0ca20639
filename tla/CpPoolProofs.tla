----------------------------- MODULE CpPoolProofs -----------------------------
(***************************************************************************)
(* The pool of CpPool stays solvent and its locked liquidity stays locked, *)
(* and no step takes value from an LP token, for every rate, transfer fee  *)
(* and amount.  It implements the ledger of owed fees.                     *)
(***************************************************************************)
EXTENDS CpPool, SwapCurveProofs

\* Before its pool exists a transaction finds every account empty, which is why
\* creation may leave the fee accounts alone.
NothingBeforeCreation ==
  ~created => /\ \A s \in Sides : vault[s] = 0 /\ OwedFees(s) = 0
              /\ lpSupply = 0 /\ lpMinted = 0

IInv == TypeOK /\ PoolSolvent /\ LiquidityLocked /\ NothingBeforeCreation

\* The bodies of the three action properties.
SharesStep ==
  created /\ lpSupply' # lpSupply =>
    \A s \in Sides : Net(s)' * lpSupply >= Net(s) * lpSupply'

ValueStep ==
  created =>
    Net(0)' * Net(1)' * lpSupply * lpSupply >= Net(0) * Net(1) * lpSupply' * lpSupply'

CollectionStep ==
  \A s \in Sides :
    OwedFees(s)' < OwedFees(s) => vault[s]' - vault[s] = OwedFees(s)' - OwedFees(s)

Good == IInv' /\ SharesStep /\ ValueStep /\ CollectionStep

----------------------------------------------------------------------------
(* Arithmetic *)

LEMMA OtherSide ==
  ASSUME NEW s \in Sides
  PROVE  Other(s) \in Sides /\ Other(s) # s /\ Other(Other(s)) = s /\ Sides = {s, Other(s)}
BY DEF Sides, Other

\* Products of natural numbers keep the order of their factors.
LEMMA TimesMonotone ==
  ASSUME NEW a \in Nat, NEW b \in Nat, NEW c \in Nat, NEW d \in Nat, a <= c, b <= d
  PROVE  a * b <= c * d
<1>1. a * b <= c * b
  BY TimesLeq
<1>2. b * c <= d * c
  BY TimesLeq
<1> QED BY <1>1, <1>2

\* When each reserve keeps its share of the supply, their product keeps its
\* share of the supply's square.
LEMMA SharesKeepValue ==
  ASSUME NEW a \in Nat, NEW b \in Nat, NEW c \in Nat, NEW d \in Nat, NEW S \in Nat, NEW T \in Nat,
         a * T <= c * S, b * T <= d * S
  PROVE  c * d * S * S >= a * b * T * T
<1>1. a * T \in Nat /\ b * T \in Nat /\ c * S \in Nat /\ d * S \in Nat
  OBVIOUS
<1>2. (a * T) * (b * T) <= (c * S) * (d * S)
  BY <1>1, TimesMonotone
<1>3. (a * T) * (b * T) = a * b * T * T /\ (c * S) * (d * S) = c * d * S * S
  OBVIOUS
<1> QED BY <1>2, <1>3

\* A withdrawal of less than the supply leaves something of a reserve, and at
\* least the share of those who stay.
LEMMA WithdrawBounds ==
  ASSUME NEW lp \in Nat, NEW S \in Nat, NEW total \in Nat, lp < S, total > 0
  PROVE  /\ LpToWithdraw(lp, S, total) \in 0..(total - 1)
         /\ (total - LpToWithdraw(lp, S, total)) * S >= total * (S - lp)
<1> DEFINE q == FloorDiv(lp * total, S)
<1>1. lp * total \in Nat /\ S \in Nat /\ S > 0 /\ total * S \in Nat /\ total * lp = lp * total
  OBVIOUS
<1>2. q \in Nat /\ q * S <= lp * total
  BY <1>1, FloorDivBounds
<1> HIDE DEF q
<1>3. lp * total < total * S
  <2>1. lp * total <= (S - 1) * total
    BY TimesLeq
  <2>2. (S - 1) * total = total * S - total
    OBVIOUS
  <2> QED BY <1>1, <2>1, <2>2
<1>4. q < total
  <2>1. q * S \in Int
    BY <1>2
  <2>2. q * S < total * S
    BY <1>1, <1>2, <1>3, <2>1
  <2> QED BY <1>1, <1>2, <2>2, CancelLess
<1>5. (total - q) * S >= total * (S - lp)
  <2>1. (total - q) * S = total * S - q * S /\ q * S \in Int
    BY <1>2
  <2>2. total * (S - lp) = total * S - total * lp
    OBVIOUS
  <2> QED BY <1>1, <1>2, <2>1, <2>2
<1>6. LpToWithdraw(lp, S, total) = q
  BY DEF LpToWithdraw, q
<1> QED BY <1>2, <1>4, <1>5, <1>6

\* A deposit that brings anything of a token brings at least its share.
LEMMA DepositBounds ==
  ASSUME NEW lp \in Nat, NEW S \in Nat, NEW total \in Nat, S > 0,
         LpToDeposit(lp, S, total) > 0
  PROVE  /\ LpToDeposit(lp, S, total) \in Nat
         /\ (total + LpToDeposit(lp, S, total)) * S >= total * (S + lp)
<1> DEFINE q == CeilDiv(lp * total, S)
<1>1. lp * total \in Nat /\ total * S \in Nat /\ total * lp = lp * total
  OBVIOUS
<1>2. q \in Nat /\ lp * total <= q * S
  BY <1>1, CeilDivBounds
<1>3. LpToDeposit(lp, S, total) = q
  BY DEF LpToDeposit, q
<1> HIDE DEF q
<1>4. (total + q) * S >= total * (S + lp)
  <2>1. (total + q) * S = total * S + q * S /\ q * S \in Int
    BY <1>2
  <2>2. total * (S + lp) = total * S + total * lp
    OBVIOUS
  <2> QED BY <1>1, <1>2, <2>1, <2>2
<1> QED BY <1>2, <1>3, <1>4

\* A transfer never withholds more than it moves.
LEMMA ReceivedBounds ==
  ASSUME NEW s \in Sides, NEW amount \in Nat
  PROVE  Received(s, amount) \in 0..amount
<1>1. /\ BasisPoints \in Nat /\ BasisPoints > 0
      /\ TransferRate[s] \in Nat /\ TransferRate[s] <= BasisPoints
      /\ TransferMax[s] \in Nat
  BY PoolAssumption
<1>2. CeilDiv(amount * TransferRate[s], BasisPoints) \in 0..amount
  BY <1>1, FractionOfWhole
<1> QED BY <1>1, <1>2 DEF Received, TransferFee

----------------------------------------------------------------------------
(* What a state of the invariant offers *)

LEMMA OpenPool ==
  ASSUME IInv, created
  PROVE  /\ \A s \in Sides : /\ vault[s] \in Nat /\ OwedFees(s) \in Nat
                             /\ Net(s) \in Nat /\ Net(s) > 0
                             /\ Net(s) = vault[s] - OwedFees(s)
         /\ lpSupply \in Nat /\ lpSupply > 0 /\ lpMinted \in Nat
         /\ LockedLp \in Nat /\ LockedLp > 0 /\ lpMinted + LockedLp <= lpSupply
<1>1. LockedLp \in Nat /\ LockedLp > 0
  BY PoolAssumption
<1> QED BY <1>1 DEF IInv, TypeOK, PoolSolvent, LiquidityLocked, Net, OwedFees

LEMMA RatesBelowDenominator ==
  ASSUME IInv
  PROVE  /\ config.trade \in Nat /\ CreatorRate \in Nat
         /\ config.trade + CreatorRate < Denominator
         /\ config.protocol \in Nat /\ config.fund \in Nat
         /\ config.protocol + config.fund <= Denominator
BY DenominatorAssumption DEF IInv, TypeOK, ValidConfig, registries, CreatorRate, RateNames

\* A step of a pool that exists, and leaves its LP tokens and the shape of the
\* accounts alone, is good when it is solvent and loses no product of reserves.
LEMMA GoodSameSupply ==
  ASSUME IInv, created, TypeOK', created', lpSupply' = lpSupply, lpMinted' <= lpMinted,
         \A s \in Sides : Net(s)' \in Nat /\ Net(s)' > 0,
         Net(0)' * Net(1)' >= Net(0) * Net(1),
         CollectionStep
  PROVE  Good
<1>0. 0 \in Sides /\ 1 \in Sides
  BY DEF Sides
<1>1. PoolSolvent'
  BY DEF PoolSolvent, Net, OwedFees, TypeOK
<1>2. LiquidityLocked'
  BY OpenPool DEF LiquidityLocked, TypeOK
<1>3. NothingBeforeCreation'
  BY DEF NothingBeforeCreation
<1>4. ValueStep
  <2> DEFINE p == Net(0) * Net(1)
             q == Net(0)' * Net(1)'
  <2>1. p \in Nat /\ q \in Nat /\ p <= q /\ lpSupply * lpSupply \in Nat /\ lpSupply \in Nat
    BY <1>0, OpenPool
  <2>2. q * lpSupply * lpSupply >= p * lpSupply * lpSupply
    <3> HIDE DEF p, q
    <3>1. p * (lpSupply * lpSupply) <= q * (lpSupply * lpSupply)
      BY <2>1, TimesLeq
    <3>2. /\ p * (lpSupply * lpSupply) = p * lpSupply * lpSupply
          /\ q * (lpSupply * lpSupply) = q * lpSupply * lpSupply
      BY <2>1
    <3> QED BY <3>1, <3>2
  <2> QED BY <2>2 DEF ValueStep, p, q
<1>5. SharesStep
  BY DEF SharesStep
<1> QED BY <1>1, <1>2, <1>3, <1>4, <1>5 DEF Good, IInv

----------------------------------------------------------------------------
(* Swaps *)

\* The parts of a trade fee that update_fees books are natural numbers and no
\* more than the fee.
LEMMA BookedParts ==
  ASSUME IInv, NEW fee \in Nat
  PROVE  /\ PartOfFee(fee, config.protocol) \in Nat /\ PartOfFee(fee, config.fund) \in Nat
         /\ PartOfFee(fee, config.protocol) + PartOfFee(fee, config.fund) <= fee
BY RatesBelowDenominator, PartsOfFee

\* What a swap that accounts for every token does to one side and the other:
\* nothing of the reserves leaves but what the curve draws.
LEMMA ExchangeEffect ==
  ASSUME IInv, created, NEW s \in Sides, NEW q,
         Accounted(q, IsCreatorFeeOnInput(s), Net(Other(s))), Exchange(s, q)
  PROVE  /\ TypeOK'
         /\ Net(s)' \in Nat /\ Net(s)' >= Net(s) + q.swapped
         /\ Net(Other(s))' = Net(Other(s)) - q.drawn
         /\ OwedFees(s)' >= OwedFees(s) /\ OwedFees(Other(s))' >= OwedFees(Other(s))
<1> DEFINE o == Other(s)
           p == PartOfFee(q.tradeFee, config.protocol)
           f == PartOfFee(q.tradeFee, config.fund)
           onInput == IsCreatorFeeOnInput(s)
<1>1. o \in Sides /\ o # s /\ \A r \in Sides : r = s \/ r = o
  BY OtherSide
<1>2. /\ q.input \in Nat /\ q.swapped \in Nat /\ q.tradeFee \in Nat /\ q.creatorFee \in Nat
      /\ q.drawn \in 0..(Net(o) - 1) /\ q.output \in Nat
      /\ onInput => q.input = q.swapped + q.tradeFee + q.creatorFee /\ q.drawn = q.output
      /\ ~onInput => q.input = q.swapped + q.tradeFee /\ q.drawn = q.output + q.creatorFee
  BY DEF Accounted
<1>3. p \in Nat /\ f \in Nat /\ p + f <= q.tradeFee
  BY <1>2, BookedParts
<1>4. /\ protocolFees' = [protocolFees EXCEPT ![s] = @ + p]
      /\ fundFees' = [fundFees EXCEPT ![s] = @ + f]
      /\ creatorFees' = [creatorFees EXCEPT ![IF onInput THEN s ELSE o] = @ + q.creatorFee]
      /\ vault' = [vault EXCEPT ![s] = @ + q.input, ![o] = @ - q.output]
      /\ UNCHANGED <<config, creationOff, registries, disabled, created, creatorFeeOn, enableCreatorFee,
                     opened, lpSupply, lpMinted>>
  BY DEF Exchange, BookFees, CreatorFeeSide, admin, modes
<1>5. /\ vault \in [Sides -> Nat] /\ protocolFees \in [Sides -> Nat]
      /\ fundFees \in [Sides -> Nat] /\ creatorFees \in [Sides -> Nat]
  BY DEF IInv, TypeOK
<1> HIDE DEF o, p, f, onInput
<1>6. /\ vault'[s] = vault[s] + q.input /\ vault'[o] = vault[o] - q.output
      /\ protocolFees'[s] = protocolFees[s] + p /\ protocolFees'[o] = protocolFees[o]
      /\ fundFees'[s] = fundFees[s] + f /\ fundFees'[o] = fundFees[o]
      /\ onInput => /\ creatorFees'[s] = creatorFees[s] + q.creatorFee
                    /\ creatorFees'[o] = creatorFees[o]
      /\ ~onInput => /\ creatorFees'[s] = creatorFees[s]
                     /\ creatorFees'[o] = creatorFees[o] + q.creatorFee
  BY <1>1, <1>4, <1>5
<1>7. \A r \in Sides : /\ vault[r] \in Nat /\ protocolFees[r] \in Nat /\ fundFees[r] \in Nat
                       /\ creatorFees[r] \in Nat /\ Net(r) \in Nat
                       /\ Net(r) = vault[r] - (protocolFees[r] + fundFees[r] + creatorFees[r])
  BY <1>5, OpenPool DEF OwedFees
<1>8. \A r \in Sides :
        /\ Net(r)' = vault'[r] - (protocolFees'[r] + fundFees'[r] + creatorFees'[r])
        /\ OwedFees(r)' = protocolFees'[r] + fundFees'[r] + creatorFees'[r]
        /\ OwedFees(r) = protocolFees[r] + fundFees[r] + creatorFees[r]
  BY DEF Net, OwedFees
<1>9. /\ vault' \in [Sides -> Nat] /\ protocolFees' \in [Sides -> Nat]
      /\ fundFees' \in [Sides -> Nat] /\ creatorFees' \in [Sides -> Nat]
  <2>1. vault'[s] \in Nat /\ vault'[o] \in Nat
    BY <1>1, <1>2, <1>6, <1>7
  <2>2. /\ DOMAIN vault' = Sides /\ vault' = [r \in Sides |-> vault'[r]]
    BY <1>4, <1>5
  <2>3. vault' \in [Sides -> Nat]
    BY <1>1, <2>1, <2>2
  <2> QED BY <1>1, <1>2, <1>3, <1>4, <1>5, <2>3
<1>10. TypeOK'
  BY <1>4, <1>9 DEF IInv, TypeOK, ValidConfig, registries
<1>11. Net(s)' \in Nat /\ Net(s)' >= Net(s) + q.swapped /\ OwedFees(s)' >= OwedFees(s)
  BY <1>1, <1>2, <1>3, <1>6, <1>7, <1>8
<1>12. Net(o)' = Net(o) - q.drawn /\ OwedFees(o)' >= OwedFees(o)
  <2>1. /\ Net(o)' = vault'[o] - (protocolFees'[o] + fundFees'[o] + creatorFees'[o])
        /\ OwedFees(o)' = protocolFees'[o] + fundFees'[o] + creatorFees'[o]
        /\ OwedFees(o) = protocolFees[o] + fundFees[o] + creatorFees[o]
        /\ vault[o] \in Nat /\ protocolFees[o] \in Nat /\ fundFees[o] \in Nat
        /\ creatorFees[o] \in Nat
        /\ Net(o) = vault[o] - (protocolFees[o] + fundFees[o] + creatorFees[o])
    BY <1>1, <1>7, <1>8
  <2>2. q.drawn \in Int /\ q.output \in Nat /\ q.creatorFee \in Nat
    BY <1>2
  <2>3. CASE onInput
    <3>1. creatorFees'[o] = creatorFees[o] /\ q.drawn = q.output
      BY <1>2, <1>6, <2>3
    <3> QED BY <1>6, <2>1, <2>2, <3>1
  <2>4. CASE ~onInput
    <3>1. creatorFees'[o] = creatorFees[o] + q.creatorFee /\ q.drawn = q.output + q.creatorFee
      BY <1>2, <1>6, <2>4
    <3> QED BY <1>6, <2>1, <2>2, <3>1
  <2> QED BY <2>3, <2>4
<1> QED BY <1>10, <1>11, <1>12 DEF o

\* A swap that accounts for every token is a good step.
LEMMA ExchangeGood ==
  ASSUME IInv, created, NEW s \in Sides, NEW q,
         Accounted(q, IsCreatorFeeOnInput(s), Net(Other(s))), Exchange(s, q)
  PROVE  Good
<1> DEFINE o == Other(s)
<1>1. o \in Sides /\ o # s /\ Sides = {s, o}
  BY OtherSide
<1>2. Net(s) \in Nat /\ Net(o) \in Nat /\ Net(s) > 0 /\ Net(o) > 0
  BY <1>1, OpenPool
<1>3. q.swapped \in Nat /\ q.drawn \in 0..(Net(o) - 1)
  BY DEF Accounted
<1>4. /\ TypeOK'
      /\ Net(s)' \in Nat /\ Net(s)' >= Net(s) + q.swapped
      /\ Net(o)' = Net(o) - q.drawn
      /\ OwedFees(s)' >= OwedFees(s) /\ OwedFees(o)' >= OwedFees(o)
  BY ExchangeEffect
<1>5. /\ created' /\ lpSupply' = lpSupply /\ lpMinted' = lpMinted /\ lpMinted \in Nat
      /\ (Net(s) + q.swapped) * (Net(o) - q.drawn) >= Net(s) * Net(o)
  BY OpenPool DEF Exchange, modes
<1>6. \A r \in Sides : Net(r)' \in Nat /\ Net(r)' > 0
  BY <1>1, <1>2, <1>3, <1>4
<1>7. Net(s)' * Net(o)' >= Net(s) * Net(o)
  <2> DEFINE a == Net(s) + q.swapped
             b == Net(o) - q.drawn
             c == Net(s)'
  <2>1. a \in Nat /\ b \in Nat /\ c \in Nat /\ a <= c /\ Net(s) * Net(o) \in Nat
    BY <1>2, <1>3, <1>4
  <2>2. a * b >= Net(s) * Net(o)
    BY <1>5
  <2>3. Net(o)' = b
    BY <1>4
  <2> HIDE DEF a, b, c
  <2>4. a * b <= c * b /\ a * b \in Nat /\ c * b \in Nat
    BY <2>1, TimesLeq
  <2>5. c * b >= Net(s) * Net(o)
    BY <2>1, <2>2, <2>4
  <2> QED BY <2>3, <2>5 DEF c
<1>8. Net(0)' * Net(1)' >= Net(0) * Net(1)
  <2>1. (s = 0 /\ o = 1) \/ (s = 1 /\ o = 0)
    BY DEF Sides, Other
  <2>2. CASE s = 0 /\ o = 1
    BY <1>7, <2>2
  <2>3. CASE s = 1 /\ o = 0
    <3>1. Net(1)' * Net(0)' >= Net(1) * Net(0)
      BY <1>7, <2>3
    <3>2. /\ Net(0) \in Nat /\ Net(1) \in Nat /\ Net(0)' \in Nat /\ Net(1)' \in Nat
      BY <1>6, OpenPool DEF Sides
    <3> QED BY <3>1, <3>2
  <2> QED BY <2>1, <2>2, <2>3
<1>9. CollectionStep
  <2>1. \A r \in Sides : OwedFees(r) \in Nat /\ OwedFees(r)' \in Nat
    BY <1>4, OpenPool DEF OwedFees, TypeOK
  <2> QED BY <1>1, <1>4, <2>1 DEF CollectionStep
<1>10. lpMinted' <= lpMinted
  BY <1>5
<1> HIDE DEF o
<1> QED BY <1>4, <1>5, <1>6, <1>8, <1>9, <1>10, GoodSameSupply

\* Both swaps exchange a quote that accounts for every token.
LEMMA SwapBaseInputExchanges ==
  ASSUME IInv, NEW s \in Sides, NEW amountIn \in Nat, NEW minimumOut,
         SwapBaseInput(s, amountIn, minimumOut)
  PROVE  created /\ \E q : /\ Accounted(q, IsCreatorFeeOnInput(s), Net(Other(s)))
                          /\ Exchange(s, q)
<1> DEFINE actual == Received(s, amountIn)
           q == QuoteInput(IsCreatorFeeOnInput(s), actual, Net(s), Net(Other(s)),
                           config.trade, CreatorRate)
<1>1. created /\ Priced(s) /\ Exchange(s, q)
  BY DEF SwapBaseInput, SwapOpen
<1>2. actual \in Nat
  BY ReceivedBounds
<1>3. /\ Net(s) \in Nat /\ Net(s) > 0 /\ Net(Other(s)) \in Nat /\ Net(Other(s)) > 0
  BY <1>1, OpenPool, OtherSide
<1>4. IsCreatorFeeOnInput(s) \in BOOLEAN
  BY DEF IsCreatorFeeOnInput
<1>5. Accounted(q, IsCreatorFeeOnInput(s), Net(Other(s)))
  BY <1>1, <1>2, <1>3, <1>4, RatesBelowDenominator, QuoteInputAccounted DEF Priced
<1> HIDE DEF q
<1> QED BY <1>1, <1>5

LEMMA SwapBaseOutputExchanges ==
  ASSUME IInv, NEW s \in Sides, NEW maximumIn, NEW amountOut \in Nat,
         SwapBaseOutput(s, maximumIn, amountOut)
  PROVE  created /\ \E q : /\ Accounted(q, IsCreatorFeeOnInput(s), Net(Other(s)))
                          /\ Exchange(s, q)
<1> DEFINE Q(output) ==
             QuoteOutput(IsCreatorFeeOnInput(s), output, Net(s), Net(Other(s)),
                         config.trade, CreatorRate)
<1>1. PICK output \in SentFor(Other(s), amountOut) :
        /\ created /\ Priced(s)
        /\ DrawnFor(IsCreatorFeeOnInput(s), output, CreatorRate) < Net(Other(s))
        /\ Exchange(s, Q(output))
  BY DEF SwapBaseOutput, SwapOpen
<1>2. output \in Nat
  BY DEF SentFor
<1>3. Net(s) \in Nat /\ Net(Other(s)) \in Nat
  BY <1>1, OpenPool, OtherSide
<1>4. IsCreatorFeeOnInput(s) \in BOOLEAN
  BY DEF IsCreatorFeeOnInput
<1>5. Accounted(Q(output), IsCreatorFeeOnInput(s), Net(Other(s)))
  BY <1>1, <1>2, <1>3, <1>4, RatesBelowDenominator, QuoteOutputAccounted DEF Priced
<1> HIDE DEF Q
<1> QED BY <1>1, <1>5

----------------------------------------------------------------------------
(* Liquidity *)

LEMMA CreatePoolGood ==
  ASSUME IInv, NEW amounts \in [Sides -> Nat], NEW feeOn \in {Sides, {0}, {1}},
         NEW enable \in BOOLEAN, NEW liquidity \in Nat,
         CreatePool(amounts, feeOn, enable, liquidity)
  PROVE  Good
<1> DEFINE received == [s \in Sides |-> Received(s, amounts[s])]
<1>1. /\ ~created /\ created' = TRUE /\ opened' = FALSE /\ disabled' = {}
      /\ creatorFeeOn' = feeOn /\ enableCreatorFee' = enable
      /\ vault' = received /\ lpSupply' = liquidity
      /\ lpMinted' = liquidity - LockedLp /\ liquidity >= LockedLp
      /\ \A s \in Sides : received[s] > 0
      /\ UNCHANGED <<config, creationOff, registries, protocolFees, fundFees, creatorFees>>
  BY DEF CreatePool, MintedAtCreation, fees
<1>2. \A s \in Sides : Received(s, amounts[s]) \in Nat
  BY ReceivedBounds
<1>3. LockedLp \in Nat /\ LockedLp > 0
  BY PoolAssumption
<1>4. TypeOK'
  <2>1. vault' \in [Sides -> Nat] /\ lpSupply' \in Nat /\ lpMinted' \in Nat
    BY <1>1, <1>2, <1>3
  <2>2. /\ config' \in [RateNames -> Nat] /\ ValidConfig(config)'
        /\ permission' \in BOOLEAN /\ supported' \subseteq Unlisted
        /\ creationOff' \in BOOLEAN /\ created' \in BOOLEAN /\ opened' \in BOOLEAN
        /\ disabled' \subseteq Operations
        /\ creatorFeeOn' \in {Sides, {0}, {1}} /\ enableCreatorFee' \in BOOLEAN
        /\ protocolFees' \in [Sides -> Nat] /\ fundFees' \in [Sides -> Nat]
        /\ creatorFees' \in [Sides -> Nat]
    BY <1>1 DEF IInv, TypeOK, ValidConfig, registries
  <2> QED BY <2>1, <2>2 DEF TypeOK
<1>5. \A s \in Sides : OwedFees(s)' = OwedFees(s) /\ OwedFees(s) = 0
  BY <1>1 DEF IInv, NothingBeforeCreation, OwedFees
<1>6. PoolSolvent'
  BY <1>1, <1>2, <1>5 DEF PoolSolvent
<1>7. LiquidityLocked'
  BY <1>1, <1>3 DEF LiquidityLocked
<1>8. SharesStep /\ ValueStep /\ CollectionStep
  BY <1>1, <1>5 DEF SharesStep, ValueStep, CollectionStep
<1> QED BY <1>1, <1>4, <1>6, <1>7, <1>8 DEF Good, IInv, NothingBeforeCreation

\* A step of an existing pool that leaves the fees alone and keeps the shares of
\* the LP tokens is good.
LEMMA GoodShares ==
  ASSUME IInv, created, TypeOK', created',
         UNCHANGED fees, LiquidityLocked',
         \A s \in Sides : /\ Net(s)' \in Nat /\ Net(s)' > 0
                          /\ Net(s)' * lpSupply >= Net(s) * lpSupply'
  PROVE  Good
<1>0. 0 \in Sides /\ 1 \in Sides
  BY DEF Sides
<1>1. PoolSolvent'
  BY DEF PoolSolvent, Net, OwedFees, TypeOK
<1>2. NothingBeforeCreation'
  BY DEF NothingBeforeCreation
<1>3. SharesStep
  BY DEF SharesStep
<1>4. ValueStep
  <2>1. /\ Net(0) \in Nat /\ Net(1) \in Nat /\ Net(0)' \in Nat /\ Net(1)' \in Nat
        /\ lpSupply \in Nat /\ lpSupply' \in Nat
        /\ Net(0) * lpSupply' <= Net(0)' * lpSupply
        /\ Net(1) * lpSupply' <= Net(1)' * lpSupply
    <3>1. Net(0) * lpSupply' \in Int /\ Net(1) * lpSupply' \in Int
      BY <1>0, OpenPool DEF TypeOK
    <3>2. Net(0)' * lpSupply \in Int /\ Net(1)' * lpSupply \in Int
      BY <1>0, OpenPool
    <3> QED BY <1>0, <3>1, <3>2, OpenPool DEF TypeOK
  <2> QED BY <2>1, SharesKeepValue DEF ValueStep
<1>5. CollectionStep
  <2>1. \A s \in Sides : OwedFees(s)' = OwedFees(s) /\ OwedFees(s) \in Nat
    BY OpenPool DEF OwedFees, fees
  <2> QED BY <2>1 DEF CollectionStep
<1> QED BY <1>1, <1>2, <1>3, <1>4, <1>5 DEF Good, IInv

LEMMA DepositGood ==
  ASSUME IInv, NEW lp \in Nat, NEW maximum, Deposit(lp, maximum)
  PROVE  Good
<1> DEFINE amount(s) == LpToDeposit(lp, lpSupply, Net(s))
<1>1. /\ created /\ \A s \in Sides : amount(s) > 0
      /\ vault' = [s \in Sides |-> vault[s] + amount(s)]
      /\ lpSupply' = lpSupply + lp /\ lpMinted' = lpMinted + lp
      /\ UNCHANGED <<config, creationOff, registries, disabled, created, creatorFeeOn, enableCreatorFee,
                     opened, protocolFees, fundFees, creatorFees>>
  BY DEF Deposit, admin, modes, fees
<1>2. \A s \in Sides : /\ amount(s) \in Nat
                       /\ (Net(s) + amount(s)) * lpSupply >= Net(s) * (lpSupply + lp)
  BY <1>1, OpenPool, DepositBounds
<1> HIDE DEF amount
<1>3. TypeOK'
  BY <1>1, <1>2, OpenPool DEF IInv, TypeOK, ValidConfig, registries
<1>4. \A s \in Sides : Net(s)' = Net(s) + amount(s)
  BY <1>1, <1>2, OpenPool DEF Net, OwedFees, IInv, TypeOK
<1>5. LiquidityLocked'
  BY <1>1, OpenPool DEF LiquidityLocked
<1>6. \A s \in Sides : /\ Net(s)' \in Nat /\ Net(s)' > 0
                       /\ Net(s)' * lpSupply >= Net(s) * lpSupply'
  BY <1>1, <1>2, <1>4, OpenPool
<1> QED BY <1>1, <1>3, <1>5, <1>6, GoodShares DEF fees

LEMMA WithdrawGood ==
  ASSUME IInv, NEW lp \in Nat, NEW minimum, Withdraw(lp, minimum)
  PROVE  Good
<1> DEFINE amount(s) == LpToWithdraw(lp, lpSupply, Net(s))
<1>1. /\ created /\ lp <= lpMinted
      /\ vault' = [s \in Sides |-> vault[s] - amount(s)]
      /\ lpSupply' = lpSupply - lp /\ lpMinted' = lpMinted - lp
      /\ UNCHANGED <<config, creationOff, registries, disabled, created, creatorFeeOn, enableCreatorFee,
                     opened, protocolFees, fundFees, creatorFees>>
  BY DEF Withdraw, admin, modes, fees
<1>2. \A s \in Sides : /\ amount(s) \in 0..(Net(s) - 1)
                       /\ (Net(s) - amount(s)) * lpSupply >= Net(s) * (lpSupply - lp)
  <2>1. lp < lpSupply /\ lpSupply \in Nat /\ \A s \in Sides : Net(s) \in Nat /\ Net(s) > 0
    BY <1>1, OpenPool
  <2> QED BY <2>1, WithdrawBounds
<1> HIDE DEF amount
<1>3. TypeOK'
  <2>1. \A s \in Sides : vault[s] - amount(s) \in Nat
    BY <1>1, <1>2, OpenPool
  <2>2. lpSupply' \in Nat /\ lpMinted' \in Nat
    BY <1>1, OpenPool
  <2> QED BY <1>1, <2>1, <2>2 DEF IInv, TypeOK, ValidConfig, registries
<1>4. \A s \in Sides : Net(s)' = Net(s) - amount(s)
  BY <1>1, <1>2, OpenPool DEF Net, OwedFees, IInv, TypeOK
<1>5. LiquidityLocked'
  BY <1>1, OpenPool DEF LiquidityLocked
<1>6. \A s \in Sides : /\ Net(s)' \in Nat /\ Net(s)' > 0
                       /\ Net(s)' * lpSupply >= Net(s) * lpSupply'
  BY <1>1, <1>2, <1>4, OpenPool
<1> QED BY <1>1, <1>3, <1>5, <1>6, GoodShares DEF fees

----------------------------------------------------------------------------
(* Fees and transfers *)

\* A step that takes no more than is owed to one receiver, out of that
\* receiver's account, is good: the three collections differ in whose it is.
LEMMA CollectionGood ==
  ASSUME IInv, created, TypeOK', NEW amounts \in [Sides -> Nat],
         vault' = [s \in Sides |-> vault[s] - amounts[s]],
         \A s \in Sides : OwedFees(s)' = OwedFees(s) - amounts[s],
         UNCHANGED <<created, lpSupply, lpMinted>>
  PROVE  Good
<1>1. \A s \in Sides : Net(s)' = vault'[s] - OwedFees(s)' /\ amounts[s] \in Nat
  BY DEF Net, OwedFees
<1>2. \A s \in Sides : Net(s)' = Net(s)
  BY <1>1, OpenPool
<1>3. \A s \in Sides : Net(s)' \in Nat /\ Net(s)' > 0
  BY <1>2, OpenPool
<1>4. Net(0)' * Net(1)' >= Net(0) * Net(1)
  BY <1>2, OpenPool DEF Sides
<1>5. CollectionStep
  BY OpenPool DEF CollectionStep
<1>6. lpSupply' = lpSupply /\ lpMinted' <= lpMinted /\ created'
  BY OpenPool
<1> QED BY <1>3, <1>4, <1>5, <1>6, GoodSameSupply

\* A request that is cut to what is owed is for no more than is owed.
LEMMA LesserBounds ==
  ASSUME NEW requested \in [Sides -> Nat], NEW owed \in [Sides -> Nat]
  PROVE  /\ Lesser(requested, owed) \in [Sides -> Nat]
         /\ \A s \in Sides : Lesser(requested, owed)[s] <= owed[s]
BY DEF Lesser

LEMMA CollectProtocolFeeGood ==
  ASSUME IInv, NEW requested \in [Sides -> Nat], CollectProtocolFee(requested)
  PROVE  Good
<1> DEFINE amounts == Lesser(requested, protocolFees)
<1>1. /\ created
      /\ protocolFees' = [s \in Sides |-> protocolFees[s] - amounts[s]]
      /\ vault' = [s \in Sides |-> vault[s] - amounts[s]]
      /\ UNCHANGED <<config, creationOff, registries, disabled, created, creatorFeeOn, enableCreatorFee,
                     opened, fundFees, creatorFees, lpSupply, lpMinted>>
  BY DEF CollectProtocolFee, admin, modes
<1>2. amounts \in [Sides -> Nat] /\ \A s \in Sides : amounts[s] <= protocolFees[s]
  BY LesserBounds DEF IInv, TypeOK
<1> HIDE DEF amounts
<1>3. \A s \in Sides : /\ amounts[s] \in Nat /\ protocolFees[s] \in Nat /\ fundFees[s] \in Nat
                       /\ creatorFees[s] \in Nat /\ vault[s] \in Nat /\ OwedFees(s) < vault[s]
  BY <1>1, <1>2 DEF IInv, TypeOK, PoolSolvent
<1>4. \A s \in Sides : vault[s] - amounts[s] \in Nat /\ protocolFees[s] - amounts[s] \in Nat
  BY <1>2, <1>3 DEF OwedFees
<1>5. TypeOK'
  BY <1>1, <1>4 DEF IInv, TypeOK, ValidConfig, registries
<1>6. \A s \in Sides : OwedFees(s)' = OwedFees(s) - amounts[s]
  BY <1>1, <1>3 DEF OwedFees
<1> QED BY <1>1, <1>2, <1>5, <1>6, CollectionGood

LEMMA CollectFundFeeGood ==
  ASSUME IInv, NEW requested \in [Sides -> Nat], CollectFundFee(requested)
  PROVE  Good
<1> DEFINE amounts == Lesser(requested, fundFees)
<1>1. /\ created
      /\ fundFees' = [s \in Sides |-> fundFees[s] - amounts[s]]
      /\ vault' = [s \in Sides |-> vault[s] - amounts[s]]
      /\ UNCHANGED <<config, creationOff, registries, disabled, created, creatorFeeOn, enableCreatorFee,
                     opened, protocolFees, creatorFees, lpSupply, lpMinted>>
  BY DEF CollectFundFee, admin, modes
<1>2. amounts \in [Sides -> Nat] /\ \A s \in Sides : amounts[s] <= fundFees[s]
  BY LesserBounds DEF IInv, TypeOK
<1> HIDE DEF amounts
<1>3. \A s \in Sides : /\ amounts[s] \in Nat /\ protocolFees[s] \in Nat /\ fundFees[s] \in Nat
                       /\ creatorFees[s] \in Nat /\ vault[s] \in Nat /\ OwedFees(s) < vault[s]
  BY <1>1, <1>2 DEF IInv, TypeOK, PoolSolvent
<1>4. \A s \in Sides : vault[s] - amounts[s] \in Nat /\ fundFees[s] - amounts[s] \in Nat
  BY <1>2, <1>3 DEF OwedFees
<1>5. TypeOK'
  BY <1>1, <1>4 DEF IInv, TypeOK, ValidConfig, registries
<1>6. \A s \in Sides : OwedFees(s)' = OwedFees(s) - amounts[s]
  BY <1>1, <1>3 DEF OwedFees
<1> QED BY <1>1, <1>2, <1>5, <1>6, CollectionGood

LEMMA CollectCreatorFeeGood ==
  ASSUME IInv, CollectCreatorFee
  PROVE  Good
<1>1. /\ created
      /\ creatorFees' = [s \in Sides |-> 0]
      /\ vault' = [s \in Sides |-> vault[s] - creatorFees[s]]
      /\ UNCHANGED <<config, creationOff, registries, disabled, created, creatorFeeOn, enableCreatorFee,
                     opened, protocolFees, fundFees, lpSupply, lpMinted>>
  BY DEF CollectCreatorFee, admin, modes
<1>2. /\ creatorFees \in [Sides -> Nat]
      /\ \A s \in Sides : /\ protocolFees[s] \in Nat /\ fundFees[s] \in Nat
                          /\ creatorFees[s] \in Nat /\ vault[s] \in Nat
                          /\ OwedFees(s) < vault[s]
  BY <1>1 DEF IInv, TypeOK, PoolSolvent
<1>3. \A s \in Sides : vault[s] - creatorFees[s] \in Nat
  BY <1>2 DEF OwedFees
<1>4. TypeOK'
  BY <1>1, <1>3 DEF IInv, TypeOK, ValidConfig, registries
<1>5. \A s \in Sides : OwedFees(s)' = OwedFees(s) - creatorFees[s]
  BY <1>1, <1>2 DEF OwedFees
<1> QED BY <1>1, <1>2, <1>4, <1>5, CollectionGood

LEMMA SendToVaultGood ==
  ASSUME IInv, NEW s \in Sides, NEW amount \in Nat, SendToVault(s, amount)
  PROVE  Good
<1> DEFINE extra == Received(s, amount)
<1>1. /\ created /\ vault' = [vault EXCEPT ![s] = @ + extra]
      /\ UNCHANGED <<config, creationOff, registries, disabled, created, creatorFeeOn, enableCreatorFee,
                     opened, protocolFees, fundFees, creatorFees, lpSupply, lpMinted>>
  BY DEF SendToVault, admin, modes, fees
<1>2. extra \in Nat
  BY ReceivedBounds
<1> HIDE DEF extra
<1>3. vault \in [Sides -> Nat]
  BY DEF IInv, TypeOK
<1>4. \A r \in Sides : vault'[r] \in Nat /\ vault'[r] >= vault[r] /\ OwedFees(r)' = OwedFees(r)
  BY <1>1, <1>2, <1>3 DEF OwedFees
<1>5. TypeOK'
  BY <1>1, <1>2, <1>3 DEF IInv, TypeOK, ValidConfig, registries
<1>6. \A r \in Sides : Net(r)' \in Nat /\ Net(r)' >= Net(r) /\ Net(r) > 0 /\ Net(r) \in Nat
  <2>1. \A r \in Sides : Net(r)' = vault'[r] - OwedFees(r)'
    BY DEF Net, OwedFees
  <2> QED BY <1>1, <1>4, <2>1, OpenPool
<1>7. Net(0)' * Net(1)' >= Net(0) * Net(1)
  <2>1. Net(0)' \in Nat /\ Net(1)' \in Nat /\ Net(0) \in Nat /\ Net(1) \in Nat
        /\ Net(0) <= Net(0)' /\ Net(1) <= Net(1)'
    BY <1>6 DEF Sides
  <2>2. Net(0) * Net(1) <= Net(0)' * Net(1)'
    BY <2>1, TimesMonotone
  <2> QED BY <2>1, <2>2
<1>8. CollectionStep
  BY <1>1, <1>4, OpenPool DEF CollectionStep
<1>9. created' /\ lpSupply' = lpSupply /\ lpMinted' <= lpMinted
  BY <1>1, OpenPool
<1>10. \A r \in Sides : Net(r)' \in Nat /\ Net(r)' > 0
  BY <1>6
<1> QED BY <1>1, <1>5, <1>7, <1>8, <1>9, <1>10, GoodSameSupply

----------------------------------------------------------------------------
(* Administration, and the whole next-state relation *)

\* A step that leaves the balances, the fees and the LP tokens alone is good.
LEMMA GoodUntouched ==
  ASSUME IInv, TypeOK', UNCHANGED <<created, vault, fees, lpSupply, lpMinted>>
  PROVE  Good
<1>1. \A s \in Sides : OwedFees(s)' = OwedFees(s) /\ Net(s)' = Net(s) /\ vault'[s] = vault[s]
  BY DEF OwedFees, Net, fees
<1>2. IInv'
  BY <1>1 DEF IInv, PoolSolvent, LiquidityLocked, NothingBeforeCreation
<1>3. SharesStep
  BY DEF SharesStep
<1>4. ValueStep
  <2>1. CASE ~created
    BY <2>1 DEF ValueStep
  <2>2. CASE created
    <3>1. 0 \in Sides /\ 1 \in Sides
      BY DEF Sides
    <3>2. /\ Net(0)' = Net(0) /\ Net(1)' = Net(1) /\ lpSupply' = lpSupply
          /\ Net(0) \in Nat /\ Net(1) \in Nat /\ lpSupply \in Nat
      BY <1>1, <2>2, <3>1, OpenPool
    <3>3. Net(0) * Net(1) * lpSupply * lpSupply \in Int
      BY <3>2
    <3>4. Net(0)' * Net(1)' * lpSupply * lpSupply = Net(0) * Net(1) * lpSupply' * lpSupply'
      BY <3>2
    <3> QED BY <3>2, <3>3, <3>4 DEF ValueStep
  <2> QED BY <2>1, <2>2
<1>5. CollectionStep
  <2>1. \A s \in Sides : OwedFees(s) \in Nat
    BY DEF IInv, TypeOK, OwedFees
  <2> QED BY <1>1, <2>1 DEF CollectionStep
<1> QED BY <1>2, <1>3, <1>4, <1>5 DEF Good

LEMMA OpenTimePassesGood ==
  ASSUME IInv, OpenTimePasses
  PROVE  Good
<1>1. TypeOK' /\ UNCHANGED <<created, vault, fees, lpSupply, lpMinted>>
  BY DEF OpenTimePasses, IInv, TypeOK, ValidConfig, registries, admin, modes, fees
<1> QED BY <1>1, GoodUntouched

LEMMA AdministrationGood ==
  ASSUME IInv, Administration
  PROVE  Good
<1>1. ASSUME NEW status \in SUBSET Operations, UpdatePoolStatus(status)
      PROVE  Good
  <2>1. TypeOK' /\ UNCHANGED <<created, vault, fees, lpSupply, lpMinted>>
    BY <1>1 DEF UpdatePoolStatus, IInv, TypeOK, ValidConfig, registries, modes, fees
  <2> QED BY <2>1, GoodUntouched
<1>2. ASSUME NEW name \in RateNames, NEW rate \in Rates[name], UpdateRate(name, rate)
      PROVE  Good
  <2>1. rate \in Nat
    BY <1>2, PoolAssumption
  <2>2. config' \in [RateNames -> Nat] /\ ValidConfig(config')
    BY <1>2, <2>1 DEF UpdateRate, IInv, TypeOK
  <2>3. UNCHANGED <<creationOff, registries, disabled, created, creatorFeeOn, enableCreatorFee, opened,
                    vault, fees, lpSupply, lpMinted>>
    BY <1>2 DEF UpdateRate, modes
  <2>4. TypeOK'
    BY <2>2, <2>3 DEF IInv, TypeOK, ValidConfig, registries, fees
  <2> QED BY <2>3, <2>4, GoodUntouched
<1>3. ASSUME NEW off \in BOOLEAN, DisableCreatePool(off)
      PROVE  Good
  <2>1. TypeOK' /\ UNCHANGED <<created, vault, fees, lpSupply, lpMinted>>
    BY <1>3 DEF DisableCreatePool, IInv, TypeOK, ValidConfig, registries, modes, fees
  <2> QED BY <2>1, GoodUntouched
<1>4. ASSUME CreatePermission \/ ClosePermission
      PROVE  Good
  <2>1. TypeOK' /\ UNCHANGED <<created, vault, fees, lpSupply, lpMinted>>
    BY <1>4 DEF CreatePermission, ClosePermission, IInv, TypeOK, ValidConfig, modes, fees
  <2> QED BY <2>1, GoodUntouched
<1>5. ASSUME NEW s \in Unlisted, CreateSupportMint(s) \/ CloseSupportMint(s)
      PROVE  Good
  <2>1. supported' \subseteq Unlisted
    BY <1>5 DEF CreateSupportMint, CloseSupportMint, IInv, TypeOK
  <2>2. UNCHANGED <<config, creationOff, permission, disabled, modes, opened, vault, fees,
                    lpSupply, lpMinted>>
    BY <1>5 DEF CreateSupportMint, CloseSupportMint
  <2>3. TypeOK' /\ UNCHANGED <<created, vault, fees, lpSupply, lpMinted>>
    BY <2>1, <2>2 DEF IInv, TypeOK, ValidConfig, modes, fees
  <2> QED BY <2>3, GoodUntouched
<1> QED BY <1>1, <1>2, <1>3, <1>4, <1>5 DEF Administration

LEMMA BurnLpGood ==
  ASSUME IInv, NEW amount \in Nat, BurnLp(amount)
  PROVE  Good
<1>1. /\ created /\ amount <= lpMinted /\ lpMinted' = lpMinted - amount
      /\ UNCHANGED <<config, creationOff, registries, disabled, created, creatorFeeOn, enableCreatorFee,
                     opened, vault, protocolFees, fundFees, creatorFees, lpSupply>>
  BY DEF BurnLp, admin, modes, fees
<1>2. lpMinted \in Nat /\ lpMinted' \in Nat /\ lpMinted' <= lpMinted
  BY <1>1, OpenPool
<1>3. TypeOK'
  BY <1>1, <1>2 DEF IInv, TypeOK, ValidConfig, registries
<1>4. \A s \in Sides : Net(s)' = Net(s) /\ OwedFees(s)' = OwedFees(s)
  BY <1>1 DEF Net, OwedFees
<1>5. \A s \in Sides : Net(s)' \in Nat /\ Net(s)' > 0
  BY <1>1, <1>4, OpenPool
<1>6. Net(0)' * Net(1)' >= Net(0) * Net(1)
  BY <1>1, <1>4, OpenPool DEF Sides
<1>7. CollectionStep
  BY <1>1, <1>4, OpenPool DEF CollectionStep
<1> QED BY <1>1, <1>2, <1>3, <1>5, <1>6, <1>7, GoodSameSupply

LEMMA CreationGood ==
  ASSUME IInv, Creation
  PROVE  Good
<1>0. Tokens[0] \in Nat /\ Tokens[1] \in Nat
  BY PoolAssumption DEF Sides
<1>1. PICK a0 \in 1..Tokens[0], a1 \in 1..Tokens[1], liquidity \in 1..(Tokens[0] + Tokens[1]) :
        LET amounts == [s \in Sides |-> IF s = 0 THEN a0 ELSE a1]
        IN  \/ Initialize(amounts, liquidity)
            \/ \E feeOn \in {Sides, {0}, {1}} :
                 InitializeWithPermission(amounts, feeOn, liquidity)
  BY DEF Creation
<1> DEFINE amounts == [s \in Sides |-> IF s = 0 THEN a0 ELSE a1]
<1>2. amounts \in [Sides -> Nat] /\ liquidity \in Nat
  BY <1>0
<1>3. \E feeOn \in {Sides, {0}, {1}}, enable \in BOOLEAN :
        CreatePool(amounts, feeOn, enable, liquidity)
  BY <1>1 DEF Initialize, InitializeWithPermission
<1> HIDE DEF amounts
<1> QED BY <1>2, <1>3, CreatePoolGood

LEMMA NextGood ==
  ASSUME IInv, Next
  PROVE  Good
<1>0. /\ Tokens[0] \in Nat /\ Tokens[1] \in Nat /\ MaxLp \in Nat
      /\ \A s \in Sides : Tokens[s] \in Nat /\ Tokens[Other(s)] \in Nat
  BY PoolAssumption DEF Sides, Other
<1>1. CASE Liquidity
  <2>1. lpMinted \in Nat
    BY DEF IInv, TypeOK
  <2> QED BY <1>0, <1>1, <2>1, DepositGood, WithdrawGood, BurnLpGood DEF Liquidity
<1>2. CASE Trading
  BY <1>0, <1>2, SwapBaseInputExchanges, SwapBaseOutputExchanges, ExchangeGood,
     SendToVaultGood DEF Trading
<1>3. CASE Collection
  <2>1. ASSUME NEW r0 \in 0..Tokens[0], NEW r1 \in 0..Tokens[1]
        PROVE  [s \in Sides |-> IF s = 0 THEN r0 ELSE r1] \in [Sides -> Nat]
    BY <1>0
  <2> QED BY <1>3, <2>1, CollectProtocolFeeGood, CollectFundFeeGood, CollectCreatorFeeGood
          DEF Collection
<1> QED BY <1>1, <1>2, <1>3, CreationGood, OpenTimePassesGood, AdministrationGood DEF Next

LEMMA StutterGood ==
  ASSUME IInv, UNCHANGED vars
  PROVE  Good
<1>1. TypeOK' /\ UNCHANGED <<created, vault, fees, lpSupply, lpMinted>>
  BY DEF vars, IInv, TypeOK, ValidConfig, registries, admin, modes, fees
<1> QED BY <1>1, GoodUntouched

LEMMA InitIInv ==
  ASSUME Init
  PROVE  IInv
<1>1. config \in [RateNames -> Nat] /\ ValidConfig(config)
  BY PoolAssumption DEF Init
<1>2. \A s \in Sides : vault[s] = 0 /\ OwedFees(s) = 0
  BY DEF Init, OwedFees
<1>3. /\ vault \in [Sides -> Nat] /\ protocolFees \in [Sides -> Nat]
      /\ fundFees \in [Sides -> Nat] /\ creatorFees \in [Sides -> Nat]
  BY DEF Init
<1>4. TypeOK
  BY <1>1, <1>3 DEF Init, TypeOK, Operations
<1>5. PoolSolvent /\ LiquidityLocked /\ NothingBeforeCreation
  BY <1>2 DEF Init, PoolSolvent, LiquidityLocked, NothingBeforeCreation
<1> QED BY <1>4, <1>5 DEF IInv

----------------------------------------------------------------------------
(* Tokens *)

\* No vault holds more tokens than exist.
TokensExist == \A s \in Sides : vault[s] <= Tokens[s]

LEMMA ExchangeTakesHeld ==
  ASSUME IInv, created, TokensExist, NEW s \in Sides, NEW q,
         Accounted(q, IsCreatorFeeOnInput(s), Net(Other(s))), q.input <= Held(s),
         Exchange(s, q)
  PROVE  TokensExist'
<1> DEFINE out == Other(s)
           input == q.input
           output == q.output
<1>1. out \in Sides /\ out # s /\ \A side \in Sides : side = s \/ side = out
  BY OtherSide
<1>2. /\ vault \in [Sides -> Nat] /\ \A side \in Sides : Tokens[side] \in Nat
      /\ vault' = [vault EXCEPT ![s] = @ + input, ![out] = @ - output]
  BY PoolAssumption DEF Exchange, IInv, TypeOK
<1>3. input \in Nat /\ output \in Nat /\ input <= Held(s)
  BY DEF Accounted
<1> HIDE DEF out, input, output
<1>4. vault'[s] = vault[s] + input /\ vault'[out] = vault[out] - output
  BY <1>1, <1>2
<1>5. vault'[s] <= Tokens[s]
  BY <1>2, <1>3, <1>4 DEF Held
<1>6. vault'[out] <= Tokens[out]
  BY <1>1, <1>2, <1>3, <1>4 DEF TokensExist
<1> QED BY <1>1, <1>5, <1>6 DEF TokensExist

LEMMA SwapsTakeHeld ==
  ASSUME IInv, TokensExist, NEW s \in Sides, NEW amount \in Nat, NEW limit,
         SwapBaseInput(s, amount, limit) \/ SwapBaseOutput(s, limit, amount)
  PROVE  TokensExist'
<1>0. /\ Other(s) \in Sides /\ IsCreatorFeeOnInput(s) \in BOOLEAN
  BY OtherSide DEF IsCreatorFeeOnInput
<1>1. CASE SwapBaseInput(s, amount, limit)
  <2> DEFINE actual == Received(s, amount)
             q == QuoteInput(IsCreatorFeeOnInput(s), actual, Net(s), Net(Other(s)),
                             config.trade, CreatorRate)
  <2>1. created /\ Priced(s) /\ amount <= Held(s) /\ Exchange(s, q)
    BY <1>1 DEF SwapBaseInput, SwapOpen
  <2>2. actual \in Nat /\ actual <= amount
    BY ReceivedBounds
  <2>3. Net(s) \in Nat /\ Net(s) > 0 /\ Net(Other(s)) \in Nat /\ Net(Other(s)) > 0
    BY <1>0, <2>1, OpenPool
  <2>4. Accounted(q, IsCreatorFeeOnInput(s), Net(Other(s)))
    BY <1>0, <2>1, <2>2, <2>3, RatesBelowDenominator, QuoteInputAccounted DEF Priced
  <2>5. q.input = actual
    BY DEF QuoteInput, QuoteInputFeeIn, QuoteInputFeeOut, Quote
  <2>6. Held(s) \in Int
    BY <2>1, OpenPool, PoolAssumption DEF Held
  <2> HIDE DEF q, actual
  <2>7. q.input <= Held(s)
    BY <2>1, <2>2, <2>5, <2>6
  <2> QED BY <2>1, <2>4, <2>7, ExchangeTakesHeld
<1>2. CASE SwapBaseOutput(s, limit, amount)
  <2> DEFINE Q(output) ==
               QuoteOutput(IsCreatorFeeOnInput(s), output, Net(s), Net(Other(s)),
                           config.trade, CreatorRate)
  <2>1. PICK output \in SentFor(Other(s), amount) :
          /\ created /\ Priced(s)
          /\ DrawnFor(IsCreatorFeeOnInput(s), output, CreatorRate) < Net(Other(s))
          /\ \E sent \in SentFor(s, Q(output).input) : sent <= Held(s)
          /\ Exchange(s, Q(output))
    BY <1>2 DEF SwapBaseOutput, SwapOpen
  <2>2. output \in Nat
    BY <2>1 DEF SentFor
  <2>3. Net(s) \in Nat /\ Net(Other(s)) \in Nat
    BY <1>0, <2>1, OpenPool
  <2>4. Accounted(Q(output), IsCreatorFeeOnInput(s), Net(Other(s)))
    BY <1>0, <2>1, <2>2, <2>3, RatesBelowDenominator, QuoteOutputAccounted DEF Priced
  <2> DEFINE input == Q(output).input
  <2>5. input \in Nat
    BY <2>4 DEF Accounted
  <2>6. Held(s) \in Int
    BY <2>1, OpenPool, PoolAssumption DEF Held
  <2>7. Exchange(s, Q(output)) /\ \E sent \in SentFor(s, input) : sent <= Held(s)
    BY <2>1
  <2> HIDE DEF input
  <2>8. input <= Held(s)
    BY <2>5, <2>6, <2>7 DEF SentFor
  <2> QED BY <2>1, <2>4, <2>8, ExchangeTakesHeld DEF input
<1> QED BY <1>1, <1>2

\* Nor do the other instructions take what nobody holds.
LEMMA LiquidityTakesHeld ==
  ASSUME IInv, TokensExist, NEW lp \in Nat, NEW limits,
         Deposit(lp, limits) \/ Withdraw(lp, limits)
  PROVE  TokensExist'
<1>0. created
  BY DEF Deposit, Withdraw
<1>1. /\ \A s \in Sides : Tokens[s] \in Nat /\ vault[s] \in Nat /\ lp * Net(s) \in Nat
      /\ lpSupply \in Nat /\ lpSupply > 0
  BY <1>0, OpenPool, PoolAssumption
<1>2. CASE Deposit(lp, limits)
  <2> DEFINE amount(s) == LpToDeposit(lp, lpSupply, Net(s))
  <2>1. /\ vault' = [s \in Sides |-> vault[s] + amount(s)]
        /\ \A s \in Sides : \E sent \in SentFor(s, amount(s)) : sent <= Held(s)
    BY <1>2 DEF Deposit
  <2>2. \A s \in Sides : amount(s) \in Nat
    BY <1>1, CeilDivBounds DEF LpToDeposit
  <2> HIDE DEF amount
  <2>3. \A s \in Sides : amount(s) <= Held(s)
    BY <1>1, <2>1, <2>2 DEF SentFor, Held
  <2> QED BY <1>1, <2>1, <2>2, <2>3 DEF TokensExist, Held
<1>3. CASE Withdraw(lp, limits)
  <2> DEFINE amount(s) == LpToWithdraw(lp, lpSupply, Net(s))
  <2>1. vault' = [s \in Sides |-> vault[s] - amount(s)]
    BY <1>3 DEF Withdraw
  <2>2. \A s \in Sides : amount(s) \in Nat
    BY <1>1, FloorDivBounds DEF LpToWithdraw
  <2> HIDE DEF amount
  <2> QED BY <1>1, <2>1, <2>2 DEF TokensExist
<1> QED BY <1>2, <1>3

LEMMA CreationTakesHeld ==
  ASSUME IInv, TokensExist, NEW amounts \in [Sides -> Nat], NEW feeOn, NEW enable,
         NEW liquidity, CreatePool(amounts, feeOn, enable, liquidity)
  PROVE  TokensExist'
<1>1. \A s \in Sides : /\ Tokens[s] \in Nat /\ vault[s] \in Nat /\ amounts[s] <= Held(s)
                       /\ vault'[s] = Received(s, amounts[s])
  BY PoolAssumption DEF CreatePool, IInv, TypeOK
<1> QED BY <1>1, ReceivedBounds DEF TokensExist, Held

LEMMA CollectionTakesHeld ==
  ASSUME IInv, TokensExist, NEW requested \in [Sides -> Nat],
         CollectProtocolFee(requested) \/ CollectFundFee(requested) \/ CollectCreatorFee
  PROVE  TokensExist'
<1>1. /\ \A s \in Sides : Tokens[s] \in Nat /\ vault[s] \in Nat
      /\ protocolFees \in [Sides -> Nat] /\ fundFees \in [Sides -> Nat]
      /\ creatorFees \in [Sides -> Nat]
  BY PoolAssumption DEF IInv, TypeOK
<1>2. \E amounts \in [Sides -> Nat] : vault' = [s \in Sides |-> vault[s] - amounts[s]]
  BY <1>1, LesserBounds DEF CollectProtocolFee, CollectFundFee, CollectCreatorFee
<1> QED BY <1>1, <1>2 DEF TokensExist

LEMMA NextTakesHeld ==
  ASSUME IInv, TokensExist, Next
  PROVE  TokensExist'
<1>0. /\ Tokens[0] \in Nat /\ Tokens[1] \in Nat /\ MaxLp \in Nat /\ lpMinted \in Nat
      /\ \A s \in Sides : /\ Tokens[s] \in Nat /\ Tokens[Other(s)] \in Nat
                          /\ vault \in [Sides -> Nat]
  BY PoolAssumption DEF Sides, Other, IInv, TypeOK
<1>1. ASSUME NEW a0 \in 0..Tokens[0], NEW a1 \in 0..Tokens[1]
      PROVE  [s \in Sides |-> IF s = 0 THEN a0 ELSE a1] \in [Sides -> Nat]
  BY <1>0
<1>2. CASE Creation
  <2>1. PICK a0 \in 1..Tokens[0], a1 \in 1..Tokens[1], liquidity \in 1..(Tokens[0] + Tokens[1]) :
          LET amounts == [s \in Sides |-> IF s = 0 THEN a0 ELSE a1]
          IN  \/ Initialize(amounts, liquidity)
              \/ \E feeOn \in {Sides, {0}, {1}} :
                   InitializeWithPermission(amounts, feeOn, liquidity)
    BY <1>2 DEF Creation
  <2> DEFINE amounts == [s \in Sides |-> IF s = 0 THEN a0 ELSE a1]
  <2>2. \E feeOn, enable : CreatePool(amounts, feeOn, enable, liquidity)
    BY <2>1 DEF Initialize, InitializeWithPermission
  <2>3. amounts \in [Sides -> Nat]
    BY <1>1
  <2> HIDE DEF amounts
  <2> QED BY <2>2, <2>3, CreationTakesHeld
<1>3. ASSUME NEW s \in Sides, NEW amount \in Nat, SendToVault(s, amount)
      PROVE  TokensExist'
  <2>1. Received(s, amount) \in 0..amount
    BY ReceivedBounds
  <2>2. \A side \in Sides : vault'[side] = IF side = s THEN vault[side] + Received(s, amount)
                                           ELSE vault[side]
    BY <1>0, <1>3 DEF SendToVault
  <2>3. amount <= Tokens[s] - vault[s]
    BY <1>3 DEF SendToVault, Held
  <2> QED BY <1>0, <2>1, <2>2, <2>3 DEF TokensExist
<1>4. CASE Trading
  BY <1>0, <1>3, <1>4, SwapsTakeHeld DEF Trading
<1>5. CASE Liquidity
  <2>1. CASE \E amount \in 1..lpMinted : BurnLp(amount)
    BY <2>1 DEF BurnLp, TokensExist
  <2> QED BY <1>0, <1>5, <2>1, LiquidityTakesHeld DEF Liquidity
<1>6. CASE Collection
  <2>1. [s \in Sides |-> 0] \in [Sides -> Nat]
    OBVIOUS
  <2>2. \E requested \in [Sides -> Nat] :
          CollectProtocolFee(requested) \/ CollectFundFee(requested) \/ CollectCreatorFee
    BY <1>1, <1>6, <2>1 DEF Collection
  <2> QED BY <2>2, CollectionTakesHeld
<1>7. CASE OpenTimePasses \/ Administration
  <2>1. UNCHANGED vault
    BY <1>7 DEF OpenTimePasses, Administration, UpdatePoolStatus, UpdateRate, DisableCreatePool,
       CreatePermission, ClosePermission, CreateSupportMint, CloseSupportMint
  <2> QED BY <2>1 DEF TokensExist
<1> QED BY <1>2, <1>4, <1>5, <1>6, <1>7 DEF Next

----------------------------------------------------------------------------
(* Theorems *)

\* The inductive invariant, and that every step is good.
THEOREM PoolInvariant == Spec => []IInv
<1>1. Init => IInv
  BY InitIInv
<1>2. IInv /\ [Next]_vars => IInv'
  BY NextGood, StutterGood DEF Good
<1> QED BY <1>1, <1>2, PTL DEF Spec

\* Configurations stay within the assertions of lib.rs, and the accounts keep
\* their shape.
THEOREM PoolTypeCorrect == Spec => []TypeOK
<1>1. IInv => TypeOK
  BY DEF IInv
<1> QED BY <1>1, PoolInvariant, PTL

\* Every vault always holds the fees it owes and some liquidity besides.
THEOREM AlwaysSolvent == Spec => []PoolSolvent
<1>1. IInv => PoolSolvent
  BY DEF IInv
<1> QED BY <1>1, PoolInvariant, PTL

\* The LP tokens that exist never reach the locked part of the supply.
THEOREM AlwaysLocked == Spec => []LiquidityLocked
<1>1. IInv => LiquidityLocked
  BY DEF IInv
<1> QED BY <1>1, PoolInvariant, PTL

\* Deposits and withdrawals never lower the share of those who stay.
THEOREM SharesAreKept == Spec => LiquidityKeepsShares
<1>1. IInv /\ [Next]_vars => [SharesStep]_vars
  BY NextGood DEF Good
<1>2. Spec => [][SharesStep]_vars
  BY <1>1, PoolInvariant, PTL DEF Spec
<1> QED BY <1>2 DEF LiquidityKeepsShares, SharesStep

\* No step of anybody lowers the value of an LP token.
THEOREM LpValueIsKept == Spec => LpValueNeverFalls
<1>1. IInv /\ [Next]_vars => [ValueStep]_vars
  BY NextGood DEF Good
<1>2. Spec => [][ValueStep]_vars
  BY <1>1, PoolInvariant, PTL DEF Spec
<1> QED BY <1>2 DEF LpValueNeverFalls, ValueStep

\* A pool stays a pool.
LEMMA CreatedStays ==
  ASSUME created, [Next]_vars
  PROVE  created'
<1>1. CASE Creation
  BY <1>1 DEF Creation, Initialize, InitializeWithPermission, CreatePool
<1>2. CASE OpenTimePasses \/ Administration
  BY <1>2 DEF OpenTimePasses, Administration, UpdatePoolStatus, UpdateRate, DisableCreatePool,
     CreatePermission, ClosePermission, CreateSupportMint, CloseSupportMint, modes
<1>3. CASE Liquidity
  BY <1>3 DEF Liquidity, Deposit, Withdraw, BurnLp, modes
<1>4. CASE Trading
  <2>1. ASSUME NEW s, NEW q, Exchange(s, q)
        PROVE  created' = created
    BY <2>1 DEF Exchange, modes
  <2>2. ASSUME NEW s, NEW amount, NEW limit,
               SwapBaseInput(s, amount, limit) \/ SwapBaseOutput(s, limit, amount)
        PROVE  created'
    <3>1. \E q : Exchange(s, q)
      BY <2>2 DEF SwapBaseInput, SwapBaseOutput
    <3> QED BY <2>1, <3>1
  <2>3. ASSUME NEW s, NEW amount, SendToVault(s, amount)
        PROVE  created'
    BY <2>3 DEF SendToVault, modes
  <2> QED BY <1>4, <2>2, <2>3 DEF Trading
<1>5. CASE Collection
  BY <1>5 DEF Collection, CollectProtocolFee, CollectFundFee, CollectCreatorFee, modes
<1>6. CASE UNCHANGED vars
  BY <1>6 DEF vars, modes
<1> QED BY <1>1, <1>2, <1>3, <1>4, <1>5, <1>6 DEF Next

\* A product of reserves P for a supply S that is worth at least k / l, and one Q
\* for T that is worth no less than it.
LEMMA WorthCarries ==
  ASSUME NEW P \in Nat, NEW S \in Nat, NEW Q \in Nat, NEW T \in Nat,
         NEW k \in Nat, NEW l \in Nat,
         S > 0, P * l >= k * S * S, Q * S * S >= P * T * T
  PROVE  Q * l >= k * T * T
<1> DEFINE square == S * S
           later == T * T
<1>1. square \in Nat /\ square > 0 /\ later \in Nat
  OBVIOUS
<1>2. P * l >= k * square /\ Q * square >= P * later
  <2>1. k * S * S = k * square /\ Q * S * S = Q * square /\ P * T * T = P * later
    OBVIOUS
  <2> QED BY <2>1
<1> HIDE DEF square, later
<1>3. /\ P * l \in Nat /\ k * square \in Nat /\ Q * square \in Nat /\ P * later \in Nat
      /\ Q * l \in Nat /\ k * later \in Nat
  BY <1>1
<1>4. (P * later) * l <= (Q * square) * l
  BY <1>2, <1>3, TimesLeq
<1>5. (k * square) * later <= (P * l) * later
  BY <1>1, <1>2, <1>3, TimesLeq
<1>6. /\ (P * later) * l = (P * l) * later
      /\ (Q * square) * l = (Q * l) * square
      /\ (k * square) * later = (k * later) * square
  BY <1>1
<1>7. (k * later) * square <= (Q * l) * square
  <2>1. /\ (P * later) * l \in Nat /\ (Q * square) * l \in Nat /\ (k * square) * later \in Nat
    BY <1>1, <1>3
  <2> QED BY <1>4, <1>5, <1>6, <2>1
<1>8. k * later <= Q * l
  BY <1>1, <1>3, <1>7, CancelLeq
<1>9. k * T * T = k * later
  BY DEF later
<1> QED BY <1>3, <1>8, <1>9

\* An LP token is worth k / l: the product of its shares of the two reserves.
LpWorth(k, l) == created /\ Net(0) * Net(1) * l >= k * lpSupply * lpSupply

\* Over a whole life of the pool, and not only from one step to the next, what an
\* LP token was once worth it is worth for ever, whatever deposits, withdrawals,
\* swaps, collections of fees and changes by the admin come in between.
THEOREM LpWorthIsKeptForEver ==
  ASSUME NEW CONSTANT k \in Nat, NEW CONSTANT l \in Nat
  PROVE  Spec => [](LpWorth(k, l) => []LpWorth(k, l))
<1>1. IInv /\ IInv' /\ [ValueStep]_vars /\ LpWorth(k, l) /\ [Next]_vars => LpWorth(k, l)'
  <2> SUFFICES ASSUME IInv, IInv', [ValueStep]_vars, LpWorth(k, l), [Next]_vars
               PROVE  LpWorth(k, l)'
    OBVIOUS
  <2>1. created /\ created'
    BY CreatedStays DEF LpWorth
  <2>2. 0 \in Sides /\ 1 \in Sides
    BY DEF Sides
  <2>3. /\ Net(0) \in Nat /\ Net(1) \in Nat /\ lpSupply \in Nat /\ lpSupply > 0
        /\ Net(0)' \in Nat /\ Net(1)' \in Nat /\ lpSupply' \in Nat
    <3>1. Net(0) \in Nat /\ Net(1) \in Nat /\ lpSupply \in Nat /\ lpSupply > 0
      BY <2>1, <2>2, OpenPool
    <3>2. \A s \in Sides : OwedFees(s)' \in Nat /\ OwedFees(s)' < vault'[s] /\ vault'[s] \in Nat
      BY <2>1 DEF IInv, TypeOK, PoolSolvent, OwedFees
    <3>3. Net(0)' \in Nat /\ Net(1)' \in Nat /\ lpSupply' \in Nat
      BY <2>2, <3>2 DEF Net, IInv, TypeOK
    <3> QED BY <3>1, <3>3
  <2> DEFINE P == Net(0) * Net(1)
             Q == Net(0)' * Net(1)'
  <2>4. P \in Nat /\ Q \in Nat
    BY <2>3
  <2>5. CASE UNCHANGED vars
    BY <2>5 DEF LpWorth, Net, OwedFees, vars, modes, fees
  <2>6. CASE ValueStep
    <3>1. Q * lpSupply * lpSupply >= P * lpSupply' * lpSupply'
      BY <2>1, <2>6 DEF ValueStep
    <3>2. P * l >= k * lpSupply * lpSupply
      BY DEF LpWorth
    <3> HIDE DEF P, Q
    <3>3. Q * l >= k * lpSupply' * lpSupply'
      BY <2>3, <2>4, <3>1, <3>2, WorthCarries
    <3> QED BY <2>1, <3>3 DEF LpWorth, Q
  <2> QED BY <2>5, <2>6
<1>2. Spec => [][ValueStep]_vars
  <2>1. IInv /\ [Next]_vars => [ValueStep]_vars
    BY NextGood DEF Good
  <2> QED BY <2>1, PoolInvariant, PTL DEF Spec
<1> QED BY <1>1, <1>2, PoolInvariant, PTL DEF Spec

\* What it costs to add `lp` to the liquidity, and what it brings to take it out,
\* of side s in the current state.
CostOf(lp, s) == LpToDeposit(lp, lpSupply, Net(s))
WorthOf(lp, s) == LpToWithdraw(lp, lpSupply, Net(s))

\* A deposit that is withdrawn at once brings back no more of either token than
\* it cost, for every amount.
THEOREM LiquidityRoundTripNeverPays ==
  Spec => [](created => \A s \in Sides : \A lp \in Nat :
               CostOf(lp, s) > 0
                 => LpToWithdraw(lp, lpSupply + lp, Net(s) + CostOf(lp, s)) <= CostOf(lp, s))
<1>1. ASSUME IInv, created, NEW s \in Sides, NEW lp \in Nat, CostOf(lp, s) > 0
      PROVE  LpToWithdraw(lp, lpSupply + lp, Net(s) + CostOf(lp, s)) <= CostOf(lp, s)
  <2>1. Net(s) \in Nat /\ lpSupply \in Nat /\ lpSupply > 0
    BY <1>1, OpenPool
  <2> QED BY <1>1, <2>1, DepositThenWithdraw DEF CostOf
<1>2. IInv => (created => \A s \in Sides : \A lp \in Nat :
                 CostOf(lp, s) > 0
                   => LpToWithdraw(lp, lpSupply + lp, Net(s) + CostOf(lp, s)) <= CostOf(lp, s))
  BY <1>1
<1> QED BY <1>2, PoolInvariant, PTL

\* Adding k and then l of liquidity costs at least what adding both costs: the
\* second part is priced after the rounding of the first.
AddingInParts(k, l, s) ==
  LET second == LpToDeposit(l, lpSupply + k, Net(s) + CostOf(k, s))
  IN  CostOf(k, s) > 0 /\ second > 0 => CostOf(k + l, s) <= CostOf(k, s) + second

\* Taking k and then l out brings at most what taking both out brings.
TakingInParts(k, l, s) ==
  k + l <= lpMinted
    => WorthOf(k, s) + LpToWithdraw(l, lpSupply - k, Net(s) - WorthOf(k, s)) <= WorthOf(k + l, s)

\* Nor is there a gain in adding or in taking liquidity in two parts.
THEOREM LiquidityInPartsNeverPays ==
  Spec => [](created => \A s \in Sides : \A k, l \in Nat :
               AddingInParts(k, l, s) /\ TakingInParts(k, l, s))
<1>1. ASSUME IInv, created, NEW s \in Sides, NEW k \in Nat, NEW l \in Nat
      PROVE  AddingInParts(k, l, s) /\ TakingInParts(k, l, s)
  <2>1. /\ Net(s) \in Nat /\ lpSupply \in Nat /\ lpSupply > 0 /\ lpMinted \in Nat
        /\ lpMinted < lpSupply
    BY <1>1, OpenPool
  <2>2. AddingInParts(k, l, s)
    BY <2>1, DepositInParts DEF AddingInParts, CostOf
  <2>3. TakingInParts(k, l, s)
    <3>1. ASSUME k + l <= lpMinted PROVE k + l < lpSupply
      BY <2>1, <3>1
    <3> QED BY <2>1, <3>1, WithdrawInParts DEF TakingInParts, WorthOf
  <2> QED BY <2>2, <2>3
<1>2. IInv => (created => \A s \in Sides : \A k, l \in Nat :
                 AddingInParts(k, l, s) /\ TakingInParts(k, l, s))
  BY <1>1
<1> QED BY <1>2, PoolInvariant, PTL

\* Fees are paid out of what is owed to their receiver and nothing else.
THEOREM FeesComeFromFees == Spec => CollectionTakesOnlyFees
<1>1. IInv /\ [Next]_vars => [CollectionStep]_vars
  BY NextGood DEF Good
<1>2. Spec => [][CollectionStep]_vars
  BY <1>1, PoolInvariant, PTL DEF Spec
<1> QED BY <1>2 DEF CollectionTakesOnlyFees, CollectionStep

\* The exact-output swap asks enough for what it gives, at every configuration
\* and every state of the pool.
THEOREM ExactOutputPaid == Spec => []ExactOutputIsPaidFor
<1>1. ASSUME IInv
      PROVE  ExactOutputIsPaidFor
  <2> SUFFICES ASSUME created, NEW s \in Sides, NEW amount \in 1..vault[Other(s)],
                      Priced(s),
                      DrawnFor(IsCreatorFeeOnInput(s), amount, CreatorRate) < Net(Other(s))
               PROVE  QuoteInput(IsCreatorFeeOnInput(s),
                        QuoteOutput(IsCreatorFeeOnInput(s), amount, Net(s), Net(Other(s)),
                                    config.trade, CreatorRate).input,
                        Net(s), Net(Other(s)), config.trade, CreatorRate).output >= amount
    BY DEF ExactOutputIsPaidFor
  <2>1. Other(s) \in Sides
    BY DEF Sides, Other
  <2>2. /\ Net(s) \in Nat /\ Net(s) > 0 /\ Net(Other(s)) \in Nat /\ vault[Other(s)] \in Nat
    BY <1>1, <2>1, OpenPool
  <2>3. amount \in Nat /\ IsCreatorFeeOnInput(s) \in BOOLEAN
    BY <2>2 DEF IsCreatorFeeOnInput
  <2> QED BY <1>1, <2>2, <2>3, RatesBelowDenominator, QuoteOutputSuffices
<1> QED BY <1>1, PoolInvariant, PTL

\* ... and no more than it must: a smaller input brings less.
THEOREM ExactOutputIsCheapest == Spec => []ExactOutputCostsLeast
<1>1. ASSUME IInv
      PROVE  ExactOutputCostsLeast
  <2> DEFINE Asked(s, amount) == QuoteOutput(IsCreatorFeeOnInput(s), amount, Net(s),
                                   Net(Other(s)), config.trade, CreatorRate).input
             Given(s, less) == QuoteInput(IsCreatorFeeOnInput(s), less, Net(s), Net(Other(s)),
                                          config.trade, CreatorRate).output
  <2>1. ASSUME created, NEW s \in Sides, NEW amount \in 1..vault[Other(s)],
               DrawnFor(IsCreatorFeeOnInput(s), amount, CreatorRate) < Net(Other(s)),
               NEW less \in 0..(Asked(s, amount) - 1)
        PROVE  Given(s, less) < amount
    <3> DEFINE onInput == IsCreatorFeeOnInput(s)
               x == Net(s)
               y == Net(Other(s))
               t == config.trade
               c == CreatorRate
    <3>1. Other(s) \in Sides
      BY DEF Sides, Other
    <3>2. /\ x \in Nat /\ x > 0 /\ y \in Nat /\ y > 0 /\ vault[Other(s)] \in Nat
          /\ t \in Nat /\ c \in Nat /\ t + c < Denominator
      BY <1>1, <2>1, <3>1, OpenPool, RatesBelowDenominator
    <3>3. amount \in Nat /\ onInput \in BOOLEAN /\ DrawnFor(onInput, amount, c) < y
      BY <2>1, <3>2 DEF IsCreatorFeeOnInput
    <3>4. QuoteOutput(onInput, amount, x, y, t, c).input \in Nat
      <4> HIDE DEF onInput, x, y, t, c
      <4> QED BY <3>2, <3>3, QuoteOutputInput
    <3>5. less \in Nat /\ less < QuoteOutput(onInput, amount, x, y, t, c).input
      BY <2>1, <3>4
    <3>6. QuoteInput(onInput, less, x, y, t, c).output \in Int
      <4> DEFINE q == QuoteInput(onInput, less, x, y, t, c)
      <4> HIDE DEF onInput, x, y, t, c
      <4>1. q.drawn \in 0..(y - 1) /\ q.output \in 0..q.drawn
        BY <3>2, <3>3, <3>5, QuoteInputValue
      <4> HIDE DEF q
      <4>2. q.output \in Int
        BY <3>2, <4>1
      <4> QED BY <4>2 DEF q
    <3>7. QuoteInput(onInput, less, x, y, t, c).output < amount
      <4> HIDE DEF onInput, x, y, t, c
      <4>1. ~(QuoteInput(onInput, less, x, y, t, c).output >= amount)
        BY <3>2, <3>3, <3>4, <3>5, QuoteOutputIsLeast
      <4> QED BY <3>3, <3>6, <4>1
    <3> QED BY <3>7
  <2> QED BY <2>1 DEF ExactOutputCostsLeast
<1> QED BY <1>1, PoolInvariant, PTL

\* Trading there and back never pays, at every configuration and every state.
THEOREM RoundTripNeverPays == Spec => []NoProfitableRoundTrip
<1>1. ASSUME IInv
      PROVE  NoProfitableRoundTrip
  <2> SUFFICES ASSUME created, NEW s \in Sides, NEW amount \in 1..Held(s)
               PROVE  LET q == QuoteInput(IsCreatorFeeOnInput(s), amount, Net(s),
                                          Net(Other(s)), config.trade, CreatorRate)
                      IN  QuoteInput(IsCreatorFeeOnInput(Other(s)), q.output,
                                     Net(Other(s)) - q.drawn, Net(s) + q.input,
                                     config.trade, CreatorRate).output <= amount
    BY DEF NoProfitableRoundTrip
  <2>1. Other(s) \in Sides
    BY DEF Sides, Other
  <2>2. /\ Net(s) \in Nat /\ Net(s) > 0 /\ Net(Other(s)) \in Nat /\ Net(Other(s)) > 0
        /\ Held(s) \in Int
    BY <1>1, <2>1, OpenPool, PoolAssumption DEF Held
  <2>3. /\ amount \in Nat /\ IsCreatorFeeOnInput(s) \in BOOLEAN
        /\ IsCreatorFeeOnInput(Other(s)) \in BOOLEAN
    BY <2>2 DEF IsCreatorFeeOnInput
  <2> QED BY <1>1, <2>2, <2>3, RatesBelowDenominator, RoundTripLoses
<1> QED BY <1>1, PoolInvariant, PTL

\* Cutting a trade in two never pays, at every configuration and every state: no
\* rounding of a fee or of the curve favours many small swaps over one.
THEOREM SplittingIsNoGain == Spec => []SplittingNeverPays
<1>1. ASSUME IInv
      PROVE  SplittingNeverPays
  <2> SUFFICES ASSUME created, NEW s \in Sides, NEW whole \in 2..Held(s),
                      NEW part \in 1..(whole - 1), Priced(s)
               PROVE  LET Quoted(amount, x, y) ==
                            QuoteInput(IsCreatorFeeOnInput(s), amount, x, y,
                                       config.trade, CreatorRate)
                          first == Quoted(part, Net(s), Net(Other(s)))
                          second == Quoted(whole - part,
                                           Net(s) + first.swapped + KeptOfFee(first.tradeFee),
                                           Net(Other(s)) - first.drawn)
                      IN  first.output + second.output
                            <= Quoted(whole, Net(s), Net(Other(s))).output
    BY DEF SplittingNeverPays
  <2> DEFINE onInput == IsCreatorFeeOnInput(s)
             x == Net(s)
             y == Net(Other(s))
             first == QuoteInput(onInput, part, x, y, config.trade, CreatorRate)
             kept == KeptOfFee(first.tradeFee)
             rest == whole - part
  <2>1. Other(s) \in Sides
    BY DEF Sides, Other
  <2>2. /\ x \in Nat /\ x > 0 /\ y \in Nat /\ y > 0 /\ Held(s) \in Int
    BY <1>1, <2>1, OpenPool, PoolAssumption DEF Held
  <2>3. /\ part \in Nat /\ rest \in Nat /\ part + rest = whole /\ onInput \in BOOLEAN
    BY <2>2 DEF IsCreatorFeeOnInput
  <2>4. /\ config.trade \in Nat /\ CreatorRate \in Nat /\ config.trade + CreatorRate < Denominator
        /\ config.protocol \in Nat /\ config.fund \in Nat
        /\ config.protocol + config.fund <= Denominator
        /\ onInput => FeeCanBeSplit(config.trade, CreatorRate)
    BY <1>1, RatesBelowDenominator DEF Priced
  <2> HIDE DEF x, y, onInput, rest
  <2>5. first.tradeFee \in Nat
    BY <2>2, <2>3, <2>4, QuoteInputAccounted DEF Accounted
  <2>6. kept \in Nat
    <3> DEFINE fee == first.tradeFee
               p == PartOfFee(fee, config.protocol)
               f == PartOfFee(fee, config.fund)
    <3>1. fee \in Nat
      BY <2>5
    <3> HIDE DEF fee
    <3>2. p \in Nat /\ f \in Nat /\ p + f <= fee
      BY <2>4, <3>1, PartsOfFee
    <3>3. kept = fee - p - f
      BY DEF KeptOfFee, fee
    <3> HIDE DEF kept, p, f
    <3> QED BY <3>1, <3>2, <3>3
  <2> HIDE DEF kept
  <2>7. first.output
          + QuoteInput(onInput, rest, x + first.swapped + kept, y - first.drawn,
                       config.trade, CreatorRate).output
          <= QuoteInput(onInput, part + rest, x, y, config.trade, CreatorRate).output
    BY <2>2, <2>3, <2>4, <2>6, PartsBringLess
  <2> QED BY <2>3, <2>7 DEF kept, x, y, onInput, rest
<1> QED BY <1>1, PoolInvariant, PTL

----------------------------------------------------------------------------
(* The pool implements FeeLedger *)

\* Every instruction books fees, pays one receiver, or leaves fees and vaults alone.
LedgerStep == Ledger!Next \/ UNCHANGED <<OwedTo, vault>>

(* The three kinds of step *)

LEMMA MappedTypes ==
  ASSUME TypeOK
  PROVE  /\ OwedTo \in [Ledger!Receivers -> [Sides -> Nat]]
         /\ OwedTo["protocol"] = protocolFees /\ OwedTo["fund"] = fundFees
         /\ OwedTo["creator"] = creatorFees
         /\ Ledger!Sides = Sides
         /\ \A s \in Sides : Ledger!OwedOn(s) = OwedFees(s)
BY DEF TypeOK, OwedTo, OwedFees, Sides, Ledger!Receivers, Ledger!Sides, Ledger!OwedOn

\* A step that takes no fee away and leaves a solvent pool is a Book.
LEMMA StepBooks ==
  ASSUME IInv, IInv', created',
         \A s \in Sides : /\ protocolFees'[s] >= protocolFees[s]
                          /\ fundFees'[s] >= fundFees[s]
                          /\ creatorFees'[s] >= creatorFees[s]
  PROVE  LedgerStep
<1>1. TypeOK /\ TypeOK'
  BY DEF IInv
<1>2. /\ OwedTo' \in [Ledger!Receivers -> [Sides -> Nat]]
      /\ OwedTo["protocol"] = protocolFees /\ OwedTo["fund"] = fundFees
      /\ OwedTo["creator"] = creatorFees
      /\ OwedTo'["protocol"] = protocolFees' /\ OwedTo'["fund"] = fundFees'
      /\ OwedTo'["creator"] = creatorFees'
  BY <1>1, MappedTypes DEF TypeOK, OwedTo, Ledger!Receivers
<1>3. vault' \in [Sides -> Nat] /\ \A s \in Sides : OwedFees(s)' < vault'[s]
  BY <1>1 DEF IInv, TypeOK, PoolSolvent
<1>4. \A r \in Ledger!Receivers, s \in Sides : OwedTo'[r][s] >= OwedTo[r][s]
  BY <1>2 DEF Ledger!Receivers
<1>5. Ledger!Covered'
  BY <1>2, <1>3 DEF Ledger!Covered, Ledger!OwedOn, Ledger!Sides, Sides, OwedFees
<1>6. Ledger!Book
  BY <1>2, <1>3, <1>4, <1>5 DEF Ledger!Book, Ledger!Sides, Sides
<1> QED BY <1>6 DEF LedgerStep, Ledger!Next

\* A step that lowers the fees of receiver r, and the vaults by the same.
LEMMA StepPays ==
  ASSUME TypeOK, TypeOK', NEW r \in Ledger!Receivers,
         OwedTo' = [OwedTo EXCEPT ![r] = OwedTo'[r]],
         \A s \in Sides : OwedTo'[r][s] <= OwedTo[r][s],
         vault' = [s \in Sides |-> vault[s] - (OwedTo[r][s] - OwedTo'[r][s])]
  PROVE  LedgerStep
<1>1. OwedTo'[r] \in [Sides -> Nat]
  BY DEF TypeOK, OwedTo, Ledger!Receivers
<1>2. Ledger!Pay(r)
  BY <1>1 DEF Ledger!Pay, Ledger!Sides, Sides
<1> QED BY <1>2 DEF LedgerStep, Ledger!Next

LEMMA StepLeavesLedger ==
  ASSUME UNCHANGED <<vault, fees>>
  PROVE  LedgerStep
BY DEF LedgerStep, OwedTo, fees

----------------------------------------------------------------------------
(* The instructions *)

\* What a swap books is never negative.
LEMMA ExchangeBooks ==
  ASSUME IInv, created, NEW s \in Sides, NEW q,
         Accounted(q, IsCreatorFeeOnInput(s), Net(Other(s))), Exchange(s, q)
  PROVE  LedgerStep
<1>1. q.tradeFee \in Nat /\ q.creatorFee \in Nat
  BY DEF Accounted
<1>2. /\ PartOfFee(q.tradeFee, config.protocol) \in Nat
      /\ PartOfFee(q.tradeFee, config.fund) \in Nat
  BY <1>1, BookedParts
<1>3. /\ protocolFees \in [Sides -> Nat] /\ fundFees \in [Sides -> Nat]
      /\ creatorFees \in [Sides -> Nat]
  BY DEF IInv, TypeOK
<1>4. \A x \in Sides : /\ protocolFees'[x] >= protocolFees[x]
                       /\ fundFees'[x] >= fundFees[x]
                       /\ creatorFees'[x] >= creatorFees[x]
  <2> DEFINE p == PartOfFee(q.tradeFee, config.protocol)
             f == PartOfFee(q.tradeFee, config.fund)
             c == CreatorFeeSide(s)
  <2>1. /\ protocolFees' = [protocolFees EXCEPT ![s] = @ + p]
        /\ fundFees' = [fundFees EXCEPT ![s] = @ + f]
        /\ creatorFees' = [creatorFees EXCEPT ![c] = @ + q.creatorFee]
    BY DEF Exchange, BookFees
  <2>2. p \in Nat /\ f \in Nat
    BY <1>2
  <2> HIDE DEF p, f, c
  <2> QED BY <1>1, <1>3, <2>1, <2>2
<1>5. IInv' /\ created'
  BY ExchangeGood DEF Good, Exchange, modes
<1> QED BY <1>4, <1>5, StepBooks

\* Steps of a pool that exists, or of its creation, which leave the fees alone.
LEMMA FeesLeftAlone ==
  ASSUME IInv, IInv', created', UNCHANGED fees
  PROVE  LedgerStep
<1>1. \A s \in Sides : /\ protocolFees[s] \in Nat /\ protocolFees'[s] = protocolFees[s]
                       /\ fundFees[s] \in Nat /\ fundFees'[s] = fundFees[s]
                       /\ creatorFees[s] \in Nat /\ creatorFees'[s] = creatorFees[s]
  BY DEF IInv, TypeOK, fees
<1> QED BY <1>1, StepBooks

LEMMA CollectionPays ==
  ASSUME IInv, IInv', NEW r0 \in Nat, NEW r1 \in Nat,
         LET requested == [s \in Sides |-> IF s = 0 THEN r0 ELSE r1]
         IN  CollectProtocolFee(requested) \/ CollectFundFee(requested)
  PROVE  LedgerStep
<1> DEFINE requested == [s \in Sides |-> IF s = 0 THEN r0 ELSE r1]
<1>1. requested \in [Sides -> Nat]
  OBVIOUS
<1> HIDE DEF requested
<1>2. TypeOK /\ TypeOK'
  BY DEF IInv
<1>3. \A s \in Sides : /\ vault[s] \in Nat /\ protocolFees[s] \in Nat /\ fundFees[s] \in Nat
                       /\ protocolFees'[s] \in Nat /\ fundFees'[s] \in Nat
  BY <1>2 DEF TypeOK
<1>4. CASE CollectProtocolFee(requested)
  <2> DEFINE amounts == Lesser(requested, protocolFees)
  <2>1. /\ protocolFees' = [s \in Sides |-> protocolFees[s] - amounts[s]]
        /\ vault' = [s \in Sides |-> vault[s] - amounts[s]]
        /\ UNCHANGED <<fundFees, creatorFees>>
    BY <1>4 DEF CollectProtocolFee
  <2>2. amounts \in [Sides -> Nat] /\ \A s \in Sides : amounts[s] <= protocolFees[s]
    BY <1>1, <1>2, LesserBounds DEF TypeOK
  <2> HIDE DEF amounts
  <2>3. vault' = [s \in Sides |-> vault[s] - (protocolFees[s] - protocolFees'[s])]
    BY <1>3, <2>1, <2>2
  <2>4. "protocol" \in Ledger!Receivers /\ OwedTo["protocol"] = protocolFees
        /\ OwedTo'["protocol"] = protocolFees'
    BY DEF OwedTo, Ledger!Receivers
  <2>5. OwedTo' = [OwedTo EXCEPT !["protocol"] = OwedTo'["protocol"]]
    BY <2>1 DEF OwedTo
  <2>6. \A s \in Sides : OwedTo'["protocol"][s] <= OwedTo["protocol"][s]
    BY <1>3, <2>1, <2>2, <2>4
  <2>7. vault' = [s \in Sides |-> vault[s] - (OwedTo["protocol"][s] - OwedTo'["protocol"][s])]
    BY <2>3, <2>4
  <2> QED BY <1>2, <2>4, <2>5, <2>6, <2>7, StepPays
<1>5. CASE CollectFundFee(requested)
  <2> DEFINE amounts == Lesser(requested, fundFees)
  <2>1. /\ fundFees' = [s \in Sides |-> fundFees[s] - amounts[s]]
        /\ vault' = [s \in Sides |-> vault[s] - amounts[s]]
        /\ UNCHANGED <<protocolFees, creatorFees>>
    BY <1>5 DEF CollectFundFee
  <2>2. amounts \in [Sides -> Nat] /\ \A s \in Sides : amounts[s] <= fundFees[s]
    BY <1>1, <1>2, LesserBounds DEF TypeOK
  <2> HIDE DEF amounts
  <2>3. vault' = [s \in Sides |-> vault[s] - (fundFees[s] - fundFees'[s])]
    BY <1>3, <2>1, <2>2
  <2>4. "fund" \in Ledger!Receivers /\ OwedTo["fund"] = fundFees
        /\ OwedTo'["fund"] = fundFees'
    BY DEF OwedTo, Ledger!Receivers
  <2>5. OwedTo' = [OwedTo EXCEPT !["fund"] = OwedTo'["fund"]]
    BY <2>1 DEF OwedTo
  <2>6. \A s \in Sides : OwedTo'["fund"][s] <= OwedTo["fund"][s]
    BY <1>3, <2>1, <2>2, <2>4
  <2>7. vault' = [s \in Sides |-> vault[s] - (OwedTo["fund"][s] - OwedTo'["fund"][s])]
    BY <2>3, <2>4
  <2> QED BY <1>2, <2>4, <2>5, <2>6, <2>7, StepPays
<1> QED BY <1>4, <1>5 DEF requested

LEMMA CollectCreatorFeePays ==
  ASSUME IInv, IInv', CollectCreatorFee
  PROVE  LedgerStep
<1>1. /\ creatorFees' = [s \in Sides |-> 0]
      /\ vault' = [s \in Sides |-> vault[s] - creatorFees[s]]
      /\ UNCHANGED <<protocolFees, fundFees>>
  BY DEF CollectCreatorFee
<1>2. TypeOK /\ TypeOK' /\ \A s \in Sides : creatorFees[s] \in Nat /\ vault[s] \in Nat
  BY DEF IInv, TypeOK
<1>3. "creator" \in Ledger!Receivers /\ OwedTo["creator"] = creatorFees
      /\ OwedTo'["creator"] = creatorFees'
  BY DEF OwedTo, Ledger!Receivers
<1>4. OwedTo' = [OwedTo EXCEPT !["creator"] = OwedTo'["creator"]]
  BY <1>1 DEF OwedTo
<1>5. \A s \in Sides : OwedTo'["creator"][s] <= OwedTo["creator"][s]
  BY <1>1, <1>2, <1>3
<1>6. vault' = [s \in Sides |-> vault[s] - (OwedTo["creator"][s] - OwedTo'["creator"][s])]
  BY <1>1, <1>2, <1>3
<1> QED BY <1>2, <1>3, <1>4, <1>5, <1>6, StepPays

LEMMA NextKeepsLedger ==
  ASSUME IInv, Next
  PROVE  LedgerStep
<1>0. /\ IInv' /\ Tokens[0] \in Nat /\ Tokens[1] \in Nat
      /\ \A s \in Sides : Tokens[s] \in Nat /\ Tokens[Other(s)] \in Nat
  BY NextGood, PoolAssumption DEF Good, Sides, Other
<1>1. CASE Creation
  <2>1. created' /\ UNCHANGED fees
    BY <1>1 DEF Creation, Initialize, InitializeWithPermission, CreatePool
  <2> QED BY <1>0, <2>1, FeesLeftAlone
<1>2. CASE OpenTimePasses
  BY <1>2, StepLeavesLedger DEF OpenTimePasses
<1>3. CASE Liquidity
  <2>1. created' /\ UNCHANGED fees
    BY <1>3 DEF Liquidity, Deposit, Withdraw, BurnLp, modes
  <2> QED BY <1>0, <2>1, FeesLeftAlone
<1>4. CASE Trading
  <2>1. ASSUME NEW s \in Sides, NEW amount \in Nat, SendToVault(s, amount)
        PROVE  LedgerStep
    <3>1. created' /\ UNCHANGED fees
      BY <2>1 DEF SendToVault, modes
    <3> QED BY <1>0, <3>1, FeesLeftAlone
  <2> QED BY <1>0, <1>4, <2>1, SwapBaseInputExchanges, SwapBaseOutputExchanges, ExchangeBooks
          DEF Trading
<1>5. CASE Collection
  <2>1. ASSUME NEW r0 \in 0..Tokens[0], NEW r1 \in 0..Tokens[1],
               LET requested == [s \in Sides |-> IF s = 0 THEN r0 ELSE r1]
               IN  CollectProtocolFee(requested) \/ CollectFundFee(requested)
        PROVE  LedgerStep
    <3>1. r0 \in Nat /\ r1 \in Nat
      BY <1>0
    <3> QED BY <1>0, <2>1, <3>1, CollectionPays
  <2> QED BY <1>0, <1>5, <2>1, CollectCreatorFeePays DEF Collection
<1>6. CASE Administration
  BY <1>6, StepLeavesLedger DEF Administration, UpdatePoolStatus, UpdateRate, DisableCreatePool,
       CreatePermission, ClosePermission, CreateSupportMint, CloseSupportMint
<1> QED BY <1>1, <1>2, <1>3, <1>4, <1>5, <1>6 DEF Next

----------------------------------------------------------------------------

\* The pool keeps the promises of the fee ledger, for every rate, transfer fee
\* and amount: what FeeSweep assumes of a pool.
THEOREM PoolKeepsLedger == Spec => ImplementsFeeLedger
<1>1. Init => Ledger!Init
  BY DEF Init, Ledger!Init, OwedTo, Ledger!Receivers, Ledger!Sides, Sides
<1>2. IInv /\ [Next]_vars => [Ledger!Next]_(Ledger!vars)
  <2>1. ASSUME UNCHANGED vars
        PROVE  LedgerStep
    BY <2>1, StepLeavesLedger DEF vars
  <2> QED BY <2>1, NextKeepsLedger DEF LedgerStep, Ledger!vars
<1> QED BY <1>1, <1>2, PoolInvariant, PTL DEF Spec, ImplementsFeeLedger, Ledger!Spec
=============================================================================
