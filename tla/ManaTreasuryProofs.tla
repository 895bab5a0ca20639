-------------------------- MODULE ManaTreasuryProofs --------------------------
(***************************************************************************)
(* Proofs about ManaTreasury, for every number of users, amount and        *)
(* cooldown.                                                               *)
(***************************************************************************)
EXTENDS ManaTreasury, TokenTotalsProofs

(* Integer division *)

\* What the floor of a quotient bounds.
LEMMA FloorBounds ==
  ASSUME NEW a \in Nat, NEW b \in Nat, b > 0
  PROVE  /\ a \div b \in Nat
         /\ (a \div b) * b <= a
         /\ a < (a \div b + 1) * b
OBVIOUS

\* A common positive factor can be cancelled from an inequality.
LEMMA CancelFactor ==
  ASSUME NEW a \in Int, NEW b \in Int, NEW c \in Nat, c > 0, a * c <= b * c
  PROVE  a <= b
OBVIOUS

\* Both sides of an inequality can be multiplied by a natural number.
LEMMA MultiplyLeq ==
  ASSUME NEW a \in Int, NEW b \in Int, NEW c \in Nat, a <= b
  PROVE  a * c <= b * c
OBVIOUS

\* Mana minted for a deposit: never more units than the MIM paid, when the
\* treasury is fully backed, and never worth more than the MIM paid.
LEMMA DepositPrice ==
  ASSUME NEW x \in Nat, NEW A \in Nat, NEW S \in Nat, S > 0, S <= A
  PROVE  /\ ManaForDeposit(x, A, S) \in 0..x
         /\ ManaForDeposit(x, A, S) * A <= x * S
<1> DEFINE q == (x * S) \div A
<1>1. A > 0 /\ x * S \in Nat
  OBVIOUS
<1>2. q \in Nat /\ q * A <= x * S
  BY <1>1, FloorBounds
<1>3. x * S <= x * A
  BY MultiplyLeq
<1> HIDE DEF q
<1>4. q * A <= x * A
  <2>1. q * A \in Int /\ x * S \in Int /\ x * A \in Int
    BY <1>2
  <2> QED BY <2>1, <1>2, <1>3
<1>5. q <= x
  BY <1>1, <1>2, <1>4, CancelFactor
<1>6. ManaForDeposit(x, A, S) = q
  BY DEF ManaForDeposit, q
<1> QED BY <1>2, <1>5, <1>6

\* MIM set aside for a redemption of part of the supply: at least par, at most
\* the vault, and less than one unit short of the exact value.
LEMMA RedemptionPrice ==
  ASSUME NEW m \in Nat, NEW A \in Nat, NEW S \in Nat, S > 0, S <= A, m <= S
  PROVE  /\ MimForRedemption(m, A, S) \in m..A
         /\ MimForRedemption(m, A, S) * S <= m * A
         /\ m * A < (MimForRedemption(m, A, S) + 1) * S
<1> DEFINE q == (m * A) \div S
<1>1. m * A \in Nat
  OBVIOUS
<1>2. q \in Nat /\ q * S <= m * A /\ m * A < (q + 1) * S
  BY <1>1, FloorBounds
<1>3. m * A <= A * S
  BY MultiplyLeq
<1>4. m * S <= m * A
  BY MultiplyLeq
<1> HIDE DEF q
<1>5. q <= A
  <2>1. q * S <= A * S
    BY <1>1, <1>2, <1>3
  <2> QED BY <2>1, <1>2, CancelFactor
<1>6. m <= q
  <2>1. m * S < (q + 1) * S
    BY <1>1, <1>2, <1>4
  <2>2. ~ (q + 1 <= m)
    BY <2>1, <1>2, MultiplyLeq
  <2> QED BY <2>2, <1>2
<1>7. MimForRedemption(m, A, S) = q
  BY DEF MimForRedemption, q
<1> QED BY <1>2, <1>5, <1>6, <1>7

----------------------------------------------------------------------------
(* Type correctness *)

\* The floor of a quotient is the most that fits.
LEMMA FloorIsMost ==
  ASSUME NEW a \in Nat, NEW b \in Nat, b > 0, NEW n \in Nat, n * b <= a
  PROVE  n <= a \div b
<1> DEFINE q == a \div b
<1>1. q \in Nat /\ a < (q + 1) * b
  BY FloorBounds
<1> HIDE DEF q
<1>2. ~ (q + 1 <= n)
  <2> SUFFICES ASSUME q + 1 <= n PROVE FALSE
    OBVIOUS
  <2>1. (q + 1) * b <= n * b
    BY <1>1, MultiplyLeq
  <2>2. (q + 1) * b \in Int /\ n * b \in Int
    BY <1>1
  <2> QED BY <1>1, <2>1, <2>2
<1>3. n <= q
  BY <1>1, <1>2
<1> QED BY <1>3 DEF q

\* A deposit of x, redeemed at the price it leaves behind, brings at most x.
LEMMA JoinAndLeave ==
  ASSUME NEW x \in Nat, NEW A \in Nat, NEW S \in Nat, S > 0, S <= A
  PROVE  LET out == ManaForDeposit(x, A, S)
         IN  MimForRedemption(out, A + x, S + out) <= x
<1> DEFINE out == ManaForDeposit(x, A, S)
           back == MimForRedemption(out, A + x, S + out)
<1>1. out \in Nat /\ out * A <= x * S
  BY DepositPrice
<1> HIDE DEF out
<1>2. out * (A + x) \in Nat /\ S + out \in Nat /\ S + out > 0
  BY <1>1
<1>3. back \in Nat /\ back * (S + out) <= out * (A + x)
  BY <1>2, FloorBounds DEF MimForRedemption
<1> HIDE DEF back
<1>4. out * (A + x) <= x * (S + out)
  <2>1. out * (A + x) = out * A + x * out /\ x * (S + out) = x * S + x * out
    BY <1>1
  <2>2. out * A \in Int /\ x * S \in Int /\ x * out \in Int
    BY <1>1
  <2> QED BY <1>1, <2>1, <2>2
<1>5. back * (S + out) <= x * (S + out)
  <2>1. back * (S + out) \in Int /\ x * (S + out) \in Int
    BY <1>1, <1>3
  <2> QED BY <1>2, <1>3, <1>4, <2>1
<1>6. back <= x
  BY <1>2, <1>3, <1>5, CancelFactor
<1> QED BY <1>6 DEF back, out

\* A deposit of x and then y mints at most what a deposit of both mints.
LEMMA DepositsInParts ==
  ASSUME NEW x \in Nat, NEW y \in Nat, NEW A \in Nat, NEW S \in Nat, S > 0, S <= A
  PROVE  LET first == ManaForDeposit(x, A, S)
         IN  first + ManaForDeposit(y, A + x, S + first) <= ManaForDeposit(x + y, A, S)
<1> DEFINE first == ManaForDeposit(x, A, S)
           second == ManaForDeposit(y, A + x, S + first)
<1>1. first \in 0..x /\ first * A <= x * S
  BY DepositPrice
<1> HIDE DEF first
<1>2. first \in Nat /\ S + first \in Nat /\ S + first > 0 /\ A + x \in Nat /\ S + first <= A + x
  BY <1>1
<1>3. second \in Nat /\ second * (A + x) <= y * (S + first)
  BY <1>2, DepositPrice
<1> HIDE DEF second
<1>4. second * A <= y * S
  <2>1. (second * (A + x)) * A <= (y * (S + first)) * A
    <3>1. second * (A + x) \in Int /\ y * (S + first) \in Int
      BY <1>2, <1>3
    <3> QED BY <1>3, <3>1, MultiplyLeq
  <2>2. (first * A) * y <= (x * S) * y
    <3>1. first * A \in Int /\ x * S \in Int
      BY <1>2
    <3> QED BY <1>1, <3>1, MultiplyLeq
  <2>3. /\ (second * (A + x)) * A = (second * A) * (A + x)
        /\ (y * (S + first)) * A = (y * S) * A + (first * A) * y
        /\ (y * S) * (A + x) = (y * S) * A + (x * S) * y
    BY <1>2, <1>3
  <2>4. /\ second * A \in Int /\ y * S \in Int
        /\ (second * A) * (A + x) \in Int /\ (y * S) * (A + x) \in Int
        /\ (first * A) * y \in Int /\ (x * S) * y \in Int /\ (y * S) * A \in Int
    BY <1>2, <1>3
  <2>5. (second * A) * (A + x) <= (y * S) * (A + x)
    BY <2>1, <2>2, <2>3, <2>4
  <2>6. A + x > 0
    BY <1>2
  <2> QED BY <1>2, <2>4, <2>5, <2>6, CancelFactor
<1>5. (first + second) * A <= (x + y) * S
  <2>1. /\ (first + second) * A = first * A + second * A
        /\ (x + y) * S = x * S + y * S
    BY <1>2, <1>3
  <2>2. /\ first * A \in Int /\ second * A \in Int /\ x * S \in Int /\ y * S \in Int
    BY <1>2, <1>3
  <2> QED BY <1>1, <1>4, <2>1, <2>2
<1>6. first + second <= ((x + y) * S) \div A
  <2>1. (x + y) * S \in Nat /\ A > 0 /\ first + second \in Nat
    BY <1>2, <1>3
  <2> QED BY <1>5, <2>1, FloorIsMost
<1>7. ManaForDeposit(x + y, A, S) = ((x + y) * S) \div A
  BY DEF ManaForDeposit
<1> QED BY <1>6, <1>7 DEF first, second

\* A redemption of x and then y of more than both sets aside at most what a
\* redemption of both does: what the first rounds down, the second gets only a
\* part of.
LEMMA RedemptionsInParts ==
  ASSUME NEW x \in Nat, NEW y \in Nat, NEW A \in Nat, NEW S \in Nat, S > 0, S <= A,
         x + y <= S, y > 0
  PROVE  LET first == MimForRedemption(x, A, S)
         IN  first + MimForRedemption(y, A - first, S - x) <= MimForRedemption(x + y, A, S)
<1> DEFINE first == MimForRedemption(x, A, S)
           rest == S - x
           second == MimForRedemption(y, A - first, rest)
<1>1. first \in x..A /\ first * S <= x * A
  BY RedemptionPrice
<1> HIDE DEF first
<1>2. /\ first \in Nat /\ A - first \in Nat
      /\ rest \in Nat /\ rest > 0 /\ y <= rest /\ S = rest + x
  BY <1>1
<1> HIDE DEF rest
<1>3. second \in Nat /\ second * rest <= y * (A - first)
  <2>1. y * (A - first) \in Nat
    BY <1>2
  <2> QED BY <1>2, <2>1, FloorBounds DEF MimForRedemption
<1> HIDE DEF second
<1> DEFINE more == rest - y
<1>4. more \in Nat /\ rest = y + more
  BY <1>2
<1> HIDE DEF more
<1>5. ((first + second) * S) * rest <= ((x + y) * A) * rest
  <2>1. (second * rest) * S <= (y * (A - first)) * S
    <3>1. second * rest \in Int /\ y * (A - first) \in Int
      BY <1>2, <1>3
    <3> QED BY <1>3, <3>1, MultiplyLeq
  <2>2. (first * S) * more <= (x * A) * more
    <3>1. first * S \in Int /\ x * A \in Int
      BY <1>2
    <3> QED BY <1>1, <1>4, <3>1, MultiplyLeq
  <2>3. ((first + second) * S) * rest = (first * S) * more + (first * S) * y + (second * rest) * S
    <3>1. (first * S) * rest = (first * S) * y + (first * S) * more
      BY <1>2, <1>4
    <3>2. ((first + second) * S) * rest = (first * S) * rest + (second * rest) * S
      BY <1>2, <1>3
    <3> QED BY <1>2, <1>3, <1>4, <3>1, <3>2
  <2>4. (y * (A - first)) * S = (y * A) * S - (first * S) * y
    BY <1>2
  <2>5. (x * A) * more + (y * A) * S = ((x + y) * A) * rest
    <3>1. (x * A) * rest = (x * A) * y + (x * A) * more
      BY <1>2, <1>4
    <3>2. (y * A) * S = (y * A) * rest + (x * A) * y
      BY <1>2
    <3>3. ((x + y) * A) * rest = (x * A) * rest + (y * A) * rest
      BY <1>2
    <3>4. /\ (x * A) * y \in Int /\ (x * A) * more \in Int /\ (y * A) * rest \in Int
      BY <1>2, <1>4
    <3> QED BY <3>1, <3>2, <3>3, <3>4
  <2>6. /\ (first * S) * more \in Int /\ (first * S) * y \in Int /\ (second * rest) * S \in Int
        /\ (y * A) * S \in Int /\ (x * A) * more \in Int
    BY <1>2, <1>3, <1>4
  <2> QED BY <2>1, <2>2, <2>3, <2>4, <2>5, <2>6
<1>6. (first + second) * S <= (x + y) * A
  <2>1. (first + second) * S \in Int /\ (x + y) * A \in Int
    BY <1>2, <1>3
  <2> QED BY <1>2, <1>5, <2>1, CancelFactor
<1>7. first + second <= ((x + y) * A) \div S
  <2>1. (x + y) * A \in Nat /\ first + second \in Nat
    BY <1>2, <1>3
  <2> QED BY <1>6, <2>1, FloorIsMost
<1>8. MimForRedemption(x + y, A, S) = ((x + y) * A) \div S
  BY DEF MimForRedemption
<1> QED BY <1>7, <1>8 DEF first, second, rest

\* What start_destake records is a request, if there is Mana to redeem.
LEMMA RequestForType ==
  ASSUME TypeOK, ActiveManaSupply > 0, NEW amount \in Nat
  PROVE  /\ RequestFor(amount) \in Request
         /\ RequestFor(amount).mana = amount
         /\ RequestFor(amount).reserved
              = MimForRedemption(amount, activeMimVault, ActiveManaSupply)
<1>1. ActiveManaSupply \in Nat /\ activeMimVault \in Nat
  BY DEF TypeOK, ActiveManaSupply, Amount, MaxU64
<1>2. amount * activeMimVault \in Nat
  BY <1>1
<1>3. MimForRedemption(amount, activeMimVault, ActiveManaSupply) \in Nat
  BY <1>1, <1>2, FloorBounds DEF MimForRedemption
<1>4. UnlockTime(cooldownSeconds) \in Int
  BY TimeAssumption DEF TypeOK, UnlockTime, AsI64, MaxU64
<1> QED BY <1>3, <1>4 DEF RequestFor, Request

\* Every handler keeps each account in the shape Anchor would read back.
LEMMA TypeStep == TypeOK /\ [Next]_vars => TypeOK'
<1> SUFFICES ASSUME TypeOK, [Next]_vars PROVE TypeOK'
  OBVIOUS
<1> USE TimeAssumption, AmountAssumption, UsersAssumption
<1>0. NoRequest \in Request
  BY DEF NoRequest, Request
<1>1. ASSUME NEW u \in Users, NEW amount \in 1..mim[u], NEW minOut \in 0..amount,
             DepositMim(u, amount, minOut)
      PROVE  TypeOK'
  <2>1. amount \in Nat /\ mim[u] - amount \in Nat
    BY <1>1 DEF TypeOK
  <2>2. ManaForDeposit(amount, activeMimVault, ActiveManaSupply) \in Nat
    <3>1. ActiveManaSupply \in Nat /\ activeMimVault \in Nat
      BY <1>1 DEF TypeOK, DepositMim, ActiveManaSupply, Amount, MaxU64
    <3>2. CASE ActiveManaSupply = 0
      BY <2>1, <3>2 DEF ManaForDeposit
    <3>3. CASE ActiveManaSupply > 0
      <4>1. activeMimVault > 0 /\ amount * ActiveManaSupply \in Nat
        BY <1>1, <2>1, <3>1, <3>3 DEF DepositMim
      <4> QED BY <3>1, <3>3, <4>1, FloorBounds DEF ManaForDeposit
    <3> QED BY <3>1, <3>2, <3>3
  <2>3. manaSupply' \in Amount
    BY <1>1, <2>2 DEF TypeOK, DepositMim, Amount, MaxU64
  <2> QED BY <1>1, <2>1, <2>2, <2>3 DEF TypeOK, DepositMim, config, queue, other
<1>2. ASSUME NEW u \in Users, NEW amount \in 1..mim[u], DonateMim(u, amount)
      PROVE  TypeOK'
  BY <1>2 DEF TypeOK, DonateMim, config, queue, other
<1>3. ASSUME NEW u \in Users, NEW amount \in 1..mim[u], SendMimToPending(u, amount)
      PROVE  TypeOK'
  BY <1>3 DEF TypeOK, SendMimToPending, config, other
<1>4. ASSUME NEW u \in Users, NEW amount \in 1..mana[u],
             NEW minOut \in 0..activeMimVault, StartDestake(u, amount, minOut)
      PROVE  TypeOK'
  <2>1. amount \in Nat /\ ActiveManaSupply > 0
    BY <1>4 DEF TypeOK, StartDestake
  <2>2. RequestFor(amount) \in Request /\ RequestFor(amount).reserved \in Nat
    BY <2>1, RequestForType DEF Request
  <2> QED BY <1>4, <2>1, <2>2 DEF TypeOK, StartDestake, config, other
<1>5. ASSUME NEW u \in Users, NEW amount \in 1..mana[u], BurnMana(u, amount)
      PROVE  TypeOK'
  BY <1>5 DEF TypeOK, BurnMana, Amount, MaxU64, config, queue, other
<1>6. ASSUME NEW u \in Users, NEW amount \in 1..mana[u], SendManaToPending(u, amount)
      PROVE  TypeOK'
  BY <1>6 DEF TypeOK, SendManaToPending, config, other
<1>7. ASSUME NEW u \in Users, NEW amount \in 1..mana[u], NEW to \in Users,
             TransferMana(u, to, amount)
      PROVE  TypeOK'
  BY <1>7 DEF TypeOK, TransferMana, config, queue, other
<1>8. ASSUME NEW u \in Users, FinalizeDestake(u)
      PROVE  TypeOK'
  <2>1. requests[u] \in Request
    BY DEF TypeOK
  <2> QED BY <1>0, <1>8, <2>1
          DEF TypeOK, FinalizeDestake, CanPay, Payout, Request, Amount, MaxU64, config, other
<1>9. CASE AssetFlow
  <2>1. ASSUME NEW a \in Assets, NEW amount \in 1..MaxAsset, DonateAsset(a, amount)
        PROVE  TypeOK'
    BY <2>1 DEF TypeOK, DonateAsset, config, queue
  <2>2. ASSUME NEW a \in Assets, NEW signer \in Users, CreateAssetVault(signer, a)
        PROVE  TypeOK'
    BY <2>2 DEF TypeOK, CreateAssetVault, config, queue
  <2>3. ASSUME NEW a \in Assets, NEW signer \in Users, NEW router \in Routers,
               NEW amount \in 1..MaxAsset, NEW minOut \in 1..marketMim,
               NEW spent \in (-MaxAsset)..MaxAsset, NEW out \in (-activeMimVault)..marketMim,
               SwapAssetToMim(signer, router, a, amount, minOut, spent, out)
        PROVE  TypeOK'
    BY <2>3 DEF TypeOK, SwapAssetToMim, SwapResultOK, config, queue
  <2> QED BY <1>9, <2>1, <2>2, <2>3 DEF AssetFlow
<1>10. CASE Governance
  BY <1>10 DEF TypeOK, Governance, InitializeTreasury, SetSwapRouter, SetCooldownSeconds,
     SetTreasuryAuthority, AcceptTreasuryAuthority, queue, other
<1>11. CASE Tick
  BY <1>11 DEF TypeOK, Tick, config, queue, other
<1>12. CASE UNCHANGED vars
  BY <1>12 DEF TypeOK, vars, config, queue, other
<1> QED
  BY <1>1, <1>2, <1>3, <1>4, <1>5, <1>6, <1>7, <1>8, <1>9, <1>10, <1>11, <1>12
  DEF Next, Holders

\* The treasury's accounts keep their types, and no u64 of them goes negative
\* or past its width, in every behaviour.
THEOREM TypeCorrect == Spec => []TypeOK
<1>1. Init => TypeOK
  BY AmountAssumption, TimeAssumption, UsersAssumption
  DEF Init, TypeOK, NoRequest, Request, Amount, MaxU64
<1> QED BY <1>1, TypeStep, PTL DEF Spec

----------------------------------------------------------------------------
(* Backing *)

\* FullyBacked is inductive with the types alone.
LEMMA BackingStep == TypeOK /\ FullyBacked /\ [Next]_vars => FullyBacked'
<1> SUFFICES ASSUME TypeOK, FullyBacked, [Next]_vars PROVE FullyBacked'
  OBVIOUS
<1>0. /\ activeMimVault \in Nat /\ manaSupply \in Nat /\ pendingManaSupply \in Nat
      /\ ActiveManaSupply \in Int /\ ActiveManaSupply <= activeMimVault
  BY TimeAssumption DEF TypeOK, FullyBacked, ActiveManaSupply, Amount, MaxU64
<1>1. ASSUME NEW u \in Users, NEW amount \in 1..mim[u], NEW minOut \in 0..amount,
             DepositMim(u, amount, minOut)
      PROVE  FullyBacked'
  <2> DEFINE out == ManaForDeposit(amount, activeMimVault, ActiveManaSupply)
  <2>1. amount \in Nat /\ ActiveManaSupply \in Nat
    BY <1>0, <1>1 DEF TypeOK, DepositMim
  <2>2. out \in 0..amount
    <3>1. CASE ActiveManaSupply = 0
      BY <2>1, <3>1 DEF ManaForDeposit
    <3>2. CASE ActiveManaSupply > 0
      BY <1>0, <2>1, <3>2, DepositPrice
    <3> QED BY <2>1, <3>1, <3>2
  <2>3. /\ activeMimVault' = activeMimVault + amount
        /\ manaSupply' = manaSupply + out
        /\ pendingManaSupply' = pendingManaSupply
    BY <1>1 DEF DepositMim, queue
  <2> HIDE DEF out
  <2> QED BY <1>0, <2>1, <2>2, <2>3 DEF FullyBacked, ActiveManaSupply
<1>2. ASSUME NEW u \in Users, NEW amount \in 1..mim[u], DonateMim(u, amount)
      PROVE  FullyBacked'
  BY <1>0, <1>2 DEF DonateMim, FullyBacked, ActiveManaSupply, queue
<1>3. ASSUME NEW u \in Users, NEW amount \in 1..mim[u], SendMimToPending(u, amount)
      PROVE  FullyBacked'
  BY <1>0, <1>3 DEF SendMimToPending, FullyBacked, ActiveManaSupply
<1>4. ASSUME NEW u \in Users, NEW amount \in 1..mana[u],
             NEW minOut \in 0..activeMimVault, StartDestake(u, amount, minOut)
      PROVE  FullyBacked'
  <2> DEFINE A == activeMimVault
             S == ActiveManaSupply
             q == MimForRedemption(amount, A, S)
  <2>1. amount \in Nat /\ S \in Nat /\ S > 0 /\ A \in Nat
    BY <1>0, <1>4 DEF TypeOK, StartDestake
  <2>2. RequestFor(amount).reserved = q
    BY <2>1, RequestForType
  <2>3. /\ q <= A
        /\ activeMimVault' = A - q
        /\ manaSupply' = manaSupply
        /\ pendingManaSupply' = pendingManaSupply + amount
    BY <1>4, <2>2 DEF StartDestake
  <2>4. q \in Nat
    <3>1. amount * A \in Nat
      BY <2>1
    <3> QED BY <2>1, <3>1, FloorBounds DEF MimForRedemption
  <2>5. CASE amount <= S
    <3>1. q * S <= amount * A
      BY <1>0, <2>1, <2>5, RedemptionPrice
    <3>2. S - amount <= A - q
      <4> HIDE DEF A, S, q
      <4>1. (S - amount) * S <= (S - amount) * A
        <5>1. S <= A /\ S - amount \in Nat
          BY <1>0, <2>1, <2>5 DEF S, A
        <5> QED BY <2>1, <5>1, MultiplyLeq
      <4>2. (S - amount) * A = S * A - amount * A
        BY <2>1
      <4>3. (A - q) * S = A * S - q * S
        BY <2>1, <2>4
      <4>4. (S - amount) * S <= (A - q) * S
        BY <2>1, <2>4, <3>1, <4>1, <4>2, <4>3
      <4> QED BY <2>1, <2>4, <4>4, CancelFactor
    <3> HIDE DEF q
    <3> QED BY <1>0, <2>1, <2>3, <2>4, <3>2 DEF FullyBacked, ActiveManaSupply
  <2>6. CASE amount > S
    <3> HIDE DEF q
    <3> QED BY <1>0, <2>1, <2>3, <2>4, <2>6 DEF FullyBacked, ActiveManaSupply
  <2> QED BY <2>1, <2>5, <2>6
<1>5. ASSUME NEW u \in Users, NEW amount \in 1..mana[u], BurnMana(u, amount)
      PROVE  FullyBacked'
  <2>1. amount \in Nat
    BY <1>5 DEF TypeOK
  <2> QED BY <1>0, <1>5, <2>1 DEF BurnMana, FullyBacked, ActiveManaSupply, queue
<1>6. ASSUME NEW u \in Users, NEW amount \in 1..mana[u], SendManaToPending(u, amount)
      PROVE  FullyBacked'
  BY <1>0, <1>6 DEF SendManaToPending, FullyBacked, ActiveManaSupply
<1>7. ASSUME NEW u \in Users, NEW amount \in 1..mana[u], NEW to \in Users,
             TransferMana(u, to, amount)
      PROVE  FullyBacked'
  BY <1>0, <1>7 DEF TransferMana, FullyBacked, ActiveManaSupply, queue
<1>8. ASSUME NEW u \in Users, FinalizeDestake(u)
      PROVE  FullyBacked'
  <2>1. requests[u].mana \in Nat
    BY DEF TypeOK, Request
  <2> QED BY <1>0, <1>8, <2>1 DEF FinalizeDestake, CanPay, FullyBacked, ActiveManaSupply
<1>9. CASE AssetFlow
  <2>1. /\ activeMimVault' \in Int /\ activeMimVault' >= activeMimVault
        /\ UNCHANGED <<manaSupply, pendingManaSupply>>
    BY <1>0, <1>9
    DEF TypeOK, AssetFlow, DonateAsset, CreateAssetVault, SwapAssetToMim, SwapResultOK, queue
  <2> QED BY <1>0, <2>1 DEF FullyBacked, ActiveManaSupply
<1>10. CASE Governance
  BY <1>0, <1>10 DEF FullyBacked, ActiveManaSupply, Governance, InitializeTreasury,
     SetSwapRouter, SetCooldownSeconds, SetTreasuryAuthority, AcceptTreasuryAuthority, queue
<1>11. CASE Tick
  BY <1>0, <1>11 DEF FullyBacked, ActiveManaSupply, Tick, queue
<1>12. CASE UNCHANGED vars
  BY <1>0, <1>12 DEF FullyBacked, ActiveManaSupply, vars, queue
<1> QED
  BY <1>1, <1>2, <1>3, <1>4, <1>5, <1>6, <1>7, <1>8, <1>9, <1>10, <1>11, <1>12
  DEF Next, Holders

\* Every active Mana is backed by at least one MIM in every behaviour.
THEOREM AlwaysFullyBacked == Spec => []FullyBacked
<1>1. Init => FullyBacked
  BY DEF Init, FullyBacked, ActiveManaSupply
<1> QED BY <1>1, TypeCorrect, BackingStep, PTL DEF Spec

----------------------------------------------------------------------------
(* Escrow and reserves *)

\* The columns of the open requests are balances.
LEMMA QueuedType ==
  ASSUME TypeOK
  PROVE  QueuedMana \in [Users -> Nat] /\ QueuedMim \in [Users -> Nat]
BY DEF TypeOK, QueuedMana, QueuedMim, Request

\* Writing one owner's request changes the totals of the queue by what it holds.
LEMMA QueueWritten ==
  ASSUME TypeOK, TypeOK', NEW u \in Users, NEW r, requests' = [requests EXCEPT ![u] = r]
  PROVE  /\ Total(QueuedMana') = Total(QueuedMana) - requests[u].mana + r.mana
         /\ Total(QueuedMim') = Total(QueuedMim) - requests[u].reserved + r.reserved
<1>1. /\ QueuedMana \in [Users -> Nat] /\ QueuedMana' \in [Users -> Nat]
      /\ QueuedMim \in [Users -> Nat] /\ QueuedMim' \in [Users -> Nat]
  BY DEF TypeOK, QueuedMana, QueuedMim, Request
<1>2. \A v \in Users : v # u => /\ QueuedMana'[v] = QueuedMana[v]
                               /\ QueuedMim'[v] = QueuedMim[v]
  BY DEF TypeOK, QueuedMana, QueuedMim
<1>3. /\ QueuedMana[u] = requests[u].mana /\ QueuedMana'[u] = r.mana
      /\ QueuedMim[u] = requests[u].reserved /\ QueuedMim'[u] = r.reserved
  BY DEF TypeOK, QueuedMana, QueuedMim
<1>4. Total(QueuedMana') = Total(QueuedMana) - QueuedMana[u] + QueuedMana'[u]
  BY <1>1, <1>2, UsersAssumption, TotalChange
<1>5. Total(QueuedMim') = Total(QueuedMim) - QueuedMim[u] + QueuedMim'[u]
  BY <1>1, <1>2, UsersAssumption, TotalChange
<1> QED BY <1>3, <1>4, <1>5

\* Writing one wallet changes the Mana in the wallets by the difference.
LEMMA WalletWritten ==
  ASSUME TypeOK, TypeOK', NEW u \in Users, NEW n, mana' = [mana EXCEPT ![u] = n]
  PROVE  Total(mana') = Total(mana) - mana[u] + n
<1> DEFINE after == mana'
<1>1. mana \in [Users -> Nat] /\ after \in [Users -> Nat] /\ after[u] = n
  BY DEF TypeOK
<1>2. \A v \in Users : v # u => after[v] = mana[v]
  BY DEF TypeOK
<1> HIDE DEF after
<1>3. Total(after) = Total(mana) - mana[u] + after[u]
  BY <1>1, <1>2, UsersAssumption, TotalChange
<1> QED BY <1>1, <1>3 DEF after

\* Nothing changes in the queue, the supply or the wallets' Mana.
LEMMA EscrowFrame ==
  ASSUME EscrowBacked, UNCHANGED <<queue, manaSupply, mana>>
  PROVE  EscrowBacked'
BY DEF EscrowBacked, QueuedMana, queue

\* The escrow of the redemption queue is exact; inductive with the types.
LEMMA EscrowStep == TypeOK /\ EscrowBacked /\ [Next]_vars => EscrowBacked'
<1> SUFFICES ASSUME TypeOK, EscrowBacked, [Next]_vars PROVE EscrowBacked'
  OBVIOUS
<1>t. TypeOK'
  BY TypeStep
<1>0. /\ manaSupply \in Nat /\ pendingManaSupply \in Nat /\ pendingManaVault \in Nat
      /\ mana \in [Users -> Nat] /\ Total(mana) \in Nat /\ Total(QueuedMana) \in Nat
      /\ pendingManaSupply = Total(QueuedMana)
      /\ pendingManaSupply <= pendingManaVault
      /\ manaSupply = pendingManaVault + Total(mana)
  BY UsersAssumption, TimeAssumption, QueuedType, UnitsFinite
  DEF TypeOK, EscrowBacked, Amount, MaxU64
<1>1. ASSUME NEW u \in Users, NEW amount \in 1..mim[u], NEW minOut \in 0..amount,
             DepositMim(u, amount, minOut)
      PROVE  EscrowBacked'
  <2> DEFINE out == ManaForDeposit(amount, activeMimVault, ActiveManaSupply)
  <2>1. /\ mana' = [mana EXCEPT ![u] = mana[u] + out]
        /\ manaSupply' = manaSupply + out
        /\ UNCHANGED queue
    BY <1>1 DEF DepositMim
  <2>2. manaSupply' \in Nat /\ mana'[u] \in Nat /\ mana'[u] = mana[u] + out /\ mana[u] \in Nat
    BY <1>t, <1>0, <2>1, TimeAssumption DEF TypeOK, Amount, MaxU64
  <2>3. out \in Int
    <3>1. ActiveManaSupply \in Int /\ activeMimVault \in Nat /\ amount \in Int
      BY <1>0 DEF TypeOK, ActiveManaSupply
    <3>2. CASE ActiveManaSupply = 0
      BY <3>1, <3>2 DEF ManaForDeposit
    <3>3. CASE ActiveManaSupply # 0
      BY <1>1, <3>1, <3>3 DEF ManaForDeposit, DepositMim
    <3> QED BY <3>2, <3>3
  <2> HIDE DEF out
  <2>4. Total(mana') = Total(mana) - mana[u] + (mana[u] + out)
    BY <1>t, <2>1, WalletWritten
  <2>5. QueuedMana' = QueuedMana
    BY <2>1 DEF QueuedMana, queue
  <2> QED BY <1>0, <2>1, <2>2, <2>3, <2>4, <2>5 DEF EscrowBacked, queue
<1>2. ASSUME NEW u \in Users, NEW amount \in 1..mim[u], DonateMim(u, amount)
      PROVE  EscrowBacked'
  BY <1>2, EscrowFrame DEF DonateMim
<1>3. ASSUME NEW u \in Users, NEW amount \in 1..mim[u], SendMimToPending(u, amount)
      PROVE  EscrowBacked'
  BY <1>3 DEF SendMimToPending, EscrowBacked, QueuedMana
<1>4. ASSUME NEW u \in Users, NEW amount \in 1..mana[u],
             NEW minOut \in 0..activeMimVault, StartDestake(u, amount, minOut)
      PROVE  EscrowBacked'
  <2>1. amount \in Nat /\ ActiveManaSupply > 0 /\ mana[u] \in Nat
    BY <1>0, <1>4 DEF StartDestake
  <2>2. /\ requests[u] = NoRequest
        /\ requests' = [requests EXCEPT ![u] = RequestFor(amount)]
        /\ mana' = [mana EXCEPT ![u] = mana[u] - amount]
        /\ pendingManaVault' = pendingManaVault + amount
        /\ pendingManaSupply' = pendingManaSupply + amount
        /\ manaSupply' = manaSupply
    BY <1>4 DEF StartDestake
  <2>3. RequestFor(amount).mana = amount /\ requests[u].mana = 0
    BY <2>1, <2>2, RequestForType DEF NoRequest
  <2>4. Total(QueuedMana') = Total(QueuedMana) - requests[u].mana + RequestFor(amount).mana
    BY <1>t, <2>2, QueueWritten
  <2>5. Total(mana') = Total(mana) - mana[u] + (mana[u] - amount)
    BY <1>t, <2>2, WalletWritten
  <2> QED BY <1>0, <2>1, <2>2, <2>3, <2>4, <2>5 DEF EscrowBacked
<1>5. ASSUME NEW u \in Users, NEW amount \in 1..mana[u], BurnMana(u, amount)
      PROVE  EscrowBacked'
  <2>1. /\ mana' = [mana EXCEPT ![u] = mana[u] - amount]
        /\ manaSupply' = manaSupply - amount
        /\ UNCHANGED queue
    BY <1>5 DEF BurnMana
  <2>2. Total(mana') = Total(mana) - mana[u] + (mana[u] - amount)
    BY <1>t, <2>1, WalletWritten
  <2>3. QueuedMana' = QueuedMana
    BY <2>1 DEF QueuedMana, queue
  <2>4. amount \in Nat /\ mana[u] \in Nat
    BY <1>0
  <2> QED BY <1>0, <2>1, <2>2, <2>3, <2>4 DEF EscrowBacked, queue
<1>6. ASSUME NEW u \in Users, NEW amount \in 1..mana[u], SendManaToPending(u, amount)
      PROVE  EscrowBacked'
  <2>1. /\ mana' = [mana EXCEPT ![u] = mana[u] - amount]
        /\ pendingManaVault' = pendingManaVault + amount
        /\ UNCHANGED <<requests, pendingManaSupply, manaSupply>>
    BY <1>6 DEF SendManaToPending
  <2>2. Total(mana') = Total(mana) - mana[u] + (mana[u] - amount)
    BY <1>t, <2>1, WalletWritten
  <2>3. QueuedMana' = QueuedMana
    BY <2>1 DEF QueuedMana
  <2>4. amount \in Nat /\ mana[u] \in Nat
    BY <1>0
  <2> QED BY <1>0, <2>1, <2>2, <2>3, <2>4 DEF EscrowBacked
<1>7. ASSUME NEW u \in Users, NEW amount \in 1..mana[u], NEW to \in Users,
             TransferMana(u, to, amount)
      PROVE  EscrowBacked'
  <2> DEFINE after == mana'
  <2>1. /\ after = [mana EXCEPT ![u] = mana[u] - amount, ![to] = mana[to] + amount]
        /\ u # to
        /\ UNCHANGED <<queue, manaSupply>>
    BY <1>0, <1>7 DEF TransferMana
  <2>2. after \in [Users -> Nat]
    BY <1>t DEF TypeOK
  <2> HIDE DEF after
  <2>3. after[u] + after[to] = mana[u] + mana[to]
    <3>1. mana[u] \in Nat /\ mana[to] \in Nat /\ amount \in Nat
      BY <1>0
    <3>2. after[u] = mana[u] - amount /\ after[to] = mana[to] + amount
      BY <1>0, <2>1
    <3> QED BY <3>1, <3>2
  <2>4. \A w \in Users : w # u /\ w # to => after[w] = mana[w]
    BY <1>0, <2>1
  <2>5. u # to
    BY <2>1
  <2>6. Total(after) = Total(mana)
    BY <1>0, <2>2, <2>3, <2>4, <2>5, UsersAssumption, TotalTransfer
  <2>7. QueuedMana' = QueuedMana
    BY <2>1 DEF QueuedMana, queue
  <2> QED BY <1>0, <2>1, <2>6, <2>7 DEF EscrowBacked, queue, after
<1>8. ASSUME NEW u \in Users, FinalizeDestake(u)
      PROVE  EscrowBacked'
  <2>1. requests[u].mana \in Nat
    BY DEF TypeOK, Request
  <2>2. /\ requests' = [requests EXCEPT ![u] = NoRequest]
        /\ pendingManaVault' = pendingManaVault - requests[u].mana
        /\ manaSupply' = manaSupply - requests[u].mana
        /\ pendingManaSupply' = pendingManaSupply - requests[u].mana
        /\ mana' = mana
    BY <1>8 DEF FinalizeDestake
  <2>3. Total(QueuedMana') = Total(QueuedMana) - requests[u].mana + NoRequest.mana
    BY <1>t, <2>2, QueueWritten
  <2>4. NoRequest.mana = 0
    BY DEF NoRequest
  <2> QED BY <1>0, <2>1, <2>2, <2>3, <2>4 DEF EscrowBacked
<1>9. CASE AssetFlow
  BY <1>9, EscrowFrame DEF AssetFlow, DonateAsset, CreateAssetVault, SwapAssetToMim
<1>10. CASE Governance
  BY <1>10, EscrowFrame DEF Governance, InitializeTreasury, SetSwapRouter,
     SetCooldownSeconds, SetTreasuryAuthority, AcceptTreasuryAuthority
<1>11. CASE Tick
  BY <1>11, EscrowFrame DEF Tick
<1>12. CASE UNCHANGED vars
  BY <1>12, EscrowFrame DEF vars
<1> QED
  BY <1>1, <1>2, <1>3, <1>4, <1>5, <1>6, <1>7, <1>8, <1>9, <1>10, <1>11, <1>12
  DEF Next, Holders

\* The escrow holds at least what is queued, the queue's total is exact, and the
\* Mana mint's supply is the wallets and the escrow, in every behaviour.
THEOREM AlwaysEscrowBacked == Spec => []EscrowBacked
<1>1. Init => EscrowBacked
  <2> SUFFICES ASSUME Init PROVE EscrowBacked
    OBVIOUS
  <2>1. QueuedMana = [u \in Users |-> 0] /\ mana = [u \in Users |-> 0]
    BY DEF Init, QueuedMana, NoRequest
  <2> QED BY <2>1, TotalZero DEF Init, EscrowBacked
<1> QED BY <1>1, TypeCorrect, EscrowStep, PTL DEF Spec

\* Nothing changes in the queue's MIM.
LEMMA ReservesFrame ==
  ASSUME ReservesBacked, UNCHANGED <<requests, pendingMimVault>>
  PROVE  ReservesBacked'
BY DEF ReservesBacked, QueuedMim

\* The pending MIM vault covers the queue; inductive with the types.
LEMMA ReservesStep == TypeOK /\ ReservesBacked /\ [Next]_vars => ReservesBacked'
<1> SUFFICES ASSUME TypeOK, ReservesBacked, [Next]_vars PROVE ReservesBacked'
  OBVIOUS
<1>t. TypeOK'
  BY TypeStep
<1>0. pendingMimVault \in Nat /\ Total(QueuedMim) \in Nat /\ Total(QueuedMim) <= pendingMimVault
  BY UsersAssumption, QueuedType, UnitsFinite DEF TypeOK, ReservesBacked
<1>1. ASSUME NEW u \in Users, NEW amount \in 1..mim[u], SendMimToPending(u, amount)
      PROVE  ReservesBacked'
  <2>1. amount \in Nat /\ pendingMimVault' = pendingMimVault + amount
    BY <1>1 DEF TypeOK, SendMimToPending
  <2>2. QueuedMim' = QueuedMim
    BY <1>1 DEF SendMimToPending, QueuedMim
  <2> QED BY <1>0, <2>1, <2>2 DEF ReservesBacked
<1>2. ASSUME NEW u \in Users, NEW amount \in 1..mana[u],
             NEW minOut \in 0..activeMimVault, StartDestake(u, amount, minOut)
      PROVE  ReservesBacked'
  <2> DEFINE reserved == RequestFor(amount).reserved
  <2>1. amount \in Nat /\ ActiveManaSupply > 0
    BY <1>2 DEF TypeOK, StartDestake
  <2>2. reserved \in Nat
    BY <2>1, RequestForType DEF Request
  <2>3. /\ requests' = [requests EXCEPT ![u] = RequestFor(amount)]
        /\ pendingMimVault' = pendingMimVault + reserved
        /\ requests[u].reserved = 0
    BY <1>2 DEF StartDestake, NoRequest
  <2>4. Total(QueuedMim') = Total(QueuedMim) - requests[u].reserved + reserved
    BY <1>t, <2>3, QueueWritten
  <2> HIDE DEF reserved
  <2> QED BY <1>0, <2>2, <2>3, <2>4 DEF ReservesBacked
<1>3. ASSUME NEW u \in Users, FinalizeDestake(u)
      PROVE  ReservesBacked'
  <2>1. requests[u].reserved \in Nat
    BY DEF TypeOK, Request
  <2>2. /\ requests' = [requests EXCEPT ![u] = NoRequest]
        /\ pendingMimVault' = pendingMimVault - requests[u].reserved
    BY <1>3 DEF FinalizeDestake, CanPay, Payout
  <2>3. Total(QueuedMim') = Total(QueuedMim) - requests[u].reserved + NoRequest.reserved
    BY <1>t, <2>2, QueueWritten
  <2>4. NoRequest.reserved = 0
    BY DEF NoRequest
  <2> QED BY <1>0, <2>1, <2>2, <2>3, <2>4 DEF ReservesBacked
<1>4. ASSUME NEW u \in Users,
             \/ \E amount \in 1..mim[u] :
                  \/ \E minOut \in 0..amount : DepositMim(u, amount, minOut)
                  \/ DonateMim(u, amount)
             \/ \E amount \in 1..mana[u] :
                  \/ BurnMana(u, amount) \/ SendManaToPending(u, amount)
                  \/ \E to \in Users : TransferMana(u, to, amount)
      PROVE  ReservesBacked'
  BY <1>4, ReservesFrame
  DEF DepositMim, DonateMim, BurnMana, SendManaToPending, TransferMana, queue
<1>5. CASE AssetFlow
  BY <1>5, ReservesFrame DEF AssetFlow, DonateAsset, CreateAssetVault, SwapAssetToMim, queue
<1>6. CASE Governance
  BY <1>6, ReservesFrame DEF Governance, InitializeTreasury, SetSwapRouter,
     SetCooldownSeconds, SetTreasuryAuthority, AcceptTreasuryAuthority, queue
<1>7. CASE Tick \/ UNCHANGED vars
  BY <1>7, ReservesFrame DEF Tick, vars, queue
<1> QED BY <1>1, <1>2, <1>3, <1>4, <1>5, <1>6, <1>7 DEF Next, Holders

\* Whatever is queued can be paid, all of it at once, in every behaviour.
THEOREM AlwaysReservesBacked == Spec => []ReservesBacked
<1>1. Init => ReservesBacked
  <2> SUFFICES ASSUME Init PROVE ReservesBacked
    OBVIOUS
  <2>1. QueuedMim = [u \in Users |-> 0]
    BY DEF Init, QueuedMim, NoRequest
  <2> QED BY <2>1, TotalZero DEF Init, ReservesBacked
<1> QED BY <1>1, TypeCorrect, ReservesStep, PTL DEF Spec

----------------------------------------------------------------------------
(* What follows for holders *)

\* A wallet's Mana is part of the active supply.
LEMMA HoldingIsActive ==
  ASSUME TypeOK, EscrowBacked, NEW u \in Users
  PROVE  mana[u] \in Nat /\ mana[u] <= ActiveManaSupply
<1>1. /\ manaSupply \in Nat /\ pendingManaSupply \in Nat /\ pendingManaVault \in Nat
      /\ mana \in [Users -> Nat] /\ mana[u] \in Nat /\ Total(mana) \in Nat
  BY UsersAssumption, TimeAssumption, UnitsFinite DEF TypeOK, Amount, MaxU64
<1>2. mana[u] <= Total(mana)
  BY <1>1, UsersAssumption, BalanceAtMostTotal
<1> QED BY <1>1, <1>2 DEF EscrowBacked, ActiveManaSupply

\* In every behaviour a holder can redeem everything at par or better.
THEOREM AlwaysRedeemableAtPar == Spec => []RedeemableAtPar
<1>1. TypeOK /\ FullyBacked /\ EscrowBacked => RedeemableAtPar
  <2> SUFFICES ASSUME TypeOK, FullyBacked, EscrowBacked, NEW u \in Users, mana[u] > 0
               PROVE  /\ mana[u] <= ActiveManaSupply
                      /\ MimForRedemption(mana[u], activeMimVault, ActiveManaSupply)
                           \in mana[u]..activeMimVault
    BY DEF RedeemableAtPar
  <2>1. mana[u] \in Nat /\ mana[u] <= ActiveManaSupply
    BY HoldingIsActive
  <2>2. /\ activeMimVault \in Nat /\ ActiveManaSupply \in Nat
        /\ ActiveManaSupply > 0 /\ ActiveManaSupply <= activeMimVault
    BY <2>1, TimeAssumption DEF TypeOK, FullyBacked, ActiveManaSupply, Amount, MaxU64
  <2> QED BY <2>1, <2>2, RedemptionPrice
<1> QED BY <1>1, TypeCorrect, AlwaysFullyBacked, AlwaysEscrowBacked, PTL

\* For every price, every wallet and every way to round: a deposit redeemed at
\* once never brings a gain.
THEOREM JoiningIsNoGain == Spec => []JoiningNeverPays
<1>1. TypeOK /\ FullyBacked => JoiningNeverPays
  <2> SUFFICES ASSUME TypeOK, FullyBacked, ActiveManaSupply > 0,
                      NEW u \in Users, NEW paid \in 1..mim[u]
               PROVE  LET out == ManaForDeposit(paid, activeMimVault, ActiveManaSupply)
                      IN  MimForRedemption(out, activeMimVault + paid, ActiveManaSupply + out)
                            <= paid
    BY DEF JoiningNeverPays
  <2>1. paid \in Nat /\ activeMimVault \in Nat /\ ActiveManaSupply \in Nat
        /\ ActiveManaSupply <= activeMimVault
    BY TimeAssumption DEF TypeOK, FullyBacked, ActiveManaSupply, Amount, MaxU64
  <2> QED BY <2>1, JoinAndLeave
<1> QED BY <1>1, TypeCorrect, AlwaysFullyBacked, PTL

\* Neither deposits nor redemptions gain by being made in two parts.
THEOREM PartsAreNoGain == Spec => []PartsNeverPay
<1>1. ASSUME TypeOK, FullyBacked, EscrowBacked
      PROVE  PartsNeverPay
  <2> DEFINE A == activeMimVault
             S == ActiveManaSupply
  <2> SUFFICES ASSUME S > 0, NEW u \in Users
               PROVE  /\ \A whole \in 2..mim[u] : \A part \in 1..(whole - 1) :
                           LET first == ManaForDeposit(part, A, S)
                               second == ManaForDeposit(whole - part, A + part, S + first)
                           IN  first + second <= ManaForDeposit(whole, A, S)
                      /\ \A whole \in 2..mana[u] : \A part \in 1..(whole - 1) :
                           LET first == MimForRedemption(part, A, S)
                               second == MimForRedemption(whole - part, A - first, S - part)
                           IN  first + second <= MimForRedemption(whole, A, S)
    BY DEF PartsNeverPay
  <2>1. A \in Nat /\ S \in Nat /\ S <= A /\ mim[u] \in Nat /\ mana[u] \in Nat /\ mana[u] <= S
    <3>1. mana[u] \in Nat /\ mana[u] <= S
      BY <1>1, HoldingIsActive
    <3> QED BY <1>1, <3>1, TimeAssumption
            DEF TypeOK, FullyBacked, ActiveManaSupply, Amount, MaxU64
  <2> HIDE DEF A, S
  <2>2. ASSUME NEW whole \in 2..mim[u], NEW part \in 1..(whole - 1)
        PROVE  ManaForDeposit(part, A, S)
                 + ManaForDeposit(whole - part, A + part, S + ManaForDeposit(part, A, S))
                 <= ManaForDeposit(whole, A, S)
    <3> DEFINE left == whole - part
    <3>1. part \in Nat /\ left \in Nat /\ part + left = whole
      BY <2>1
    <3> HIDE DEF left
    <3>2. ManaForDeposit(part, A, S) + ManaForDeposit(left, A + part, S + ManaForDeposit(part, A, S))
            <= ManaForDeposit(part + left, A, S)
      BY <2>1, <3>1, DepositsInParts
    <3> QED BY <3>1, <3>2 DEF left
  <2>3. ASSUME NEW whole \in 2..mana[u], NEW part \in 1..(whole - 1)
        PROVE  MimForRedemption(part, A, S)
                 + MimForRedemption(whole - part, A - MimForRedemption(part, A, S), S - part)
                 <= MimForRedemption(whole, A, S)
    <3> DEFINE left == whole - part
    <3>1. part \in Nat /\ left \in Nat /\ left > 0 /\ part + left = whole /\ part + left <= S
      BY <2>1
    <3> HIDE DEF left
    <3>2. MimForRedemption(part, A, S)
            + MimForRedemption(left, A - MimForRedemption(part, A, S), S - part)
            <= MimForRedemption(part + left, A, S)
      BY <2>1, <3>1, RedemptionsInParts
    <3> QED BY <3>1, <3>2 DEF left
  <2> QED BY <2>2, <2>3
<1> QED BY <1>1, TypeCorrect, AlwaysFullyBacked, AlwaysEscrowBacked, PTL

\* An open request is only ever replaced by its own full payment.
THEOREM QueuedClaimsFrozen == Spec => QueuedClaimFrozen
<1> DEFINE Paid(u) == /\ requests'[u] = NoRequest
                      /\ now >= requests[u].unlock
                      /\ mim'[u] = mim[u] + requests[u].reserved
           A == \A u \in Users : requests[u] # NoRequest /\ requests'[u] # requests[u] => Paid(u)
<1>1. TypeOK /\ [Next]_vars => [A]_vars
  <2> SUFFICES ASSUME TypeOK, Next, NEW u \in Users,
                      requests[u] # NoRequest, requests'[u] # requests[u]
               PROVE  Paid(u)
    BY DEF vars
  <2>1. ASSUME NEW v \in Users, FinalizeDestake(v) PROVE Paid(u)
    <3>1. v = u
      BY <2>1 DEF TypeOK, FinalizeDestake
    <3> QED BY <2>1, <3>1 DEF TypeOK, FinalizeDestake, CanPay, Payout
  <2>2. ASSUME NEW v \in Users, NEW amount \in 1..mana[v], NEW minOut \in 0..activeMimVault,
               StartDestake(v, amount, minOut)
        PROVE  FALSE
    BY <2>2 DEF TypeOK, StartDestake
  <2>3. ASSUME NEW v \in Users,
               \/ \E amount \in 1..mim[v] :
                    \/ \E minOut \in 0..amount : DepositMim(v, amount, minOut)
                    \/ DonateMim(v, amount) \/ SendMimToPending(v, amount)
               \/ \E amount \in 1..mana[v] :
                    \/ BurnMana(v, amount) \/ SendManaToPending(v, amount)
                    \/ \E to \in Users : TransferMana(v, to, amount)
        PROVE  FALSE
    BY <2>3 DEF DepositMim, DonateMim, SendMimToPending, BurnMana, SendManaToPending,
       TransferMana, queue
  <2>4. CASE AssetFlow \/ Governance \/ Tick
    BY <2>4 DEF AssetFlow, DonateAsset, CreateAssetVault, SwapAssetToMim, Governance,
       InitializeTreasury, SetSwapRouter, SetCooldownSeconds, SetTreasuryAuthority,
       AcceptTreasuryAuthority, Tick, queue
  <2> QED BY <2>1, <2>2, <2>3, <2>4 DEF Next, Holders
<1>2. QueuedClaimFrozen <=> [][A]_vars
  BY DEF QueuedClaimFrozen
<1> HIDE DEF A
<1> QED BY <1>1, <1>2, TypeCorrect, PTL DEF Spec

\* While every value the authority may set fits an i64, each request waits out
\* the cooldown it was queued under: the cast in start_destake is the only way
\* around it (the run mana_cooldown_cast takes that way).
THEOREM CooldownsServed ==
  ASSUME \A seconds \in Cooldowns : seconds < I64Half
  PROVE  Spec => CooldownServed
<1> DEFINE A == \A u \in Users : requests[u] = NoRequest /\ requests'[u] # NoRequest
                  => requests'[u].unlock >= now + cooldownSeconds
<1>1. TypeOK /\ [Next]_vars => [A]_vars
  <2> SUFFICES ASSUME TypeOK, Next, NEW u \in Users,
                      requests[u] = NoRequest, requests'[u] # NoRequest
               PROVE  requests'[u].unlock >= now + cooldownSeconds
    BY DEF vars
  <2>1. ASSUME NEW v \in Users, NEW amount \in 1..mana[v], NEW minOut \in 0..activeMimVault,
               StartDestake(v, amount, minOut)
        PROVE  requests'[u].unlock >= now + cooldownSeconds
    <3>1. v = u /\ requests'[u] = RequestFor(amount)
      BY <2>1 DEF TypeOK, StartDestake
    <3>2. /\ cooldownSeconds \in Nat /\ now \in Nat /\ cooldownSeconds < I64Half
          /\ UnlockTime(cooldownSeconds) = now + cooldownSeconds
      BY TimeAssumption DEF TypeOK, UnlockTime, AsI64, MaxU64
    <3>3. requests'[u].unlock = now + cooldownSeconds
      BY <3>1, <3>2 DEF RequestFor
    <3> QED BY <3>2, <3>3
  <2>2. ASSUME NEW v \in Users, FinalizeDestake(v)
        PROVE  FALSE
    BY <2>2 DEF TypeOK, FinalizeDestake
  <2>3. ASSUME NEW v \in Users,
               \/ \E amount \in 1..mim[v] :
                    \/ \E minOut \in 0..amount : DepositMim(v, amount, minOut)
                    \/ DonateMim(v, amount) \/ SendMimToPending(v, amount)
               \/ \E amount \in 1..mana[v] :
                    \/ BurnMana(v, amount) \/ SendManaToPending(v, amount)
                    \/ \E to \in Users : TransferMana(v, to, amount)
        PROVE  FALSE
    BY <2>3 DEF DepositMim, DonateMim, SendMimToPending, BurnMana, SendManaToPending,
       TransferMana, queue
  <2>4. CASE AssetFlow \/ Governance \/ Tick
    BY <2>4 DEF AssetFlow, DonateAsset, CreateAssetVault, SwapAssetToMim, Governance,
       InitializeTreasury, SetSwapRouter, SetCooldownSeconds, SetTreasuryAuthority,
       AcceptTreasuryAuthority, Tick, queue
  <2> QED BY <2>1, <2>2, <2>3, <2>4 DEF Next, Holders
<1>2. CooldownServed <=> [][A]_vars
  BY DEF CooldownServed
<1> HIDE DEF A
<1> QED BY <1>1, <1>2, TypeCorrect, PTL DEF Spec

----------------------------------------------------------------------------
(* What follows for the owners of open requests *)

\* A request past its cooldown.
Matured(u) == requests[u] # NoRequest /\ now >= requests[u].unlock

\* An open request can always be paid: neither the burn, the transfer nor the
\* subtraction of finalize_destake can fail, whatever else happened since it was
\* queued.  After the cooldown nothing is left that could refuse the owner.
THEOREM OpenRequestsCanBePaid ==
  Spec => [](\A u \in Users : requests[u] # NoRequest => CanPay(u))
<1>1. TypeOK /\ EscrowBacked /\ ReservesBacked
        => \A u \in Users : requests[u] # NoRequest => CanPay(u)
  <2> SUFFICES ASSUME TypeOK, EscrowBacked, ReservesBacked, NEW u \in Users
               PROVE  CanPay(u)
    OBVIOUS
  <2>1. /\ QueuedMana \in [Users -> Nat] /\ QueuedMim \in [Users -> Nat]
        /\ QueuedMana[u] = requests[u].mana /\ QueuedMim[u] = requests[u].reserved
    BY QueuedType DEF QueuedMana, QueuedMim
  <2>2. QueuedMana[u] <= Total(QueuedMana) /\ QueuedMim[u] <= Total(QueuedMim)
    BY <2>1, UsersAssumption, BalanceAtMostTotal
  <2>3. /\ Total(QueuedMana) \in Nat /\ Total(QueuedMim) \in Nat /\ Total(mana) \in Nat
    BY <2>1, UsersAssumption, UnitsFinite DEF TypeOK
  <2>4. /\ requests[u].mana \in Nat /\ requests[u].reserved \in Nat
        /\ pendingManaVault \in Nat /\ pendingMimVault \in Nat /\ pendingManaSupply \in Nat
    BY DEF TypeOK, Request
  <2> QED BY <2>1, <2>2, <2>3, <2>4 DEF EscrowBacked, ReservesBacked, CanPay, Payout
<1> QED BY <1>1, TypeCorrect, AlwaysEscrowBacked, AlwaysReservesBacked, PTL

\* A request past its cooldown stays so until finalize_destake takes it: time
\* never runs back behind it, and no other instruction touches it.
THEOREM MaturedUntilFinalized ==
  Spec => [][\A u \in Users : Matured(u) => Matured(u)' \/ FinalizeDestake(u)]_vars
<1> DEFINE A == \A u \in Users : Matured(u) => Matured(u)' \/ FinalizeDestake(u)
<1>1. TypeOK /\ [Next]_vars => [A]_vars
  <2> SUFFICES ASSUME TypeOK, Next, NEW u \in Users, Matured(u), ~FinalizeDestake(u)
               PROVE  Matured(u)'
    BY DEF vars
  <2>1. now \in Nat
    BY TimeAssumption DEF TypeOK
  <2>2. ASSUME NEW v \in Users, FinalizeDestake(v)
        PROVE  requests'[u] = requests[u] /\ now' = now
    <3>1. v # u
      BY <2>2
    <3> QED BY <2>2, <3>1 DEF TypeOK, FinalizeDestake
  <2>3. ASSUME NEW v \in Users, NEW amount \in 1..mana[v], NEW minOut \in 0..activeMimVault,
               StartDestake(v, amount, minOut)
        PROVE  requests'[u] = requests[u] /\ now' = now
    <3>1. v # u
      BY <2>3 DEF StartDestake, Matured
    <3> QED BY <2>3, <3>1 DEF TypeOK, StartDestake
  <2>4. ASSUME NEW v \in Users,
               \/ \E amount \in 1..mim[v] :
                    \/ \E minOut \in 0..amount : DepositMim(v, amount, minOut)
                    \/ DonateMim(v, amount) \/ SendMimToPending(v, amount)
               \/ \E amount \in 1..mana[v] :
                    \/ BurnMana(v, amount) \/ SendManaToPending(v, amount)
                    \/ \E to \in Users : TransferMana(v, to, amount)
        PROVE  requests' = requests /\ now' = now
    BY <2>4 DEF DepositMim, DonateMim, SendMimToPending, BurnMana, SendManaToPending,
       TransferMana, queue
  <2>5. CASE AssetFlow \/ Governance
    <3>1. requests' = requests /\ now' = now
      BY <2>5 DEF AssetFlow, DonateAsset, CreateAssetVault, SwapAssetToMim, Governance,
         InitializeTreasury, SetSwapRouter, SetCooldownSeconds, SetTreasuryAuthority,
         AcceptTreasuryAuthority, queue
    <3> QED BY <3>1 DEF Matured
  <2>6. CASE Tick
    <3>1. requests' = requests /\ now' = now + 1 /\ requests[u].unlock \in Int
      BY <2>6 DEF Tick, queue, TypeOK, Request
    <3> QED BY <2>1, <3>1 DEF Matured
  <2>7. CASE Holders
    <3>1. requests'[u] = requests[u] /\ now' = now
      BY <2>2, <2>3, <2>4, <2>7 DEF Holders
    <3> QED BY <3>1 DEF Matured
  <2> QED BY <2>5, <2>6, <2>7 DEF Next
<1> HIDE DEF A
<1> QED BY <1>1, TypeCorrect, PTL DEF Spec, A
----------------------------------------------------------------------------
(* The treasury as a whole *)

\* A queued redemption is never worth less than one for one.
QueuedAtPar == \A u \in Users : requests[u].mana <= requests[u].reserved

LEMMA QueuedAtParStep ==
  TypeOK /\ FullyBacked /\ EscrowBacked /\ QueuedAtPar /\ [Next]_vars => QueuedAtPar'
<1> SUFFICES ASSUME TypeOK, FullyBacked, EscrowBacked, QueuedAtPar, [Next]_vars
             PROVE  QueuedAtPar'
  OBVIOUS
<1>0. requests \in [Users -> Request]
  BY DEF TypeOK
<1>1. ASSUME NEW u \in Users, NEW amount \in 1..mana[u],
             NEW minOut \in 0..activeMimVault, StartDestake(u, amount, minOut)
      PROVE  QueuedAtPar'
  <2>1. /\ amount \in Nat /\ amount <= ActiveManaSupply /\ ActiveManaSupply > 0
        /\ ActiveManaSupply \in Nat /\ activeMimVault \in Nat
        /\ ActiveManaSupply <= activeMimVault
    <3>1. mana[u] \in Nat /\ mana[u] <= ActiveManaSupply
      BY HoldingIsActive
    <3> QED BY <1>1, <3>1, TimeAssumption
            DEF TypeOK, FullyBacked, ActiveManaSupply, Amount, MaxU64, StartDestake
  <2>2. RequestFor(amount).mana = amount /\ RequestFor(amount).reserved >= amount
    BY <2>1, RequestForType, RedemptionPrice
  <2>3. requests' = [requests EXCEPT ![u] = RequestFor(amount)]
    BY <1>1 DEF StartDestake
  <2>4. amount <= RequestFor(amount).reserved
    BY <2>1, <2>2, RequestForType DEF Request
  <2> QED BY <1>0, <2>2, <2>3, <2>4 DEF QueuedAtPar
<1>2. ASSUME NEW u \in Users, FinalizeDestake(u)
      PROVE  QueuedAtPar'
  <2>1. requests' = [requests EXCEPT ![u] = NoRequest]
    BY <1>2 DEF FinalizeDestake
  <2>2. NoRequest.mana <= NoRequest.reserved
    BY DEF NoRequest
  <2> QED BY <1>0, <2>1, <2>2 DEF QueuedAtPar
<1>3. ASSUME NEW u \in Users,
             \/ \E amount \in 1..mim[u] :
                  \/ \E minOut \in 0..amount : DepositMim(u, amount, minOut)
                  \/ DonateMim(u, amount) \/ SendMimToPending(u, amount)
             \/ \E amount \in 1..mana[u] :
                  \/ BurnMana(u, amount) \/ SendManaToPending(u, amount)
                  \/ \E to \in Users : TransferMana(u, to, amount)
      PROVE  requests' = requests
  BY <1>3 DEF DepositMim, DonateMim, SendMimToPending, BurnMana, SendManaToPending,
     TransferMana, queue
<1>4. CASE AssetFlow \/ Governance \/ Tick \/ UNCHANGED vars
  <2>1. requests' = requests
    BY <1>4 DEF AssetFlow, DonateAsset, CreateAssetVault, SwapAssetToMim, Governance,
       InitializeTreasury, SetSwapRouter, SetCooldownSeconds, SetTreasuryAuthority,
       AcceptTreasuryAuthority, Tick, vars, queue
  <2> QED BY <2>1 DEF QueuedAtPar
<1>5. CASE Holders
  BY <1>1, <1>2, <1>3, <1>5 DEF Holders, QueuedAtPar
<1> QED BY <1>4, <1>5 DEF Next

\* Every Mana in existence, queued or not, in a wallet or in the escrow, is backed
\* by a MIM of its own in the two vaults.
THEOREM EveryManaIsBacked == Spec => [](manaSupply <= activeMimVault + pendingMimVault)
<1>1. Spec => []QueuedAtPar
  <2>1. Init => QueuedAtPar
    BY DEF Init, QueuedAtPar, NoRequest
  <2> QED BY <2>1, QueuedAtParStep, TypeCorrect, AlwaysFullyBacked, AlwaysEscrowBacked, PTL
          DEF Spec
<1>2. TypeOK /\ FullyBacked /\ EscrowBacked /\ ReservesBacked /\ QueuedAtPar
        => manaSupply <= activeMimVault + pendingMimVault
  <2> SUFFICES ASSUME TypeOK, FullyBacked, EscrowBacked, ReservesBacked, QueuedAtPar
               PROVE  manaSupply <= activeMimVault + pendingMimVault
    OBVIOUS
  <2>1. QueuedMana \in [Users -> Nat] /\ QueuedMim \in [Users -> Nat]
    BY QueuedType
  <2>2. \A u \in Users : QueuedMana[u] <= QueuedMim[u]
    BY DEF QueuedAtPar, QueuedMana, QueuedMim
  <2>3. /\ Total(QueuedMana) <= Total(QueuedMim)
        /\ Total(QueuedMana) \in Nat /\ Total(QueuedMim) \in Nat
    BY <2>1, <2>2, UsersAssumption, TotalMonotone, UnitsFinite
  <2> QED BY <2>3, TimeAssumption
          DEF TypeOK, FullyBacked, EscrowBacked, ReservesBacked, ActiveManaSupply, Amount, MaxU64
<1> QED BY <1>1, <1>2, TypeCorrect, AlwaysFullyBacked, AlwaysEscrowBacked,
           AlwaysReservesBacked, PTL

\* The MIM in the wallets, the vaults and the router's markets.
AllMim == Total(mim) + activeMimVault + pendingMimVault + marketMim

\* ... which is what there was at the start.
IssuedMim == Total([u \in Users |-> MimPerUser]) + MarketMim

\* Writing one wallet changes the MIM in the wallets by the difference.
LEMMA MimWritten ==
  ASSUME TypeOK, TypeOK', NEW u \in Users, NEW n, mim' = [mim EXCEPT ![u] = n]
  PROVE  Total(mim') = Total(mim) - mim[u] + n
<1> DEFINE after == mim'
<1>1. mim \in [Users -> Nat] /\ after \in [Users -> Nat] /\ after[u] = n
  BY DEF TypeOK
<1>2. \A v \in Users : v # u => after[v] = mim[v]
  BY DEF TypeOK
<1> HIDE DEF after
<1>3. Total(after) = Total(mim) - mim[u] + after[u]
  BY <1>1, <1>2, UsersAssumption, TotalChange
<1> QED BY <1>1, <1>3 DEF after

LEMMA MimStep == TypeOK /\ [Next]_vars => AllMim' = AllMim
<1> SUFFICES ASSUME TypeOK, [Next]_vars PROVE AllMim' = AllMim
  OBVIOUS
<1>t. TypeOK'
  BY TypeStep
<1>0. /\ mim \in [Users -> Nat] /\ Total(mim) \in Nat
      /\ activeMimVault \in Nat /\ pendingMimVault \in Nat /\ marketMim \in Nat
  BY UsersAssumption, UnitsFinite DEF TypeOK
<1>1. ASSUME NEW u \in Users, NEW amount \in 1..mim[u],
             \/ \E minOut \in 0..amount : DepositMim(u, amount, minOut)
             \/ DonateMim(u, amount) \/ SendMimToPending(u, amount)
      PROVE  AllMim' = AllMim
  <2>1. /\ mim' = [mim EXCEPT ![u] = mim[u] - amount]
        /\ \/ activeMimVault' = activeMimVault + amount /\ pendingMimVault' = pendingMimVault
           \/ activeMimVault' = activeMimVault /\ pendingMimVault' = pendingMimVault + amount
        /\ marketMim' = marketMim
    BY <1>1 DEF DepositMim, DonateMim, SendMimToPending, queue, other
  <2>2. Total(mim') = Total(mim) - mim[u] + (mim[u] - amount)
    BY <1>t, <2>1, MimWritten
  <2>3. amount \in Nat /\ mim[u] \in Nat
    BY <1>0
  <2>4. Total(mim') = Total(mim) - amount
    BY <1>0, <2>2, <2>3
  <2>5. Total(mim') + activeMimVault' + pendingMimVault' + marketMim'
          = Total(mim) + activeMimVault + pendingMimVault + marketMim
    BY <1>0, <2>1, <2>3, <2>4
  <2> QED BY <2>5 DEF AllMim
<1>2. ASSUME NEW u \in Users, NEW amount \in 1..mana[u],
             NEW minOut \in 0..activeMimVault, StartDestake(u, amount, minOut)
      PROVE  AllMim' = AllMim
  <2> DEFINE reserved == RequestFor(amount).reserved
  <2>1. amount \in Nat /\ ActiveManaSupply > 0
    BY <1>2 DEF TypeOK, StartDestake
  <2>2. reserved \in Nat
    BY <2>1, RequestForType DEF Request
  <2>3. /\ activeMimVault' = activeMimVault - reserved
        /\ pendingMimVault' = pendingMimVault + reserved
        /\ UNCHANGED <<mim, marketMim>>
    BY <1>2 DEF StartDestake, other
  <2> HIDE DEF reserved
  <2> QED BY <1>0, <2>2, <2>3 DEF AllMim
<1>3. ASSUME NEW u \in Users, FinalizeDestake(u)
      PROVE  AllMim' = AllMim
  <2>1. requests[u].reserved \in Nat /\ mim[u] \in Nat
    BY DEF TypeOK, Request
  <2>2. /\ mim' = [mim EXCEPT ![u] = mim[u] + requests[u].reserved]
        /\ pendingMimVault' = pendingMimVault - requests[u].reserved
        /\ UNCHANGED <<activeMimVault, marketMim>>
    BY <1>3 DEF FinalizeDestake, Payout, other
  <2>3. Total(mim') = Total(mim) - mim[u] + (mim[u] + requests[u].reserved)
    BY <1>t, <2>2, MimWritten
  <2> QED BY <1>0, <2>1, <2>2, <2>3 DEF AllMim
<1>4. ASSUME NEW signer, NEW router, NEW a, NEW amount, NEW minOut, NEW spent,
             NEW out \in (-activeMimVault)..marketMim,
             SwapAssetToMim(signer, router, a, amount, minOut, spent, out)
      PROVE  AllMim' = AllMim
  <2>1. /\ activeMimVault' = activeMimVault + out /\ marketMim' = marketMim - out
        /\ UNCHANGED <<mim, pendingMimVault>>
    BY <1>4 DEF SwapAssetToMim, queue
  <2>2. out \in Int
    BY <1>0
  <2> QED BY <1>0, <2>1, <2>2 DEF AllMim
<1>5. ASSUME UNCHANGED <<mim, activeMimVault, pendingMimVault, marketMim>>
      PROVE  AllMim' = AllMim
  BY <1>5 DEF AllMim
<1>6. ASSUME NEW u \in Users, NEW amount \in 1..mana[u],
             \/ BurnMana(u, amount) \/ SendManaToPending(u, amount)
             \/ \E to \in Users : TransferMana(u, to, amount)
      PROVE  AllMim' = AllMim
  BY <1>5, <1>6 DEF BurnMana, SendManaToPending, TransferMana, queue, other
<1>7. ASSUME NEW a \in Assets,
             \/ \E amount \in 1..MaxAsset : DonateAsset(a, amount)
             \/ \E signer \in Users : CreateAssetVault(signer, a)
      PROVE  AllMim' = AllMim
  BY <1>5, <1>7 DEF DonateAsset, CreateAssetVault, queue
<1>8. CASE Governance \/ Tick \/ UNCHANGED vars
  BY <1>5, <1>8 DEF Governance, InitializeTreasury, SetSwapRouter, SetCooldownSeconds,
     SetTreasuryAuthority, AcceptTreasuryAuthority, Tick, vars, queue, other
<1>9. CASE Holders
  BY <1>1, <1>2, <1>3, <1>6, <1>9 DEF Holders
<1>10. CASE AssetFlow
  BY <1>4, <1>7, <1>10 DEF AssetFlow
<1> QED BY <1>8, <1>9, <1>10 DEF Next

\* No instruction makes or loses a MIM: what leaves a wallet, a vault or a market
\* arrives in another.
THEOREM MimIsConserved == Spec => [](AllMim = IssuedMim)
<1>1. Init => AllMim = IssuedMim
  <2> SUFFICES ASSUME Init PROVE AllMim = IssuedMim
    OBVIOUS
  <2>1. [u \in Users |-> MimPerUser] \in [Users -> Nat]
    BY AmountAssumption
  <2>2. Total([u \in Users |-> MimPerUser]) \in Nat
    BY <2>1, UsersAssumption, UnitsFinite
  <2> QED BY <2>2, AmountAssumption DEF Init, AllMim, IssuedMim
<1>2. TypeOK /\ AllMim = IssuedMim /\ [Next]_vars => (AllMim = IssuedMim)'
  <2>1. IssuedMim' = IssuedMim
    BY DEF IssuedMim
  <2> QED BY <2>1, MimStep
<1> QED BY <1>1, <1>2, TypeCorrect, PTL DEF Spec

\* While the MIM in existence fits a u64, none of the arithmetic that deposit_mim
\* checks can fail it, whatever a wallet deposits: the active supply is never
\* negative, never without MIM behind it, and the mint never overflows.
THEOREM DepositsNeverOverflow ==
  ASSUME IssuedMim <= MaxU64
  PROVE  Spec => [](\A u \in Users : \A amount \in 1..mim[u] :
                      /\ ActiveManaSupply >= 0
                      /\ ActiveManaSupply > 0 => activeMimVault > 0
                      /\ manaSupply + ManaForDeposit(amount, activeMimVault, ActiveManaSupply)
                           <= MaxU64)
<1> DEFINE Backed == manaSupply <= activeMimVault + pendingMimVault
           Conserved == AllMim = IssuedMim
           Fits == \A u \in Users : \A amount \in 1..mim[u] :
                     /\ ActiveManaSupply >= 0
                     /\ ActiveManaSupply > 0 => activeMimVault > 0
                     /\ manaSupply + ManaForDeposit(amount, activeMimVault, ActiveManaSupply)
                          <= MaxU64
<1>1. TypeOK /\ FullyBacked /\ EscrowBacked /\ Backed /\ Conserved => Fits
  <2> SUFFICES ASSUME TypeOK, FullyBacked, EscrowBacked, Backed, Conserved,
                      NEW u \in Users, NEW amount \in 1..mim[u]
               PROVE  /\ ActiveManaSupply >= 0
                      /\ ActiveManaSupply > 0 => activeMimVault > 0
                      /\ manaSupply + ManaForDeposit(amount, activeMimVault, ActiveManaSupply)
                           <= MaxU64
    OBVIOUS
  <2>1. /\ mim \in [Users -> Nat] /\ mim[u] \in Nat /\ amount \in Nat /\ amount <= mim[u]
        /\ activeMimVault \in Nat /\ pendingMimVault \in Nat /\ marketMim \in Nat
        /\ manaSupply \in Nat /\ ActiveManaSupply \in Int /\ MaxU64 \in Nat
        /\ ActiveManaSupply <= activeMimVault
    BY TimeAssumption DEF TypeOK, FullyBacked, ActiveManaSupply, Amount, MaxU64
  <2>2. ActiveManaSupply >= 0
    <3>1. mana[u] \in Nat /\ mana[u] <= ActiveManaSupply
      BY HoldingIsActive
    <3> QED BY <2>1, <3>1
  <2>3. Total(mim) \in Nat /\ mim[u] <= Total(mim)
    BY <2>1, UsersAssumption, UnitsFinite, BalanceAtMostTotal
  <2>4. ManaForDeposit(amount, activeMimVault, ActiveManaSupply) \in 0..amount
    <3>1. CASE ActiveManaSupply = 0
      BY <2>1, <3>1 DEF ManaForDeposit
    <3>2. CASE ActiveManaSupply > 0
      <4>1. ActiveManaSupply \in Nat
        BY <2>1, <3>2
      <4> QED BY <2>1, <3>2, <4>1, DepositPrice
    <3> QED BY <2>1, <2>2, <3>1, <3>2
  <2>5. Total(mim) + activeMimVault + pendingMimVault + marketMim <= MaxU64
    BY DEF AllMim
  <2> QED BY <2>1, <2>2, <2>3, <2>4, <2>5
<1> HIDE DEF Backed, Conserved, Fits
<1>2. Spec => []Backed /\ []Conserved
  BY EveryManaIsBacked, MimIsConserved, PTL DEF Backed, Conserved
<1>3. Spec => []Fits
  BY <1>1, <1>2, TypeCorrect, AlwaysFullyBacked, AlwaysEscrowBacked, PTL
<1> QED BY <1>3 DEF Fits
=============================================================================
