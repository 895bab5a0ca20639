------------------------ MODULE ManaTreasuryRefinement ------------------------
(***************************************************************************)
(* The treasury implements NavVault: every behaviour of ManaTreasury, seen *)
(* through the mapping of Nav, is a behaviour of the abstract vault.       *)
(***************************************************************************)
EXTENDS ManaTreasuryProofs

\* What the simulation of a step needs of the state it starts in.
IInv == TypeOK /\ FullyBacked /\ EscrowBacked

\* The quantities of the abstract vault, and their types.
LEMMA MappedTypes ==
  ASSUME IInv
  PROVE  /\ activeMimVault \in Nat /\ manaSupply \in Nat /\ pendingManaSupply \in Nat
         /\ ActiveManaSupply \in Nat /\ ActiveManaSupply <= activeMimVault
         /\ mim \in [Users -> Nat] /\ QueuedMim \in [Users -> Nat]
<1>1. /\ activeMimVault \in Nat /\ manaSupply \in Nat /\ pendingManaSupply \in Nat
      /\ pendingManaVault \in Nat /\ mana \in [Users -> Nat]
      /\ mim \in [Users -> Nat] /\ QueuedMim \in [Users -> Nat]
  BY TimeAssumption, QueuedType DEF IInv, TypeOK, Amount, MaxU64
<1>2. Total(mana) \in Nat
  BY <1>1, UsersAssumption, UnitsFinite
<1> QED BY <1>1, <1>2 DEF IInv, EscrowBacked, FullyBacked, ActiveManaSupply

\* deposit_mim is a Join: the price never dilutes the holders.
LEMMA DepositJoins ==
  ASSUME IInv, NEW u \in Users, NEW amount \in 1..mim[u], NEW minOut \in 0..amount,
         DepositMim(u, amount, minOut)
  PROVE  Nav!Join(u)
<1> DEFINE A == activeMimVault
           S == ActiveManaSupply
           out == ManaForDeposit(amount, A, S)
<1>1. A \in Nat /\ S \in Nat /\ S <= A /\ amount \in Nat /\ amount \in 1..mim[u]
  BY MappedTypes
<1>2. /\ out > 0
      /\ mim' = [mim EXCEPT ![u] = @ - amount]
      /\ activeMimVault' = A + amount
      /\ manaSupply' = manaSupply + out
      /\ UNCHANGED queue
  BY DEF DepositMim
<1>3. out \in 0..amount
  <2>1. CASE S = 0
    BY <1>1, <2>1 DEF ManaForDeposit
  <2>2. CASE S > 0
    BY <1>1, <2>2, DepositPrice
  <2> QED BY <1>1, <2>1, <2>2
<1>4. S = 0 => out = amount
  BY DEF ManaForDeposit
<1>5. S > 0 => out * A <= amount * S
  BY <1>1, DepositPrice
<1>6. ActiveManaSupply' = S + out
  <2> HIDE DEF out
  <2> QED BY <1>2, <1>3, MappedTypes DEF ActiveManaSupply, queue
<1>7. QueuedMim' = QueuedMim
  BY <1>2 DEF QueuedMim, queue
<1>8. out \in 1..amount
  BY <1>1, <1>2, <1>3
<1> HIDE DEF out
<1>9. \E paid \in 1..mim[u] : \E issued \in 1..paid :
        /\ S = 0 => issued = paid
        /\ issued * A <= paid * S \/ S = 0
        /\ mim' = [mim EXCEPT ![u] = @ - paid]
        /\ activeMimVault' = A + paid
        /\ ActiveManaSupply' = S + issued
        /\ QueuedMim' = QueuedMim
  <2>1. out * A <= amount * S \/ S = 0
    BY <1>1, <1>5
  <2> HIDE DEF A, S
  <2> WITNESS amount \in 1..mim[u]
  <2> WITNESS out \in 1..amount
  <2> QED BY <1>2, <1>4, <1>6, <1>7, <2>1
<1> QED BY <1>9 DEF Nav!Join

\* start_destake is a Leave: exact value, rounded down, of Mana that is active.
LEMMA DestakeLeaves ==
  ASSUME IInv, NEW u \in Users, NEW amount \in 1..mana[u],
         NEW minOut \in 0..activeMimVault, StartDestake(u, amount, minOut)
  PROVE  Nav!Leave(u)
<1> DEFINE A == activeMimVault
           S == ActiveManaSupply
           q == MimForRedemption(amount, A, S)
<1>1. /\ A \in Nat /\ S \in Nat /\ S > 0 /\ S <= A
      /\ amount \in Nat /\ amount > 0 /\ amount <= S
  <2>1. mana[u] \in Nat /\ mana[u] <= S
    BY HoldingIsActive DEF IInv
  <2> QED BY <2>1, MappedTypes DEF StartDestake
<1>2. RequestFor(amount).reserved = q
  BY <1>1, RequestForType DEF IInv
<1>3. /\ requests[u] = NoRequest
      /\ requests' = [requests EXCEPT ![u] = RequestFor(amount)]
      /\ activeMimVault' = A - q
      /\ pendingManaSupply' = pendingManaSupply + amount
      /\ UNCHANGED <<manaSupply, mim>>
  BY <1>2 DEF StartDestake
<1>4. q \in amount..A /\ q * S <= amount * A /\ amount * A < (q + 1) * S
  BY <1>1, RedemptionPrice
<1>5. ActiveManaSupply' = S - amount
  BY <1>1, <1>3, MappedTypes DEF ActiveManaSupply
<1>6. QueuedMim[u] = 0
  BY <1>3 DEF QueuedMim, NoRequest
<1>7. QueuedMim' = [QueuedMim EXCEPT ![u] = q]
  BY <1>2, <1>3 DEF QueuedMim, IInv, TypeOK
<1>8. amount \in 1..S /\ q \in amount..A
  BY <1>1, <1>4
<1> HIDE DEF q
<1>9. \E redeemed \in 1..S : \E claim \in redeemed..A :
        /\ QueuedMim[u] = 0
        /\ claim * S <= redeemed * A
        /\ redeemed * A < (claim + 1) * S
        /\ QueuedMim' = [QueuedMim EXCEPT ![u] = claim]
        /\ activeMimVault' = A - claim
        /\ ActiveManaSupply' = S - redeemed
        /\ UNCHANGED mim
  <2> HIDE DEF A, S
  <2> USE <1>8
  <2> WITNESS amount \in 1..S
  <2> WITNESS q \in amount..A
  <2> QED BY <1>3, <1>4, <1>5, <1>6, <1>7
<1> QED BY <1>9 DEF Nav!Leave

\* finalize_destake is a Settle: the claim is paid in full.
LEMMA FinalizeSettles ==
  ASSUME IInv, NEW u \in Users, FinalizeDestake(u)
  PROVE  Nav!Settle(u) \/ UNCHANGED Nav!vars
<1>1. /\ requests[u].reserved \in Nat /\ requests[u].mana \in Nat
      /\ QueuedMim[u] = requests[u].reserved
  BY DEF IInv, TypeOK, Request, QueuedMim
<1>2. /\ requests' = [requests EXCEPT ![u] = NoRequest]
      /\ mim' = [mim EXCEPT ![u] = mim[u] + QueuedMim[u]]
      /\ manaSupply' = manaSupply - requests[u].mana
      /\ pendingManaSupply' = pendingManaSupply - requests[u].mana
      /\ activeMimVault' = activeMimVault
  BY <1>1 DEF FinalizeDestake, Payout
<1>3. ActiveManaSupply' = ActiveManaSupply
  BY <1>1, <1>2, MappedTypes DEF ActiveManaSupply
<1>4. QueuedMim' = [QueuedMim EXCEPT ![u] = 0]
  BY <1>2 DEF QueuedMim, IInv, TypeOK, NoRequest
<1>5. CASE QueuedMim[u] > 0
  BY <1>2, <1>3, <1>4, <1>5 DEF Nav!Settle
<1>6. CASE QueuedMim[u] = 0
  <2>1. mim' = mim /\ QueuedMim' = QueuedMim
    <3>1. mim \in [Users -> Nat] /\ QueuedMim \in [Users -> Nat]
      BY MappedTypes
    <3> QED BY <1>2, <1>4, <1>6, <3>1
  <2> QED BY <1>2, <1>3, <2>1 DEF Nav!vars
<1> QED BY <1>1, <1>5, <1>6

\* Every step of the treasury is a step of the abstract vault, or none.
LEMMA Simulation == IInv /\ [Next]_vars => [Nav!Next]_(Nav!vars)
<1> SUFFICES ASSUME IInv, [Next]_vars PROVE Nav!Next \/ UNCHANGED Nav!vars
  OBVIOUS
<1>0. /\ activeMimVault \in Nat /\ manaSupply \in Nat /\ pendingManaSupply \in Nat
      /\ ActiveManaSupply \in Nat
  BY MappedTypes
<1>1. ASSUME NEW u \in Users, NEW amount \in 1..mim[u], NEW minOut \in 0..amount,
             DepositMim(u, amount, minOut)
      PROVE  Nav!Next
  BY <1>1, DepositJoins DEF Nav!Next
<1>2. ASSUME NEW u \in Users, NEW amount \in 1..mim[u],
             DonateMim(u, amount) \/ SendMimToPending(u, amount)
      PROVE  Nav!Next
  <2>1. /\ mim' = [mim EXCEPT ![u] = @ - amount]
        /\ activeMimVault' \in {activeMimVault, activeMimVault + amount}
        /\ UNCHANGED <<manaSupply, pendingManaSupply, requests>>
    BY <1>2 DEF DonateMim, SendMimToPending, queue
  <2>2. UNCHANGED <<ActiveManaSupply, QueuedMim>>
    BY <2>1 DEF ActiveManaSupply, QueuedMim
  <2>3. Nav!Give(u)
    BY <2>1, <2>2 DEF Nav!Give
  <2> QED BY <2>3 DEF Nav!Next
<1>3. ASSUME NEW u \in Users, NEW amount \in 1..mana[u], NEW minOut \in 0..activeMimVault,
             StartDestake(u, amount, minOut)
      PROVE  Nav!Next
  BY <1>3, DestakeLeaves DEF Nav!Next
<1>4. ASSUME NEW u \in Users, NEW amount \in 1..mana[u], BurnMana(u, amount)
      PROVE  Nav!Next
  <2>1. mana[u] \in Nat /\ mana[u] <= ActiveManaSupply
    BY HoldingIsActive DEF IInv
  <2>2. /\ manaSupply' = manaSupply - amount
        /\ UNCHANGED <<activeMimVault, mim, pendingManaSupply, requests>>
    BY <1>4 DEF BurnMana, queue
  <2>3. ActiveManaSupply' = ActiveManaSupply - amount
    BY <1>0, <1>4, <2>1, <2>2 DEF ActiveManaSupply
  <2>4. UNCHANGED QueuedMim
    BY <2>2 DEF QueuedMim
  <2>5. Nav!Forfeit
    BY <1>0, <1>4, <2>1, <2>2, <2>3, <2>4 DEF Nav!Forfeit
  <2> QED BY <2>5 DEF Nav!Next
<1>5. ASSUME NEW u \in Users, FinalizeDestake(u)
      PROVE  Nav!Next \/ UNCHANGED Nav!vars
  BY <1>5, FinalizeSettles DEF Nav!Next
<1>6. ASSUME NEW a \in Assets, NEW signer \in Users, NEW router \in Routers,
             NEW amount \in 1..MaxAsset, NEW minOut \in 1..marketMim,
             NEW spent \in (-MaxAsset)..MaxAsset, NEW out \in (-activeMimVault)..marketMim,
             SwapAssetToMim(signer, router, a, amount, minOut, spent, out)
      PROVE  Nav!Next
  <2>1. /\ out \in Nat /\ out > 0
        /\ activeMimVault' = activeMimVault + out
        /\ UNCHANGED <<manaSupply, mim, pendingManaSupply, requests>>
    BY <1>0, <1>6 DEF SwapAssetToMim, SwapResultOK, queue, IInv, TypeOK
  <2>2. UNCHANGED <<ActiveManaSupply, QueuedMim>>
    BY <2>1 DEF ActiveManaSupply, QueuedMim
  <2>3. Nav!Earn
    BY <1>0, <2>1, <2>2 DEF Nav!Earn
  <2> QED BY <2>3 DEF Nav!Next
<1>7. ASSUME UNCHANGED <<manaSupply, pendingManaSupply, requests, activeMimVault, mim>>
      PROVE  UNCHANGED Nav!vars
  BY <1>7 DEF Nav!vars, ActiveManaSupply, QueuedMim
<1>8. ASSUME NEW u \in Users, NEW amount \in 1..mana[u],
             \/ SendManaToPending(u, amount)
             \/ \E to \in Users : TransferMana(u, to, amount)
      PROVE  UNCHANGED Nav!vars
  BY <1>7, <1>8 DEF SendManaToPending, TransferMana, queue
<1>9. ASSUME NEW a \in Assets,
             \/ \E amount \in 1..MaxAsset : DonateAsset(a, amount)
             \/ \E signer \in Users : CreateAssetVault(signer, a)
      PROVE  UNCHANGED Nav!vars
  BY <1>7, <1>9 DEF DonateAsset, CreateAssetVault, queue
<1>10. CASE Governance \/ Tick \/ UNCHANGED vars
  BY <1>7, <1>10 DEF Governance, InitializeTreasury, SetSwapRouter, SetCooldownSeconds,
     SetTreasuryAuthority, AcceptTreasuryAuthority, Tick, vars, queue
<1> QED
  BY <1>1, <1>2, <1>3, <1>4, <1>5, <1>6, <1>8, <1>9, <1>10 DEF Next, Holders, AssetFlow

\* The treasury keeps the promises of the abstract vault: nobody joins or leaves
\* at the others' expense, leavers get their exact share, claims are paid in full.
THEOREM TreasuryImplementsNavVault == Spec => ImplementsNavVault
<1>1. Init => Nav!Init
  <2> SUFFICES ASSUME Init PROVE Nav!Init
    OBVIOUS
  <2>1. QueuedMim = [u \in Users |-> 0] /\ mim \in [Users -> Nat]
    BY AmountAssumption DEF Init, QueuedMim, NoRequest
  <2> QED BY <2>1 DEF Init, Nav!Init, ActiveManaSupply
<1>2. Spec => []IInv
  BY TypeCorrect, AlwaysFullyBacked, AlwaysEscrowBacked, PTL DEF IInv
<1> QED BY <1>1, <1>2, Simulation, PTL DEF Spec, ImplementsNavVault, Nav!Spec

----------------------------------------------------------------------------
(* The price of a share *)

\* Assets A per S shares, changed by a in the same direction as the shares by s.
LEMMA PriceKept ==
  ASSUME NEW A \in Int, NEW S \in Int, NEW a \in Int, NEW s \in Int, s * A <= a * S
  PROVE  (A + a) * S >= A * (S + s)
<1>1. (A + a) * S = A * S + a * S /\ A * (S + s) = A * S + s * A
  OBVIOUS
<1>2. A * S \in Int /\ a * S \in Int /\ s * A \in Int
  OBVIOUS
<1> QED BY <1>1, <1>2

\* More assets, or fewer shares.
LEMMA PriceRises ==
  ASSUME NEW A \in Nat, NEW S \in Nat, NEW B \in Nat, NEW T \in Nat, A <= B, T <= S
  PROVE  B * S >= A * T
<1>1. A * T <= B * T
  BY MultiplyLeq
<1>2. B * T <= B * S
  <2>1. T * B <= S * B
    BY MultiplyLeq
  <2> QED BY <2>1
<1>3. A * T \in Nat /\ B * T \in Nat /\ B * S \in Nat
  OBVIOUS
<1> QED BY <1>1, <1>2, <1>3

\* No step of the abstract vault lowers the price.
LEMMA NavPriceStep ==
  ASSUME Nav!Next, mim \in [Users -> Nat],
         activeMimVault \in Nat, activeMimVault' \in Nat,
         ActiveManaSupply \in Nat, ActiveManaSupply' \in Nat, ActiveManaSupply > 0
  PROVE  activeMimVault' * ActiveManaSupply >= activeMimVault * ActiveManaSupply'
<1> DEFINE A == activeMimVault
           S == ActiveManaSupply
           B == activeMimVault'
           T == ActiveManaSupply'
<1>0. A \in Nat /\ B \in Nat /\ S \in Nat /\ T \in Nat /\ S > 0
  OBVIOUS
<1>1. ASSUME NEW u \in Users, Nav!Join(u) PROVE B * S >= A * T
  <2>1. PICK paid \in 1..mim[u] : \E issued \in 1..paid :
          issued * A <= paid * S /\ B = A + paid /\ T = S + issued
    BY <1>1 DEF Nav!Join
  <2>2. PICK issued \in 1..paid :
          issued * A <= paid * S /\ B = A + paid /\ T = S + issued
    BY <2>1
  <2>3. paid \in Int /\ issued \in Int
    BY <2>1, <2>2
  <2> QED BY <1>0, <2>2, <2>3, PriceKept
<1>2. ASSUME NEW u \in Users, Nav!Leave(u) PROVE B * S >= A * T
  <2>1. PICK redeemed \in 1..S : \E claim \in redeemed..A :
          claim * S <= redeemed * A /\ B = A - claim /\ T = S - redeemed
    BY <1>2 DEF Nav!Leave
  <2>2. PICK claim \in redeemed..A :
          claim * S <= redeemed * A /\ B = A - claim /\ T = S - redeemed
    BY <2>1
  <2>3. /\ -claim \in Int /\ -redeemed \in Int
        /\ B = A + (-claim) /\ T = S + (-redeemed)
    BY <1>0, <2>1, <2>2
  <2>4. (-redeemed) * A <= (-claim) * S
    BY <1>0, <2>1, <2>2
  <2> QED BY <1>0, <2>3, <2>4, PriceKept
<1>3. ASSUME T <= S, A <= B PROVE B * S >= A * T
  BY <1>0, <1>3, PriceRises
<1>4. ASSUME NEW u \in Users, Nav!Settle(u) \/ Nav!Give(u) PROVE B * S >= A * T
  <2>1. T <= S /\ A <= B
    BY <1>0, <1>4 DEF Nav!Settle, Nav!Give
  <2> QED BY <1>3, <2>1
<1>5. ASSUME Nav!Earn \/ Nav!Forfeit PROVE B * S >= A * T
  <2>1. T <= S /\ A <= B
    BY <1>0, <1>5 DEF Nav!Earn, Nav!Forfeit
  <2> QED BY <1>3, <2>1
<1> QED BY <1>1, <1>2, <1>4, <1>5 DEF Nav!Next

\* No step of anybody dilutes the holders: the MIM behind each active Mana never
\* falls while there is Mana outstanding.
THEOREM HoldersAreNotDiluted == Spec => NavNeverFalls
<1> DEFINE Typed == activeMimVault \in Nat /\ ActiveManaSupply \in Nat
<1>1. IInv => Typed
  BY MappedTypes
<1>2. IInv /\ Typed' /\ [Next]_vars
        => [ActiveManaSupply > 0 /\ ActiveManaSupply' > 0
             => activeMimVault' * ActiveManaSupply >= activeMimVault * ActiveManaSupply']_vars
  <2> SUFFICES ASSUME IInv, Typed', [Next]_vars, ActiveManaSupply > 0
               PROVE  activeMimVault' * ActiveManaSupply >= activeMimVault * ActiveManaSupply'
    OBVIOUS
  <2>1. activeMimVault \in Nat /\ ActiveManaSupply \in Nat /\ mim \in [Users -> Nat]
    BY MappedTypes
  <2>2. CASE Nav!Next
    BY <2>1, <2>2, NavPriceStep
  <2>3. CASE UNCHANGED Nav!vars
    BY <2>1, <2>3 DEF Nav!vars
  <2> QED BY <2>2, <2>3, Simulation
<1>3. Spec => []IInv
  BY TypeCorrect, AlwaysFullyBacked, AlwaysEscrowBacked, PTL DEF IInv
<1> HIDE DEF Typed
<1> QED BY <1>1, <1>2, <1>3, PTL DEF Spec, NavNeverFalls

\* What an amount of Mana is worth, from one price to a price that is no lower.
LEMMA RedemptionNeverFalls ==
  ASSUME NEW m \in Nat, NEW v \in Nat, NEW A \in Nat, NEW S \in Nat, NEW B \in Nat, NEW T \in Nat,
         S > 0, T > 0, B * S >= A * T, MimForRedemption(m, A, S) >= v
  PROVE  MimForRedemption(m, B, T) >= v
<1> DEFINE before == (m * A) \div S
           after == (m * B) \div T
<1>1. /\ before \in Nat /\ before * S <= m * A
      /\ after \in Nat /\ m * B < (after + 1) * T
  <2>1. m * A \in Nat /\ m * B \in Nat
    OBVIOUS
  <2> QED BY <2>1, FloorBounds
<1>2. before >= v /\ MimForRedemption(m, B, T) = after
  BY DEF MimForRedemption
<1> HIDE DEF before, after
<1>3. v * S <= m * A
  <2>1. v * S <= before * S
    <3>1. S * v <= S * before
      BY <1>1, <1>2
    <3> QED BY <1>1, <3>1
  <2>2. v * S \in Int /\ before * S \in Int /\ m * A \in Int
    BY <1>1
  <2> QED BY <1>1, <2>1, <2>2
<1>4. v * T <= m * B
  <2>1. T * (v * S) <= T * (m * A)
    <3>1. v * S \in Nat /\ m * A \in Nat
      OBVIOUS
    <3> HIDE DEF before
    <3> QED BY <1>3, <3>1, MultiplyLeq
  <2>2. m * (A * T) <= m * (B * S)
    <3>1. A * T \in Nat /\ B * S \in Nat
      OBVIOUS
    <3> QED BY <3>1, MultiplyLeq
  <2>3. /\ T * (v * S) = (v * T) * S /\ T * (m * A) = m * (A * T) /\ m * (B * S) = (m * B) * S
    OBVIOUS
  <2>4. (v * T) * S <= (m * B) * S
    <3>1. T * (v * S) \in Int /\ T * (m * A) \in Int /\ m * (B * S) \in Int
      OBVIOUS
    <3> QED BY <2>1, <2>2, <2>3, <3>1
  <2>5. v * T \in Nat /\ m * B \in Nat
    OBVIOUS
  <2> QED BY <2>4, <2>5, CancelFactor
<1>5. v * T < (after + 1) * T
  <2>1. v * T \in Int /\ m * B \in Int /\ (after + 1) * T \in Int
    BY <1>1
  <2> QED BY <1>1, <1>4, <2>1
<1>6. ~ (after + 1 <= v)
  <2> SUFFICES ASSUME after + 1 <= v PROVE FALSE
    OBVIOUS
  <2>1. T * (after + 1) <= T * v
    BY <1>1, MultiplyLeq
  <2> QED BY <1>1, <1>5, <2>1
<1> QED BY <1>1, <1>2, <1>6

\* What m Mana bring when they are redeemed.
Brings(m, v) == MimForRedemption(m, activeMimVault, ActiveManaSupply) >= v

\* For as long as somebody keeps m Mana, they redeem for at least what they once
\* did, over any number of steps of anybody: deposits, redemptions, donations,
\* burns, router swaps and changes of the governance.
THEOREM HeldManaKeepsItsValue ==
  ASSUME NEW CONSTANT u \in Users, NEW CONSTANT m \in Nat \ {0}, NEW CONSTANT v \in Nat
  PROVE  Spec => [](Brings(m, v) => ([](mana[u] >= m) => []Brings(m, v)))
<1> DEFINE Keeps == mana[u] >= m
           Outstanding == /\ activeMimVault \in Nat /\ ActiveManaSupply \in Nat
                          /\ mana[u] \in Nat /\ mana[u] <= ActiveManaSupply
           PriceStep == ActiveManaSupply > 0 /\ ActiveManaSupply' > 0
             => activeMimVault' * ActiveManaSupply >= activeMimVault * ActiveManaSupply'
<1>1. IInv => Outstanding
  BY MappedTypes, HoldingIsActive DEF IInv
<1>2. Outstanding /\ Outstanding' /\ Keeps /\ Keeps' /\ Brings(m, v) /\ [PriceStep]_vars
        => Brings(m, v)'
  <2> SUFFICES ASSUME Outstanding, Outstanding', Keeps, Keeps', Brings(m, v), [PriceStep]_vars
               PROVE  Brings(m, v)'
    OBVIOUS
  <2>1. ActiveManaSupply > 0 /\ ActiveManaSupply' > 0
    OBVIOUS
  <2>2. CASE PriceStep
    BY <2>1, <2>2, RedemptionNeverFalls DEF Brings
  <2>3. CASE UNCHANGED vars
    BY <2>3 DEF Brings, ActiveManaSupply, vars, queue
  <2> QED BY <2>2, <2>3
<1>3. Spec => [][PriceStep]_vars
  BY HoldersAreNotDiluted DEF NavNeverFalls
<1>4. Spec => []IInv
  BY TypeCorrect, AlwaysFullyBacked, AlwaysEscrowBacked, PTL DEF IInv
<1>5. Keeps <=> mana[u] >= m
  OBVIOUS
<1> HIDE DEF Outstanding, PriceStep, Keeps
<1>6. Spec => [](Brings(m, v) => ([]Keeps => []Brings(m, v)))
  BY <1>1, <1>2, <1>3, <1>4, PTL DEF Spec
<1> QED BY <1>6 DEF Keeps
=============================================================================
