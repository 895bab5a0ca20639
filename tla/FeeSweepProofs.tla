--------------------------- MODULE FeeSweepProofs ---------------------------
(***************************************************************************)
(* Fees reach the vaults of the treasury the configuration names, and only *)
(* those, for any number of deployments, any mints and transfer fees, and  *)
(* every order in which the three keys of the configuration are changed;   *)
(* and while the keys fit, whatever is owed can be swept.                  *)
(***************************************************************************)
EXTENDS FeeSweep, TokenTotalsProofs, TLAPS

FeesCovered == \A s \in Sides : OwedOn(s) <= vault[s]

IInv == TypeOK /\ FeesCovered

\* The bodies of the two action properties.
ReachStep ==
  \A r \in TreasuryFees : IsSwept(r) =>
    /\ \A s \in Sides :
         balance'[HomeVault(treasuryState, s)] =
           balance[HomeVault(treasuryState, s)] + Arriving[s][owed[r][s] - owed'[r][s]]
    /\ \A a \in Address :
         (\A s \in Sides : a # HomeVault(treasuryState, s)) => balance'[a] = balance[a]

RoutedStep == \A r \in TreasuryFees : IsSwept(r) => Routed

LedgerStep == Ledger!Next \/ UNCHANGED <<owed, vault>>

Good == IInv' /\ ReachStep /\ RoutedStep /\ LedgerStep

USE DEF Sides, Receivers, TreasuryFees, MimVaults

----------------------------------------------------------------------------
(* Steps that sweep nothing *)

\* Such a step is good if it keeps the types and either books fees in a covered
\* pool, pays the creator, or leaves the pool alone.
LEMMA GoodUnswept ==
  ASSUME IInv, IInv', LedgerStep,
         \A r \in TreasuryFees, s \in Sides : owed'[r][s] >= owed[r][s]
  PROVE  Good
<1>1. \A r \in TreasuryFees, s \in Sides : owed'[r][s] \in Nat /\ owed[r][s] \in Nat
  BY DEF IInv, TypeOK
<1>2. \A r \in TreasuryFees : ~IsSwept(r)
  BY <1>1 DEF IsSwept
<1> QED BY <1>2 DEF Good, ReachStep, RoutedStep

\* The pool as it was: a step of a treasury or of the admin.
LEMMA GoodElsewhere ==
  ASSUME IInv, TypeOK', UNCHANGED <<owed, vault>>
  PROVE  Good
<1>1. IInv'
  BY DEF IInv, FeesCovered, OwedOn
<1>2. \A r \in TreasuryFees, s \in Sides : owed'[r][s] >= owed[r][s]
  BY DEF IInv, TypeOK
<1> QED BY <1>1, <1>2, GoodUnswept DEF LedgerStep

\* A step of the pool that adds to the fees and leaves them covered.
LEMMA GoodBook ==
  ASSUME IInv, TypeOK', Covered',
         \A r \in Receivers, s \in Sides : owed'[r][s] >= owed[r][s]
  PROVE  Good
<1>1. IInv'
  BY DEF IInv, TypeOK, FeesCovered, Covered, OwedOn
<1>2. Ledger!Book
  BY DEF TypeOK, Covered, OwedOn, Ledger!Book, Ledger!Covered, Ledger!OwedOn,
         Ledger!Sides, Ledger!Receivers
<1> QED BY <1>1, <1>2, GoodUnswept DEF LedgerStep, Ledger!Next

----------------------------------------------------------------------------
(* The pool *)

LEMMA MoveLiquidityGood ==
  ASSUME IInv, NEW reserves \in Amounts, MoveLiquidity(reserves),
         \A s \in Sides : reserves[s] <= vault[s] + wallets[s]
  PROVE  Good
<1>1. /\ vault' = reserves
      /\ wallets' = [s \in Sides |-> wallets[s] + vault[s] - reserves[s]]
      /\ UNCHANGED <<treasuryProgram, treasuryState, mimMint, owed, accounts, balance>>
      /\ Covered'
  BY DEF MoveLiquidity, routing
<1>2. reserves \in [Sides -> Nat]
  BY SweepAssumption DEF Amounts
<1>3. wallets' \in [Sides -> Nat]
  BY <1>1, <1>2 DEF IInv, TypeOK
<1>4. TypeOK'
  BY <1>1, <1>2, <1>3 DEF IInv, TypeOK
<1>5. \A r \in Receivers, s \in Sides : owed'[r][s] >= owed[r][s]
  BY <1>1 DEF IInv, TypeOK
<1> QED BY <1>1, <1>4, <1>5, GoodBook

LEMMA SwapGood ==
  ASSUME IInv, NEW s \in Sides, NEW creatorSide \in Sides,
         NEW amountIn \in Nat, NEW amountOut \in Nat, NEW fee \in [Receivers -> Nat],
         Swap(s, amountIn, amountOut, fee, creatorSide)
  PROVE  Good
<1>1. /\ owed' = [r \in Receivers |->
                    [owed[r] EXCEPT ![IF r = "creator" THEN creatorSide ELSE s] = @ + fee[r]]]
      /\ vault' = [vault EXCEPT ![s] = @ + amountIn, ![1 - s] = @ - amountOut]
      /\ wallets' = [wallets EXCEPT ![s] = @ - amountIn, ![1 - s] = @ + amountOut]
      /\ amountIn <= wallets[s] /\ amountOut <= vault[1 - s]
      /\ UNCHANGED <<treasuryProgram, treasuryState, mimMint, accounts, balance>>
      /\ Covered'
  BY DEF Swap, routing
<1>2. 1 - s \in Sides /\ 1 - s # s
  OBVIOUS
<1>3. vault \in [Sides -> Nat] /\ wallets \in [Sides -> Nat] /\ owed \in [Receivers -> [Sides -> Nat]]
  BY DEF IInv, TypeOK
<1>4. vault' \in [Sides -> Nat] /\ wallets' \in [Sides -> Nat]
  BY <1>1, <1>2, <1>3
<1>5. /\ owed' \in [Receivers -> [Sides -> Nat]]
      /\ \A r \in Receivers, side \in Sides : owed'[r][side] >= owed[r][side]
  BY <1>1, <1>3
<1>6. TypeOK'
  BY <1>1, <1>4, <1>5 DEF IInv, TypeOK
<1> QED BY <1>1, <1>5, <1>6, GoodBook

LEMMA CollectCreatorFeeGood ==
  ASSUME IInv, CollectCreatorFee
  PROVE  Good
<1>1. /\ owed' = [owed EXCEPT !["creator"] = [s \in Sides |-> 0]]
      /\ vault' = [s \in Sides |-> vault[s] - owed["creator"][s]]
      /\ wallets' = [s \in Sides |-> wallets[s] + owed["creator"][s]]
      /\ UNCHANGED <<treasuryProgram, treasuryState, mimMint, accounts, balance>>
  BY DEF CollectCreatorFee, routing
<1>2. vault \in [Sides -> Nat] /\ wallets \in [Sides -> Nat] /\ owed \in [Receivers -> [Sides -> Nat]]
  BY DEF IInv, TypeOK
<1>3. \A s \in Sides : vault[s] - owed["creator"][s] \in Nat
  BY <1>2 DEF IInv, FeesCovered, OwedOn
<1>4. TypeOK'
  BY <1>1, <1>2, <1>3 DEF IInv, TypeOK
<1>5. FeesCovered'
  BY <1>1, <1>2 DEF IInv, FeesCovered, OwedOn
<1>6. Ledger!Pay("creator")
  BY <1>1, <1>2 DEF Ledger!Pay, Ledger!Sides
<1>7. LedgerStep
  BY <1>6 DEF LedgerStep, Ledger!Next, Ledger!Receivers
<1>8. \A r \in TreasuryFees, s \in Sides : owed'[r][s] >= owed[r][s]
  BY <1>1, <1>2
<1> QED BY <1>4, <1>5, <1>7, <1>8, GoodUnswept DEF IInv

----------------------------------------------------------------------------
(* Collection *)

\* What is paid is no more than was asked for, nor than is owed.
LEMMA LesserBounds ==
  ASSUME NEW requested \in [Sides -> Nat], NEW due \in [Sides -> Nat]
  PROVE  /\ Lesser(requested, due) \in [Sides -> Nat]
         /\ \A s \in Sides : /\ Lesser(requested, due)[s] <= requested[s]
                             /\ Lesser(requested, due)[s] <= due[s]
BY DEF Lesser

\* An account that exists and is a valid recipient is where the treasury that
\* the configuration names keeps that mint, and the configuration fits.
LEMMA RecipientIsHome ==
  ASSUME TypeOK, NEW a \in accounts, NEW s \in Sides, ValidFeeRecipient(a, MintOf[s])
  PROVE  /\ treasuryProgram = treasuryState
         /\ a = HomeVault(treasuryState, s)
         /\ MintOf[s] = mimMint <=> MintOf[s] = Mim
<1>1. PICK t \in Treasuries, seed \in (MimVaults \cup Mints) \ {Mim} : a = <<t, t, seed>>
  BY DEF TypeOK
<1>2. /\ t = treasuryProgram /\ t = treasuryState
      /\ seed = IF MintOf[s] = mimMint THEN "active_mim_vault" ELSE MintOf[s]
  BY <1>1 DEF ValidFeeRecipient, ExpectedFeeReceiver
<1>3. MintOf[s] \in Mints /\ Mim \in Mints /\ "active_mim_vault" \notin Mints
  BY SweepAssumption
<1>4. MintAt(a) = IF seed \in Mints THEN seed ELSE Mim
  BY <1>1 DEF MintAt
<1>5. CASE MintOf[s] = mimMint
  <2>1. MintOf[s] = Mim
    BY <1>2, <1>3, <1>4, <1>5 DEF ValidFeeRecipient
  <2> QED BY <1>1, <1>2, <1>5, <2>1 DEF HomeVault
<1>6. CASE MintOf[s] # mimMint
  <2>1. MintOf[s] # Mim
    BY <1>1, <1>2, <1>6
  <2> QED BY <1>1, <1>2, <1>6, <2>1 DEF HomeVault
<1> QED BY <1>5, <1>6

\* The vaults of the two sides are different accounts.
LEMMA HomesDiffer ==
  ASSUME NEW t \in Treasuries
  PROVE  /\ HomeVault(t, 0) # HomeVault(t, 1)
         /\ \A s \in Sides : HomeVault(t, s) \in Address
<1>1. /\ MintOf[0] \in Mints /\ MintOf[1] \in Mints /\ MintOf[0] # MintOf[1]
      /\ "active_mim_vault" \notin Mints
  BY SweepAssumption
<1> QED BY <1>1 DEF HomeVault, Address

LEMMA CollectGood ==
  ASSUME IInv, NEW r \in TreasuryFees, NEW requested \in Amounts,
         NEW recipients \in [Sides -> accounts], Collect(r, requested, recipients)
  PROVE  Good
<1> DEFINE amounts == Lesser(requested, owed[r])
<1>1. /\ owed' = [owed EXCEPT ![r] = [s \in Sides |-> @[s] - amounts[s]]]
      /\ vault' = [s \in Sides |-> vault[s] - amounts[s]]
      /\ balance' = [a \in Address |->
           balance[a] + (IF a = recipients[0] THEN Arriving[0][amounts[0]] ELSE 0)
                      + (IF a = recipients[1] THEN Arriving[1][amounts[1]] ELSE 0)]
      /\ wallets' = [s \in Sides |-> wallets[s] + amounts[s] - Arriving[s][amounts[s]]]
      /\ UNCHANGED <<treasuryProgram, treasuryState, mimMint, accounts>>
  BY DEF Collect, PayFees, routing
<1>2. /\ owed \in [Receivers -> [Sides -> Nat]] /\ vault \in [Sides -> Nat]
      /\ wallets \in [Sides -> Nat] /\ balance \in [Address -> Nat]
      /\ TypeOK /\ treasuryState \in Treasuries
  BY DEF IInv, TypeOK
<1>3. /\ amounts \in [Sides -> Nat]
      /\ \A s \in Sides : amounts[s] \in 0..Tokens[s] /\ amounts[s] <= owed[r][s]
  <2>1. requested \in [Sides -> Nat] /\ \A s \in Sides : requested[s] <= Tokens[s]
    BY SweepAssumption DEF Amounts
  <2>2. owed[r] \in [Sides -> Nat]
    BY <1>2
  <2> QED BY <2>1, <2>2, LesserBounds, SweepAssumption
<1> HIDE DEF amounts
<1>4. \A s \in Sides : /\ Arriving[s][amounts[s]] \in Nat
                       /\ Arriving[s][amounts[s]] <= amounts[s]
  BY <1>3, SweepAssumption
<1>5. /\ treasuryProgram = treasuryState
      /\ \A s \in Sides : /\ recipients[s] = HomeVault(treasuryState, s)
                          /\ recipients[s] \in accounts
                          /\ MintOf[s] = mimMint <=> MintOf[s] = Mim
  BY <1>2, RecipientIsHome DEF Collect
<1>6. /\ recipients[0] # recipients[1]
      /\ recipients[0] \in Address /\ recipients[1] \in Address
  BY <1>2, <1>5, HomesDiffer
<1>7. /\ owed' \in [Receivers -> [Sides -> Nat]]
      /\ \A s \in Sides : owed'[r][s] = owed[r][s] - amounts[s]
      /\ \A q \in Receivers : q # r => owed'[q] = owed[q]
  <2>1. [s \in Sides |-> owed[r][s] - amounts[s]] \in [Sides -> Nat]
    BY <1>2, <1>3
  <2> QED BY <1>1, <1>2, <2>1
<1>8. IInv'
  <2>1. \A s \in Sides : owed[r][s] <= OwedOn(s) /\ OwedOn(s) <= vault[s] /\ OwedOn(s) \in Nat
    BY <1>2 DEF IInv, FeesCovered, OwedOn
  <2>2. vault' \in [Sides -> Nat]
    BY <1>1, <1>2, <1>3, <2>1
  <2>3. wallets' \in [Sides -> Nat]
    BY <1>1, <1>2, <1>3, <1>4
  <2>4. balance' \in [Address -> Nat]
    BY <1>1, <1>2, <1>4
  <2>5. \A s \in Sides : OwedOn(s)' = OwedOn(s) - amounts[s] /\ vault'[s] = vault[s] - amounts[s]
    BY <1>1, <1>2, <1>3, <1>7 DEF OwedOn
  <2>6. FeesCovered'
    BY <1>2, <1>3, <2>1, <2>5 DEF FeesCovered
  <2> QED BY <1>1, <1>2, <1>7, <2>2, <2>3, <2>4, <2>6 DEF IInv, TypeOK
<1>9. \A q \in TreasuryFees : IsSwept(q) => q = r
  BY <1>2, <1>7 DEF IsSwept
<1>10. ReachStep
  <2>1. \A s \in Sides : owed[r][s] - owed'[r][s] = amounts[s]
    BY <1>2, <1>3, <1>7
  <2>2. /\ balance'[recipients[0]] = balance[recipients[0]] + Arriving[0][amounts[0]]
        /\ balance'[recipients[1]] = balance[recipients[1]] + Arriving[1][amounts[1]]
    BY <1>1, <1>2, <1>4, <1>6
  <2>3. \A a \in Address : a # recipients[0] /\ a # recipients[1] => balance'[a] = balance[a]
    BY <1>1, <1>2
  <2> QED BY <1>5, <1>9, <2>1, <2>2, <2>3 DEF ReachStep
<1>11. RoutedStep
  BY <1>5 DEF RoutedStep, Routed
<1>12. Ledger!Pay(r)
  <2>1. owed' = [owed EXCEPT ![r] = owed'[r]]
    BY <1>1, <1>2
  <2>2. vault' = [s \in Sides |-> vault[s] - (owed[r][s] - owed'[r][s])]
    BY <1>1, <1>2, <1>3, <1>7
  <2> QED BY <1>2, <1>3, <1>7, <2>1, <2>2 DEF Ledger!Pay, Ledger!Sides
<1> QED BY <1>8, <1>10, <1>11, <1>12 DEF Good, LedgerStep, Ledger!Next, Ledger!Receivers

----------------------------------------------------------------------------
(* The treasuries and the admin *)

LEMMA TreasuryGood ==
  ASSUME IInv, Treasury
  PROVE  Good
<1>1. ASSUME NEW t \in Treasuries, InitializeTreasury(t)
      PROVE  Good
  <2>1. "active_mim_vault" # Mim /\ "pending_mim_vault" # Mim
    BY SweepAssumption
  <2>2. TypeOK'
    BY <1>1, <2>1 DEF InitializeTreasury, IInv, TypeOK, routing
  <2> QED BY <1>1, <2>2, GoodElsewhere DEF InitializeTreasury
<1>2. ASSUME NEW t \in Treasuries, NEW mint \in Mints, CreateAssetVault(t, mint)
      PROVE  Good
  <2>1. accounts' \subseteq
          {<<u, u, seed>> : u \in Treasuries, seed \in (MimVaults \cup Mints) \ {Mim}}
    <3>1. mint \in (MimVaults \cup Mints) \ {Mim}
      BY <1>2 DEF CreateAssetVault
    <3>2. accounts' = accounts \cup {<<t, t, mint>>}
      BY <1>2 DEF CreateAssetVault
    <3>3. accounts \subseteq
            {<<u, u, seed>> : u \in Treasuries, seed \in (MimVaults \cup Mints) \ {Mim}}
      BY DEF IInv, TypeOK
    <3>4. <<t, t, mint>> \in
            {<<u, u, seed>> : u \in Treasuries, seed \in (MimVaults \cup Mints) \ {Mim}}
      BY <3>1
    <3> DEFINE Places == {<<u, u, seed>> : u \in Treasuries,
                                           seed \in (MimVaults \cup Mints) \ {Mim}}
               place == <<t, t, mint>>
    <3> HIDE DEF Places, place
    <3>5. accounts \cup {place} \subseteq Places
      <4>1. accounts \subseteq Places /\ place \in Places
        BY <3>3, <3>4 DEF Places, place
      <4> QED BY <4>1
    <3> QED BY <3>2, <3>5 DEF Places, place
  <2>2. UNCHANGED <<treasuryProgram, treasuryState, mimMint, owed, vault, balance, wallets>>
    BY <1>2 DEF CreateAssetVault, routing
  <2>3. TypeOK'
    BY <2>1, <2>2 DEF IInv, TypeOK
  <2> QED BY <1>2, <2>3, GoodElsewhere DEF CreateAssetVault
<1>3. ASSUME NEW a \in accounts, NEW s \in Sides, NEW amount \in 0..Tokens[s],
             TreasuryMoves(a, s, amount)
      PROVE  Good
  <2>1. a \in Address /\ amount \in Nat
    <3>1. PICK t \in Treasuries, seed \in (MimVaults \cup Mints) \ {Mim} : a = <<t, t, seed>>
      BY DEF IInv, TypeOK
    <3>2. a \in Address
      BY <3>1 DEF Address
    <3>3. Tokens[s] \in Nat
      BY SweepAssumption
    <3> QED BY <3>2, <3>3
  <2>2. balance' \in [Address -> Nat] /\ wallets' \in [Sides -> Nat]
    BY <1>3, <2>1 DEF TreasuryMoves, IInv, TypeOK
  <2>3. TypeOK'
    BY <1>3, <2>2 DEF TreasuryMoves, IInv, TypeOK, routing
  <2> QED BY <1>3, <2>3, GoodElsewhere DEF TreasuryMoves
<1> QED BY <1>1, <1>2, <1>3 DEF Treasury

LEMMA AdministrationGood ==
  ASSUME IInv, Administration
  PROVE  Good
<1>1. TypeOK' /\ UNCHANGED <<owed, vault>>
  BY DEF Administration, SetTreasuryProgram, SetTreasuryState, SetMimMint, IInv, TypeOK
<1> QED BY <1>1, GoodElsewhere

LEMMA NextGood ==
  ASSUME IInv, Next
  PROVE  Good
<1>1. CASE Pool
  <2>1. wallets \in [Sides -> Nat] /\ vault \in [Sides -> Nat]
    BY DEF IInv, TypeOK
  <2>2. ASSUME NEW s \in Sides, NEW creatorSide \in Sides, NEW amountIn \in 1..wallets[s],
               NEW amountOut \in 1..vault[1 - s], NEW fee \in [Receivers -> 0..amountIn],
               Swap(s, amountIn, amountOut, fee, creatorSide)
        PROVE  Good
    <3>1. 1 - s \in Sides
      OBVIOUS
    <3>2. amountIn \in Nat /\ amountOut \in Nat
      BY <2>1, <3>1
    <3>3. fee \in [Receivers -> Nat]
      BY <3>2
    <3> QED BY <2>2, <3>2, <3>3, SwapGood
  <2> QED BY <1>1, <2>2, MoveLiquidityGood, CollectCreatorFeeGood DEF Pool
<1>2. CASE Sweep
  BY <1>2, CollectGood DEF Sweep
<1> QED BY <1>1, <1>2, TreasuryGood, AdministrationGood DEF Next

LEMMA StutterGood ==
  ASSUME IInv, UNCHANGED vars
  PROVE  Good
<1>1. TypeOK' /\ UNCHANGED <<owed, vault>>
  BY DEF vars, routing, IInv, TypeOK
<1> QED BY <1>1, GoodElsewhere

----------------------------------------------------------------------------
(* Theorems *)

\* The inductive invariant: the types, and vaults that cover the fees.
THEOREM SweepInvariant == Spec => []IInv
<1>1. Init => IInv
  BY SweepAssumption DEF Init, IInv, TypeOK, FeesCovered, OwedOn
<1>2. IInv /\ [Next]_vars => IInv'
  BY NextGood, StutterGood DEF Good
<1> QED BY <1>1, <1>2, PTL DEF Spec

\* A treasury's accounts exist only at the PDAs of its own program and state,
\* and MIM has no asset vault.
THEOREM SweepTypeCorrect == Spec => []TypeOK
<1>1. IInv => TypeOK
  BY DEF IInv
<1> QED BY <1>1, SweepInvariant, PTL

\* Collected fees arrive where the named treasury works with them, nowhere else.
THEOREM FeesReach == Spec => FeesReachTheTreasury
<1>1. IInv /\ [Next]_vars => [ReachStep]_vars
  BY NextGood DEF Good
<1>2. Spec => [][ReachStep]_vars
  BY <1>1, SweepInvariant, PTL DEF Spec
<1> QED BY <1>2 DEF FeesReachTheTreasury, ReachStep

\* No fee leaves the pool while the configuration leads to no complete treasury.
THEOREM UnroutedPaysNothing == Spec => NothingPaidUnrouted
<1>1. IInv /\ [Next]_vars => [RoutedStep]_vars
  BY NextGood DEF Good
<1>2. Spec => [][RoutedStep]_vars
  BY <1>1, SweepInvariant, PTL DEF Spec
<1> QED BY <1>2 DEF NothingPaidUnrouted, RoutedStep

\* The pool of this module keeps the promises that CpPool keeps.
THEOREM SweepKeepsLedger == Spec => KeepsLedger
<1>1. Init => Ledger!Init
  BY DEF Init, Ledger!Init, Ledger!Receivers, Ledger!Sides
<1>2. IInv /\ [Next]_vars => [Ledger!Next]_(Ledger!vars)
  BY NextGood, StutterGood DEF Good, LedgerStep, Ledger!vars
<1> QED BY <1>1, <1>2, SweepInvariant, PTL DEF Spec, KeepsLedger, Ledger!Spec

----------------------------------------------------------------------------
(* A keeper is never refused *)

\* The accounts of all treasuries for the tokens of one side, and the tokens that
\* exist of it: in the pool, with the treasuries, and with everybody else.
AccountsOf(s) == {a \in Address : MintAt(a) = MintOf[s]}

Balances(s) == [a \in AccountsOf(s) |-> balance[a]]

Conserved == \A s \in Sides : vault[s] + wallets[s] + Total(Balances(s)) = Tokens[s]

\* The checks of the keeper's collection.
Due(r) == \E s \in Sides : owed[r][s] > 0

CanSweep(r) ==
  LET recipients == [s \in Sides |-> ExpectedFeeReceiver(MintOf[s])]
  IN  /\ \A s \in Sides : recipients[s] \in accounts
      /\ \A s \in Sides : ValidFeeRecipient(recipients[s], MintOf[s])
      /\ \E s \in Sides : Lesser(Tokens, owed[r])[s] > 0

LEMMA AccountsFinite ==
  ASSUME IsFiniteSet(Treasuries), IsFiniteSet(Mints), NEW s \in Sides
  PROVE  IsFiniteSet(AccountsOf(s))
<1> DEFINE Seeds == MimVaults \cup Mints
           Nested == (Treasuries \X Treasuries) \X Seeds
           Flat == [p \in Nested |-> <<p[1][1], p[1][2], p[2]>>]
<1>1. IsFiniteSet(Seeds)
  <2>1. IsFiniteSet({"active_mim_vault"}) /\ IsFiniteSet({"pending_mim_vault"})
    BY FS_Singleton
  <2>2. IsFiniteSet({"active_mim_vault"} \cup {"pending_mim_vault"})
    BY <2>1, FS_Union
  <2>3. MimVaults = {"active_mim_vault"} \cup {"pending_mim_vault"}
    OBVIOUS
  <2> QED BY <2>2, <2>3, FS_Union
<1> HIDE DEF Seeds
<1>2. IsFiniteSet(Nested)
  <2>1. IsFiniteSet(Treasuries \X Treasuries)
    BY FS_Product
  <2> QED BY <1>1, <2>1, FS_Product
<1>3. Address = Treasuries \X Treasuries \X Seeds
  BY DEF Address, Seeds
<1>4. Flat \in Surjection(Nested, Address)
  <2>1. ASSUME NEW p \in Nested
        PROVE  <<p[1][1], p[1][2], p[2]>> \in Address
    <3>1. p[1] \in Treasuries \X Treasuries /\ p[2] \in Seeds
      OBVIOUS
    <3>2. p[1][1] \in Treasuries /\ p[1][2] \in Treasuries
      BY <3>1
    <3> QED BY <1>3, <3>1, <3>2
  <2>2. ASSUME NEW a \in Address
        PROVE  \E p \in Nested : Flat[p] = a
    <3>1. a[1] \in Treasuries /\ a[2] \in Treasuries /\ a[3] \in Seeds /\ a = <<a[1], a[2], a[3]>>
      BY <1>3
    <3> DEFINE p == <<<<a[1], a[2]>>, a[3]>>
    <3>2. p \in Nested /\ Flat[p] = <<a[1], a[2], a[3]>>
      BY <3>1
    <3> QED BY <3>1, <3>2
  <2>3. Flat \in [Nested -> Address]
    BY <2>1
  <2> HIDE DEF Flat, Nested
  <2> QED BY <2>2, <2>3 DEF Surjection
<1>5. IsFiniteSet(Address)
  BY <1>2, <1>4, FS_Surjection
<1> QED BY <1>5, FS_Subset DEF AccountsOf

\* A step that moves a side's tokens between the pool's vault and the wallets only.
LEMMA SameBalances ==
  ASSUME Conserved, UNCHANGED balance,
         \A s \in Sides : vault'[s] + wallets'[s] = vault[s] + wallets[s]
  PROVE  Conserved'
<1>1. \A s \in Sides : Balances(s)' = Balances(s)
  BY DEF Balances
<1> QED BY <1>1 DEF Conserved

\* One account of a side changes.
LEMMA OneBalanceChanges ==
  ASSUME IsFiniteSet(Treasuries), IsFiniteSet(Mints), NEW s \in Sides,
         balance \in [Address -> Nat], balance' \in [Address -> Nat],
         NEW a \in AccountsOf(s), \A b \in AccountsOf(s) : b # a => balance'[b] = balance[b]
  PROVE  /\ Total(Balances(s))' = Total(Balances(s)) - balance[a] + balance'[a]
         /\ Total(Balances(s)) \in Nat /\ Total(Balances(s))' \in Nat
<1> DEFINE S == AccountsOf(s)
           f == Balances(s)
           g == [b \in S |-> balance'[b]]
<1>1. IsFiniteSet(S)
  BY AccountsFinite
<1>2. \A b \in S : b \in Address
  BY DEF AccountsOf
<1>3. f \in [S -> Nat] /\ g \in [S -> Nat] /\ f[a] = balance[a] /\ g[a] = balance'[a]
      /\ \A b \in S : b # a => g[b] = f[b]
  BY <1>2 DEF Balances
<1>4. Balances(s)' = g
  BY DEF Balances
<1> HIDE DEF S, f, g
<1>5. a \in S
  BY DEF S
<1>6. /\ Total(g) = Total(f) - f[a] + g[a]
      /\ Total(f) \in Nat /\ Total(g) \in Nat
  BY <1>1, <1>3, <1>5, TotalChange
<1>7. Total(Balances(s))' = Total(g)
  BY <1>4
<1> QED BY <1>3, <1>6, <1>7 DEF f

\* The home vaults of the two sides are accounts of their own side only.
LEMMA HomesBySide ==
  ASSUME NEW t \in Treasuries, NEW s \in Sides
  PROVE  /\ HomeVault(t, s) \in AccountsOf(s)
         /\ \A side \in Sides : side # s => HomeVault(t, side) \notin AccountsOf(s)
<1>1. /\ MintOf[0] \in Mints /\ MintOf[1] \in Mints /\ MintOf[0] # MintOf[1]
      /\ "active_mim_vault" \notin Mints
  BY SweepAssumption
<1>2. \A side \in Sides : HomeVault(t, side) \in Address /\ MintAt(HomeVault(t, side)) = MintOf[side]
  BY <1>1 DEF HomeVault, Address, MintAt
<1> QED BY <1>1, <1>2 DEF AccountsOf

LEMMA CollectConserves ==
  ASSUME IsFiniteSet(Treasuries), IsFiniteSet(Mints), IInv, Conserved,
         NEW r \in TreasuryFees, NEW requested \in [Sides -> Nat],
         \A s \in Sides : requested[s] <= Tokens[s],
         NEW recipients \in [Sides -> accounts], Collect(r, requested, recipients)
  PROVE  Conserved'
<1> DEFINE amounts == Lesser(requested, owed[r])
           home(s) == HomeVault(treasuryState, s)
           arriving(s) == Arriving[s][amounts[s]]
<1>1. /\ vault' = [s \in Sides |-> vault[s] - amounts[s]]
      /\ balance' = [a \in Address |->
           balance[a] + (IF a = recipients[0] THEN arriving(0) ELSE 0)
                      + (IF a = recipients[1] THEN arriving(1) ELSE 0)]
      /\ wallets' = [s \in Sides |-> wallets[s] + amounts[s] - arriving(s)]
  BY DEF Collect, PayFees
<1>2. /\ vault \in [Sides -> Nat] /\ wallets \in [Sides -> Nat] /\ balance \in [Address -> Nat]
      /\ TypeOK /\ treasuryState \in Treasuries /\ owed[r] \in [Sides -> Nat]
  BY DEF IInv, TypeOK
<1>3. \A s \in Sides : amounts[s] \in Nat /\ amounts[s] \in 0..Tokens[s]
  BY <1>2, LesserBounds, SweepAssumption
<1> HIDE DEF amounts
<1>4. \A s \in Sides : arriving(s) \in Nat
  BY <1>3, SweepAssumption
<1>5. \A s \in Sides : recipients[s] = home(s)
  BY <1>2, RecipientIsHome DEF Collect
<1> HIDE DEF arriving
<1>6. balance' \in [Address -> Nat]
  BY <1>1, <1>2, <1>4
<1>7. ASSUME NEW s \in Sides
      PROVE  vault'[s] + wallets'[s] + Total(Balances(s))' = Tokens[s]
  <2>1. /\ home(s) \in AccountsOf(s) /\ home(s) \in Address
        /\ \A side \in Sides : side # s => home(side) \notin AccountsOf(s)
    BY <1>2, HomesBySide DEF AccountsOf
  <2>2. \A b \in AccountsOf(s) : b \in Address
    BY DEF AccountsOf
  <2> HIDE DEF home
  <2>3. balance'[home(s)] = balance[home(s)] + arriving(s)
    BY <1>1, <1>2, <1>4, <1>5, <2>1
  <2>4. \A b \in AccountsOf(s) : b # home(s) => balance'[b] = balance[b]
    BY <1>1, <1>2, <1>4, <1>5, <2>1, <2>2
  <2>5. /\ Total(Balances(s))' = Total(Balances(s)) - balance[home(s)] + balance'[home(s)]
        /\ Total(Balances(s)) \in Nat /\ Total(Balances(s))' \in Nat
    BY <1>2, <1>6, <2>1, <2>4, OneBalanceChanges
  <2>6. /\ vault'[s] = vault[s] - amounts[s]
        /\ wallets'[s] = wallets[s] + amounts[s] - arriving(s)
        /\ vault[s] \in Nat /\ wallets[s] \in Nat /\ balance[home(s)] \in Nat
    BY <1>1, <1>2, <2>1
  <2>7. vault[s] + wallets[s] + Total(Balances(s)) = Tokens[s]
    BY DEF Conserved
  <2> QED BY <1>3, <1>4, <2>3, <2>5, <2>6, <2>7
<1> QED BY <1>7 DEF Conserved

LEMMA TreasuryMovesConserves ==
  ASSUME IsFiniteSet(Treasuries), IsFiniteSet(Mints), IInv, Conserved,
         NEW a \in accounts, NEW s \in Sides, NEW amount \in 0..Tokens[s],
         TreasuryMoves(a, s, amount)
  PROVE  Conserved'
<1>1. /\ MintAt(a) = MintOf[s]
      /\ balance' = [balance EXCEPT ![a] = amount]
      /\ wallets' = [wallets EXCEPT ![s] = @ + balance[a] - amount]
      /\ vault' = vault
  BY DEF TreasuryMoves
<1>2. /\ vault \in [Sides -> Nat] /\ wallets \in [Sides -> Nat] /\ balance \in [Address -> Nat]
      /\ amount \in Nat
  BY SweepAssumption DEF IInv, TypeOK
<1>3. a \in Address
  <2>1. PICK t \in Treasuries, seed \in (MimVaults \cup Mints) \ {Mim} : a = <<t, t, seed>>
    BY DEF IInv, TypeOK
  <2> QED BY <2>1 DEF Address
<1>4. balance' \in [Address -> Nat] /\ balance'[a] = amount
      /\ \A b \in Address : b # a => balance'[b] = balance[b]
  BY <1>1, <1>2, <1>3
<1>5. a \in AccountsOf(s) /\ \A b \in AccountsOf(s) : b \in Address
  BY <1>1, <1>3 DEF AccountsOf
<1>6. vault'[s] + wallets'[s] + Total(Balances(s))' = Tokens[s]
  <2>1. /\ Total(Balances(s))' = Total(Balances(s)) - balance[a] + balance'[a]
        /\ Total(Balances(s)) \in Nat /\ Total(Balances(s))' \in Nat
    BY <1>2, <1>4, <1>5, OneBalanceChanges
  <2>2. wallets'[s] = wallets[s] + balance[a] - amount /\ wallets[s] \in Nat /\ vault[s] \in Nat
        /\ balance[a] \in Nat
    BY <1>1, <1>2, <1>3
  <2>3. vault[s] + wallets[s] + Total(Balances(s)) = Tokens[s]
    BY DEF Conserved
  <2> QED BY <1>1, <1>2, <1>4, <2>1, <2>2, <2>3
<1>7. ASSUME NEW side \in Sides, side # s
      PROVE  vault'[side] + wallets'[side] + Total(Balances(side))' = Tokens[side]
  <2>1. MintOf[side] # MintOf[s]
    BY <1>7, SweepAssumption
  <2>2. a \notin AccountsOf(side) /\ \A b \in AccountsOf(side) : b \in Address
    BY <1>1, <2>1 DEF AccountsOf
  <2>3. Balances(side)' = Balances(side)
    BY <1>4, <2>2 DEF Balances
  <2>4. wallets'[side] = wallets[side]
    BY <1>1, <1>2, <1>7
  <2> QED BY <1>1, <2>3, <2>4 DEF Conserved
<1> QED BY <1>6, <1>7 DEF Conserved

LEMMA PoolConserves ==
  ASSUME IInv, Conserved, Pool
  PROVE  Conserved'
<1>1. /\ vault \in [Sides -> Nat] /\ wallets \in [Sides -> Nat]
      /\ owed \in [Receivers -> [Sides -> Nat]]
  BY DEF IInv, TypeOK
<1>2. ASSUME NEW reserves \in Amounts, MoveLiquidity(reserves)
      PROVE  Conserved'
  <2>1. \A s \in Sides : reserves[s] \in Int
    BY SweepAssumption DEF Amounts
  <2>2. \A s \in Sides : vault'[s] + wallets'[s] = vault[s] + wallets[s]
    BY <1>1, <1>2, <2>1 DEF MoveLiquidity
  <2> QED BY <1>2, <2>2, SameBalances DEF MoveLiquidity
<1>3. ASSUME NEW s \in Sides, NEW creatorSide, NEW amountIn \in Int, NEW amountOut \in Int,
             NEW fee, Swap(s, amountIn, amountOut, fee, creatorSide)
      PROVE  Conserved'
  <2>1. 1 - s \in Sides /\ 1 - s # s /\ \A side \in Sides : side = s \/ side = 1 - s
    OBVIOUS
  <2>2. /\ vault' = [vault EXCEPT ![s] = @ + amountIn, ![1 - s] = @ - amountOut]
        /\ wallets' = [wallets EXCEPT ![s] = @ - amountIn, ![1 - s] = @ + amountOut]
        /\ UNCHANGED balance
    BY <1>3 DEF Swap
  <2>3. \A side \in Sides : vault'[side] + wallets'[side] = vault[side] + wallets[side]
    BY <1>1, <2>1, <2>2
  <2> QED BY <2>2, <2>3, SameBalances
<1>4. CASE CollectCreatorFee
  <2>1. \A s \in Sides : vault'[s] + wallets'[s] = vault[s] + wallets[s]
    BY <1>1, <1>4 DEF CollectCreatorFee
  <2> QED BY <1>4, <2>1, SameBalances DEF CollectCreatorFee
<1>5. \A s \in Sides : wallets[s] \in Nat /\ vault[1 - s] \in Nat
  BY <1>1
<1> QED BY <1>2, <1>3, <1>4, <1>5 DEF Pool

LEMMA NextConserves ==
  ASSUME IsFiniteSet(Treasuries), IsFiniteSet(Mints), IInv, Conserved, Next
  PROVE  Conserved'
<1>1. CASE Sweep
  <2>1. PICK r \in TreasuryFees, requested \in Amounts, recipients \in [Sides -> accounts] :
          Collect(r, requested, recipients)
    BY <1>1 DEF Sweep
  <2>2. requested \in [Sides -> Nat] /\ \A s \in Sides : requested[s] <= Tokens[s]
    BY SweepAssumption DEF Amounts
  <2> QED BY <2>1, <2>2, CollectConserves
<1>2. CASE Treasury
  <2>1. ASSUME UNCHANGED <<vault, balance, wallets>>
        PROVE  Conserved'
    BY <2>1, SameBalances
  <2> QED BY <1>2, <2>1, TreasuryMovesConserves DEF Treasury, InitializeTreasury, CreateAssetVault
<1>3. CASE Administration
  <2>1. UNCHANGED <<vault, balance, wallets>>
    BY <1>3 DEF Administration, SetTreasuryProgram, SetTreasuryState, SetMimMint
  <2> QED BY <2>1, SameBalances
<1> QED BY <1>1, <1>2, <1>3, PoolConserves DEF Next

\* So nobody is owed more than exists, and a keeper who asks for everything gets
\* all that is owed.
LEMMA EverythingIsEnough ==
  ASSUME IsFiniteSet(Treasuries), IsFiniteSet(Mints), IInv, Conserved, NEW r \in TreasuryFees
  PROVE  Lesser(Tokens, owed[r]) = owed[r]
<1>1. /\ vault \in [Sides -> Nat] /\ wallets \in [Sides -> Nat] /\ balance \in [Address -> Nat]
      /\ owed \in [Receivers -> [Sides -> Nat]]
  BY DEF IInv, TypeOK
<1>2. ASSUME NEW s \in Sides
      PROVE  owed[r][s] <= Tokens[s]
  <2>1. Balances(s) \in [AccountsOf(s) -> Nat]
    BY <1>1 DEF Balances, AccountsOf
  <2>2. Total(Balances(s)) \in Nat
    BY <2>1, AccountsFinite, UnitsFinite
  <2>3. owed[r][s] <= OwedOn(s) /\ OwedOn(s) <= vault[s] /\ OwedOn(s) \in Nat
    BY <1>1 DEF IInv, FeesCovered, OwedOn
  <2>4. vault[s] + wallets[s] + Total(Balances(s)) = Tokens[s]
    BY DEF Conserved
  <2> QED BY <1>1, <2>2, <2>3, <2>4
<1>3. ASSUME NEW s \in Sides
      PROVE  (IF Tokens[s] < owed[r][s] THEN Tokens[s] ELSE owed[r][s]) = owed[r][s]
  BY <1>1, <1>2, SweepAssumption
<1>4. owed[r] \in [Sides -> Nat]
  BY <1>1
<1> QED BY <1>3, <1>4 DEF Lesser

\* The checks are all that stands between the keeper and the step.
LEMMA SweepableIsSwept ==
  ASSUME IInv, NEW r \in TreasuryFees, CanSweep(r),
         LET amounts == Lesser(Tokens, owed[r])
             recipients == [s \in Sides |-> ExpectedFeeReceiver(MintOf[s])]
         IN  /\ owed' = [owed EXCEPT ![r] = [s \in Sides |-> @[s] - amounts[s]]]
             /\ vault' = [s \in Sides |-> vault[s] - amounts[s]]
             /\ balance' = [a \in Address |->
                  balance[a] + (IF a = recipients[0] THEN Arriving[0][amounts[0]] ELSE 0)
                             + (IF a = recipients[1] THEN Arriving[1][amounts[1]] ELSE 0)]
             /\ wallets' = [s \in Sides |-> wallets[s] + amounts[s] - Arriving[s][amounts[s]]]
             /\ UNCHANGED <<routing, accounts>>
  PROVE  SweepAll(r)
<1>1. owed[r] \in [Sides -> Nat] /\ Tokens \in [Sides -> Nat]
  BY SweepAssumption DEF IInv, TypeOK
<1>2. \A s \in Sides : Lesser(Tokens, owed[r])[s] <= owed[r][s]
  BY <1>1, LesserBounds
<1> QED BY <1>2 DEF CanSweep, SweepAll, Collect, PayFees

LEMMA RoutedIsSweepable ==
  ASSUME IsFiniteSet(Treasuries), IsFiniteSet(Mints), IInv, Conserved, Routed,
         NEW r \in TreasuryFees, Due(r)
  PROVE  CanSweep(r)
<1>1. ASSUME NEW s \in Sides
      PROVE  /\ ExpectedFeeReceiver(MintOf[s]) = HomeVault(treasuryState, s)
             /\ HomeVault(treasuryState, s) \in accounts
             /\ ValidFeeRecipient(HomeVault(treasuryState, s), MintOf[s])
  <2>1. /\ ExpectedFeeReceiver(MintOf[s]) = HomeVault(treasuryState, s)
        /\ HomeVault(treasuryState, s) \in accounts
        /\ treasuryProgram = treasuryState
    BY DEF Routed, ExpectedFeeReceiver, HomeVault
  <2>2. MintOf[s] \in Mints /\ "active_mim_vault" \notin Mints
    BY SweepAssumption
  <2>3. /\ MintAt(HomeVault(treasuryState, s)) = MintOf[s]
        /\ OwnerAt(HomeVault(treasuryState, s)) = TreasuryAuthority
    BY <2>1, <2>2 DEF MintAt, OwnerAt, HomeVault, TreasuryAuthority
  <2> QED BY <2>1, <2>3 DEF ValidFeeRecipient
<1>2. \E s \in Sides : Lesser(Tokens, owed[r])[s] > 0
  BY EverythingIsEnough DEF Due
<1> QED BY <1>1, <1>2 DEF CanSweep

LEMMA SweepAllSettles ==
  ASSUME IsFiniteSet(Treasuries), IsFiniteSet(Mints), IInv, Conserved,
         NEW r \in TreasuryFees, SweepAll(r)
  PROVE  \A s \in Sides : owed'[r][s] = 0
<1>1. owed \in [Receivers -> [Sides -> Nat]]
  BY DEF IInv, TypeOK
<1>2. owed' = [owed EXCEPT ![r] = [s \in Sides |-> @[s] - owed[r][s]]]
  BY EverythingIsEnough DEF SweepAll, Collect, PayFees
<1> QED BY <1>1, <1>2

\* No token is created or lost between the pool, the treasuries and everybody
\* else, what the mints withhold included.
THEOREM TokensAreConserved ==
  ASSUME IsFiniteSet(Treasuries), IsFiniteSet(Mints)
  PROVE  Spec => []Conserved
<1>1. ASSUME Init
      PROVE  Conserved
  <2>1. ASSUME NEW s \in Sides
        PROVE  Total(Balances(s)) = 0
    <3>1. Balances(s) = [a \in AccountsOf(s) |-> 0]
      BY <1>1 DEF Init, Balances, AccountsOf
    <3> QED BY <3>1, TotalZero
  <2> QED BY <1>1, <2>1, SweepAssumption DEF Init, Conserved
<1>2. ASSUME IInv, Conserved, [Next]_vars
      PROVE  Conserved'
  <2>1. CASE UNCHANGED vars
    BY <1>2, <2>1, SameBalances DEF vars
  <2> QED BY <1>2, <2>1, NextConserves
<1>3. IInv /\ Conserved /\ [Next]_vars => Conserved'
  BY <1>2
<1>4. Init => Conserved
  BY <1>1
<1> QED BY <1>3, <1>4, SweepInvariant, PTL DEF Spec

\* While the configuration leads to a complete treasury, whoever submits a
\* collection of everything that is owed is never refused ...
THEOREM RoutedFeesCanBeSwept ==
  ASSUME IsFiniteSet(Treasuries), IsFiniteSet(Mints)
  PROVE  Spec => [](Routed => \A r \in TreasuryFees : Due(r) => CanSweep(r))
<1>1. IInv /\ Conserved => (Routed => \A r \in TreasuryFees : Due(r) => CanSweep(r))
  BY RoutedIsSweepable
<1> QED BY <1>1, SweepInvariant, TokensAreConserved, PTL

\* ... and when it is executed nothing is owed any more.
THEOREM KeepersSettle ==
  ASSUME IsFiniteSet(Treasuries), IsFiniteSet(Mints)
  PROVE  Spec =>
           [][\A r \in TreasuryFees : SweepAll(r) => \A s \in Sides : owed'[r][s] = 0]_vars
<1>1. IInv /\ Conserved
        => [\A r \in TreasuryFees : SweepAll(r) => \A s \in Sides : owed'[r][s] = 0]_vars
  BY SweepAllSettles
<1> QED BY <1>1, SweepInvariant, TokensAreConserved, PTL
=============================================================================
