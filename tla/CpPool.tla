------------------------------- MODULE CpPool -------------------------------
(***************************************************************************)
(* One pool of the cp-swap program (programs/cp-swap/src): two vaults,     *)
(* LP tokens, and the fees owed to the protocol, the fund and the creator, *)
(* which stay in the vaults until they are collected.  Each instruction is *)
(* a transaction: it locks the accounts it writes, and an error reverts    *)
(* all of it, so each is one action.                                       *)
(*                                                                         *)
(* Abstractions: the traders and LP holders are one crowd, which holds     *)
(* every token that is not in a vault and every LP token; the clock is the *)
(* flag `opened` (has open_time passed?); the accounts a transaction       *)
(* names, the signer of an admin's among them, are the ones its            *)
(* constraints ask for; the fee in SOL for creating a pool, the creation   *)
(* of accounts and recent_epoch, which nothing reads, are left out.  A     *)
(* swap also updates the price oracle, which is the module Observation.    *)
(***************************************************************************)
EXTENDS SwapCurve, FiniteSets

CONSTANTS
  LockedLp,      \* lock_lp_amount, 100 in the source
  Tokens,        \* tokens in existence, of each side
  Rates,         \* for each rate of AmmConfig, the values the admin may give it
  FirstConfig,   \* the rates of create_amm_config
  TransferRate,  \* transfer fee of each side's mint, per BasisPoints
  TransferMax,   \* ... and its maximum_fee
  BasisPoints,   \* 10_000
  Unlisted,      \* sides whose mint is_supported_mint refuses unless it is registered
  Limits,        \* the slippage limits users give
  MaxLp          \* bound: LP tokens minted by one deposit

RateNames == {"trade", "creator", "protocol", "fund"}

\* The assertions of create_amm_config (lib.rs) and update_amm_config.
ValidConfig(c) ==
  /\ c.trade + c.creator < Denominator
  /\ c.protocol + c.fund <= Denominator

ASSUME PoolAssumption ==
  /\ LockedLp \in Nat \ {0}
  /\ Tokens \in [Sides -> Nat]
  /\ Rates \in [RateNames -> SUBSET Nat]
  /\ FirstConfig \in [RateNames -> Nat] /\ ValidConfig(FirstConfig)
  /\ BasisPoints \in Nat \ {0}
  /\ TransferRate \in [Sides -> 0..BasisPoints]
  /\ TransferMax \in [Sides -> Nat]
  /\ Unlisted \subseteq Sides
  /\ Limits \subseteq Nat
  /\ MaxLp \in Nat

Operations == {"deposit", "withdraw", "swap"}

VARIABLES
  config,        \* AmmConfig: the four rates
  creationOff,   \* AmmConfig::disable_create_pool
  permission,    \* does the payer of initialize_with_permission have a Permission?
  supported,     \* the sides whose mint has a SupportMintAssociated
  created,       \* does the pool account exist?
  opened,        \* has open_time passed?
  disabled,      \* PoolState::status, the set of its bits
  creatorFeeOn,  \* the sides whose input pays the creator: both, or only one
  enableCreatorFee,
  vault,         \* balances of the two vaults
  protocolFees, fundFees, creatorFees,
  lpSupply,      \* PoolState::lp_supply
  lpMinted       \* supply of the LP mint

fees  == <<protocolFees, fundFees, creatorFees>>
modes == <<created, creatorFeeOn, enableCreatorFee>>
registries == <<permission, supported>>
admin == <<config, creationOff, registries, disabled>>
vars  == <<admin, modes, opened, vault, fees, lpSupply, lpMinted>>

----------------------------------------------------------------------------
Held(s) == Tokens[s] - vault[s]

OwedFees(s) == protocolFees[s] + fundFees[s] + creatorFees[s]

\* variant: the creator's fees are counted as liquidity
NetWithCreatorFees(s) == vault[s] - protocolFees[s] - fundFees[s]

\* vault_amount_without_fee, which fails if it is negative
Net(s) == vault[s] - OwedFees(s)

NetsOK == \A s \in Sides : Net(s) >= 0

\* get_transfer_fee: what the mint withholds of a transfer (Token-2022)
TransferFee(s, amount) ==
  LET fee == CeilDiv(amount * TransferRate[s], BasisPoints)
  IN  IF fee > TransferMax[s] THEN TransferMax[s] ELSE fee

Received(s, amount) == amount - TransferFee(s, amount)

\* get_transfer_inverse_fee: what must be sent for `amount` to arrive, the least
\* such amount, if the mint has enough.
SentFor(s, amount) ==
  {sent \in amount..Tokens[s] :
     /\ Received(s, sent) = amount
     /\ \A less \in amount..(sent - 1) : Received(s, less) # amount}

\* is_creator_fee_on_input
IsCreatorFeeOnInput(s) == s \in creatorFeeOn

\* adjust_creator_fee_rate
CreatorRate == IF enableCreatorFee THEN config.creator ELSE 0

----------------------------------------------------------------------------
Init ==
  /\ config = FirstConfig
  /\ creationOff = FALSE
  /\ permission = FALSE /\ supported = {}
  /\ created = FALSE
  /\ opened = FALSE
  /\ disabled = {}
  /\ creatorFeeOn = Sides /\ enableCreatorFee = FALSE
  /\ vault = [s \in Sides |-> 0]
  /\ protocolFees = [s \in Sides |-> 0]
  /\ fundFees = [s \in Sides |-> 0]
  /\ creatorFees = [s \in Sides |-> 0]
  /\ lpSupply = 0 /\ lpMinted = 0

\* variant: no liquidity is locked
MintedAtCreationAll(liquidity) == liquidity

\* The LP tokens of the first LockedLp units of liquidity are never minted.
MintedAtCreation(liquidity) == liquidity - LockedLp

\* is_supported_mint: its own list of mints and extensions, or the registry
IsSupportedMint(s) == s \notin Unlisted \/ s \in supported

\* initialize (feeOn = Sides, enable = FALSE) and initialize_with_permission.
CreatePool(amounts, feeOn, enable, liquidity) ==
  LET received == [s \in Sides |-> Received(s, amounts[s])]
  IN  /\ ~created /\ ~creationOff /\ \A s \in Sides : IsSupportedMint(s)
      /\ \A s \in Sides : amounts[s] <= Held(s) /\ received[s] > 0
      /\ IsLiquidity(liquidity, received[0], received[1])
      /\ liquidity >= LockedLp
      /\ created' = TRUE
      /\ opened' = FALSE        \* open_time is later than the current time
      /\ disabled' = {}
      /\ creatorFeeOn' = feeOn /\ enableCreatorFee' = enable
      /\ vault' = received
      /\ lpSupply' = liquidity
      /\ lpMinted' = MintedAtCreation(liquidity)
      /\ UNCHANGED <<config, creationOff, registries, fees>>

Initialize(amounts, liquidity) == CreatePool(amounts, Sides, FALSE, liquidity)

InitializeWithPermission(amounts, feeOn, liquidity) ==
  permission /\ CreatePool(amounts, feeOn, TRUE, liquidity)

OpenTimePasses == created /\ ~opened /\ opened' = TRUE
                  /\ UNCHANGED <<admin, modes, vault, fees, lpSupply, lpMinted>>

(* Liquidity.  The user limits what each of the two tokens may cost or bring. *)

Deposit(lp, maximum) ==
  LET amounts == [s \in Sides |-> LpToDeposit(lp, lpSupply, Net(s))]
  IN  /\ created /\ lp > 0
      /\ "deposit" \notin disabled
      /\ NetsOK
      /\ \A s \in Sides : amounts[s] > 0
      /\ \A s \in Sides : \E sent \in SentFor(s, amounts[s]) :
           sent <= maximum[s] /\ sent <= Held(s)
      /\ vault' = [s \in Sides |-> vault[s] + amounts[s]]
      /\ lpSupply' = lpSupply + lp
      /\ lpMinted' = lpMinted + lp
      /\ UNCHANGED <<admin, modes, opened, fees>>

Withdraw(lp, minimum) ==
  LET amounts == [s \in Sides |-> LpToWithdraw(lp, lpSupply, Net(s))]
  IN  /\ created /\ lp > 0 /\ lp <= lpMinted
      /\ "withdraw" \notin disabled
      /\ NetsOK
      /\ \A s \in Sides : amounts[s] > 0 /\ Received(s, amounts[s]) >= minimum[s]
      /\ lp <= lpSupply
      /\ vault' = [s \in Sides |-> vault[s] - amounts[s]]
      /\ lpSupply' = lpSupply - lp
      /\ lpMinted' = lpMinted - lp
      /\ UNCHANGED <<admin, modes, opened, fees>>

(* Swaps of side s against the other *)

SwapOpen == created /\ "swap" \notin disabled /\ opened /\ NetsOK

Priced(s) ==
  IsCreatorFeeOnInput(s) => FeeCanBeSplit(config.trade, CreatorRate)

\* The side update_fees books the creator's fee on.
CreatorFeeSide(s) == IF IsCreatorFeeOnInput(s) THEN s ELSE Other(s)

\* update_fees
BookFees(s, q) ==
  /\ enableCreatorFee \/ q.creatorFee = 0
  /\ protocolFees' = [protocolFees EXCEPT ![s] = @ + PartOfFee(q.tradeFee, config.protocol)]
  /\ fundFees' = [fundFees EXCEPT ![s] = @ + PartOfFee(q.tradeFee, config.fund)]
  /\ creatorFees' = [creatorFees EXCEPT ![CreatorFeeSide(s)] = @ + q.creatorFee]

\* The end of both swaps: the product check and the two transfers.
Exchange(s, q) ==
  /\ (Net(s) + q.swapped) * (Net(Other(s)) - q.drawn) >= Net(s) * Net(Other(s))
  /\ BookFees(s, q)
  /\ vault' = [vault EXCEPT ![s] = @ + q.input, ![Other(s)] = @ - q.output]
  /\ UNCHANGED <<admin, modes, opened, lpSupply, lpMinted>>

SwapBaseInput(s, amountIn, minimumOut) ==
  LET actual == Received(s, amountIn)
      q == QuoteInput(IsCreatorFeeOnInput(s), actual, Net(s), Net(Other(s)),
                      config.trade, CreatorRate)
  IN  /\ SwapOpen
      /\ actual > 0 /\ amountIn <= Held(s)
      /\ Priced(s)
      /\ Received(Other(s), q.output) > 0
      /\ Received(Other(s), q.output) >= minimumOut
      /\ Exchange(s, q)

SwapBaseOutput(s, maximumIn, amountOut) ==
  \E output \in SentFor(Other(s), amountOut) :
    LET q == QuoteOutput(IsCreatorFeeOnInput(s), output, Net(s), Net(Other(s)),
                         config.trade, CreatorRate)
    IN  /\ amountOut > 0
        /\ SwapOpen
        /\ Priced(s)
        /\ DrawnFor(IsCreatorFeeOnInput(s), output, CreatorRate) < Net(Other(s))
        /\ q.input > 0
        /\ \E sent \in SentFor(s, q.input) : sent <= maximumIn /\ sent <= Held(s)
        /\ Exchange(s, q)

(* Fee collection.  A request for more than is owed is cut to what is owed. *)

Lesser(requested, owed) ==
  [s \in Sides |-> IF requested[s] < owed[s] THEN requested[s] ELSE owed[s]]

CollectProtocolFee(requested) ==
  LET amounts == Lesser(requested, protocolFees)
  IN  /\ created /\ \E s \in Sides : amounts[s] > 0
      /\ protocolFees' = [s \in Sides |-> protocolFees[s] - amounts[s]]
      /\ vault' = [s \in Sides |-> vault[s] - amounts[s]]
      /\ UNCHANGED <<admin, modes, opened, fundFees, creatorFees, lpSupply, lpMinted>>

CollectFundFee(requested) ==
  LET amounts == Lesser(requested, fundFees)
  IN  /\ created /\ \E s \in Sides : amounts[s] > 0
      /\ fundFees' = [s \in Sides |-> fundFees[s] - amounts[s]]
      /\ vault' = [s \in Sides |-> vault[s] - amounts[s]]
      /\ UNCHANGED <<admin, modes, opened, protocolFees, creatorFees, lpSupply, lpMinted>>

\* variant: the fees of side 1 are written off without being paid
CollectCreatorFeeHalf ==
  /\ created /\ \E s \in Sides : creatorFees[s] > 0
  /\ creatorFees' = [s \in Sides |-> 0]
  /\ vault' = [vault EXCEPT ![0] = @ - creatorFees[0]]
  /\ UNCHANGED <<admin, modes, opened, protocolFees, fundFees, lpSupply, lpMinted>>

CollectCreatorFee ==
  /\ created /\ \E s \in Sides : creatorFees[s] > 0
  /\ creatorFees' = [s \in Sides |-> 0]
  /\ vault' = [s \in Sides |-> vault[s] - creatorFees[s]]
  /\ UNCHANGED <<admin, modes, opened, protocolFees, fundFees, lpSupply, lpMinted>>

(* Administration *)

UpdatePoolStatus(status) ==
  /\ created
  /\ disabled' = status
  /\ UNCHANGED <<config, creationOff, registries, modes, opened, vault, fees, lpSupply, lpMinted>>

\* variant: the new rate is not checked against the others
UpdateRateUnchecked(name, rate) ==
  /\ config' = [config EXCEPT ![name] = rate]
  /\ UNCHANGED <<creationOff, registries, disabled, modes, opened, vault, fees, lpSupply, lpMinted>>

\* update_amm_config with param 0, 1, 2 or 7
UpdateRate(name, rate) ==
  /\ ValidConfig([config EXCEPT ![name] = rate])
  /\ config' = [config EXCEPT ![name] = rate]
  /\ UNCHANGED <<creationOff, registries, disabled, modes, opened, vault, fees, lpSupply, lpMinted>>

\* ... and with param 6
DisableCreatePool(off) ==
  /\ creationOff' = off
  /\ UNCHANGED <<config, registries, disabled, modes, opened, vault, fees, lpSupply, lpMinted>>

(* The registries that gate creation; pools that exist do not look back at them. *)

CreatePermission ==
  /\ ~permission /\ permission' = TRUE
  /\ UNCHANGED <<config, creationOff, supported, disabled, modes, opened, vault, fees,
                 lpSupply, lpMinted>>

ClosePermission ==
  /\ permission /\ permission' = FALSE
  /\ UNCHANGED <<config, creationOff, supported, disabled, modes, opened, vault, fees,
                 lpSupply, lpMinted>>

CreateSupportMint(s) ==
  /\ s \notin supported /\ supported' = supported \cup {s}
  /\ UNCHANGED <<config, creationOff, permission, disabled, modes, opened, vault, fees,
                 lpSupply, lpMinted>>

CloseSupportMint(s) ==
  /\ s \in supported /\ supported' = supported \ {s}
  /\ UNCHANGED <<config, creationOff, permission, disabled, modes, opened, vault, fees,
                 lpSupply, lpMinted>>

(* The token program, outside the pool's control *)

SendToVault(s, amount) ==
  /\ created /\ amount <= Held(s)
  /\ vault' = [vault EXCEPT ![s] = @ + Received(s, amount)]
  /\ UNCHANGED <<admin, modes, opened, fees, lpSupply, lpMinted>>

BurnLp(amount) ==
  /\ created /\ amount <= lpMinted
  /\ lpMinted' = lpMinted - amount
  /\ UNCHANGED <<admin, modes, opened, vault, fees, lpSupply>>

----------------------------------------------------------------------------
Creation ==
  \E a0 \in 1..Tokens[0], a1 \in 1..Tokens[1], liquidity \in 1..(Tokens[0] + Tokens[1]) :
    LET amounts == [s \in Sides |-> IF s = 0 THEN a0 ELSE a1]
    IN  \/ Initialize(amounts, liquidity)
        \/ \E feeOn \in {Sides, {0}, {1}} :
             InitializeWithPermission(amounts, feeOn, liquidity)

Liquidity ==
  \/ \E lp \in 1..MaxLp, limits \in [Sides -> Limits] : Deposit(lp, limits)
  \/ \E lp \in 1..lpMinted, limits \in [Sides -> Limits] : Withdraw(lp, limits)
  \/ \E amount \in 1..lpMinted : BurnLp(amount)

Trading ==
  \E s \in Sides :
    \/ \E amount \in 1..Tokens[s], limit \in Limits : SwapBaseInput(s, amount, limit)
    \/ \E amount \in 1..Tokens[Other(s)], limit \in Limits : SwapBaseOutput(s, limit, amount)
    \/ \E amount \in 1..Tokens[s] : SendToVault(s, amount)

Collection ==
  \/ \E r0 \in 0..Tokens[0], r1 \in 0..Tokens[1] :
       LET requested == [s \in Sides |-> IF s = 0 THEN r0 ELSE r1]
       IN  CollectProtocolFee(requested) \/ CollectFundFee(requested)
  \/ CollectCreatorFee

Administration ==
  \/ \E status \in SUBSET Operations : UpdatePoolStatus(status)
  \/ \E name \in RateNames : \E rate \in Rates[name] : UpdateRate(name, rate)
  \/ \E off \in BOOLEAN : DisableCreatePool(off)
  \/ CreatePermission \/ ClosePermission
  \/ \E s \in Unlisted : CreateSupportMint(s) \/ CloseSupportMint(s)

Next == Creation \/ OpenTimePasses \/ Liquidity \/ Trading \/ Collection \/ Administration

Spec == Init /\ [][Next]_vars

----------------------------------------------------------------------------
(* Properties *)

\* The accounts keep the shape of AmmConfig and PoolState, and the rates of a
\* configuration stay within the assertions of lib.rs whatever the order in
\* which the admin changes them.
TypeOK ==
  /\ config \in [RateNames -> Nat] /\ ValidConfig(config)
  /\ permission \in BOOLEAN /\ supported \subseteq Unlisted
  /\ creationOff \in BOOLEAN /\ created \in BOOLEAN /\ opened \in BOOLEAN
  /\ disabled \subseteq Operations
  /\ creatorFeeOn \in {Sides, {0}, {1}} /\ enableCreatorFee \in BOOLEAN
  /\ vault \in [Sides -> Nat]
  /\ protocolFees \in [Sides -> Nat] /\ fundFees \in [Sides -> Nat]
  /\ creatorFees \in [Sides -> Nat]
  /\ lpSupply \in Nat /\ lpMinted \in Nat

\* The vaults always hold every fee that is owed and some liquidity besides, so
\* vault_amount_without_fee never fails with InsufficientVault, no collection
\* fails for lack of tokens, and token_price_x32 never divides by zero.
PoolSolvent == created => \A s \in Sides : OwedFees(s) < vault[s]

\* The liquidity of the first LockedLp units belongs to nobody: all LP tokens
\* together can never empty the pool (lock_lp_amount, initialize.rs).
LiquidityLocked == created => lpMinted + LockedLp <= lpSupply

\* Adding or removing liquidity never lowers what the LP tokens of the others
\* are worth in either token: both roundings favour those who stay.
LiquidityKeepsShares ==
  [][created /\ lpSupply' # lpSupply =>
       \A s \in Sides : Net(s)' * lpSupply >= Net(s) * lpSupply']_vars

\* No step of anybody, swaps and the admin's changes included, lowers the value
\* of an LP token: the product of the reserves over the square of the supply.
LpValueNeverFalls ==
  [][created =>
       Net(0)' * Net(1)' * lpSupply * lpSupply
         >= Net(0) * Net(1) * lpSupply' * lpSupply']_vars

\* Collecting fees takes nothing from the liquidity, nor from the fees owed to
\* another receiver: each vault falls by exactly what its fee account falls.
CollectionTakesOnlyFees ==
  [][\A s \in Sides :
       OwedFees(s)' < OwedFees(s) => vault[s]' - vault[s] = OwedFees(s)' - OwedFees(s)]_vars

\* A swap there and back again never pays, even if no fee left the pool: what
\* the trader gets for the output of a quote is at most the input of that quote.
NoProfitableRoundTrip ==
  created =>
    \A s \in Sides : \A amount \in 1..Held(s) :
      LET q == QuoteInput(IsCreatorFeeOnInput(s), amount, Net(s), Net(Other(s)),
                          config.trade, CreatorRate)
          back == QuoteInput(IsCreatorFeeOnInput(Other(s)), q.output,
                             Net(Other(s)) - q.drawn, Net(s) + q.input,
                             config.trade, CreatorRate)
      IN  Priced(s) /\ Priced(Other(s)) /\ q.output > 0 /\ q.drawn < Net(Other(s))
            => back.output <= amount

\* What update_fees leaves of the trade fee in the reserves.
KeptOfFee(fee) ==
  fee - PartOfFee(fee, config.protocol) - PartOfFee(fee, config.fund)

\* Cutting a trade in two never pays: the price a trader gets does not improve by
\* splitting, however the fees and the curve round each part, also when the
\* creator's fee is taken from the output.
SplittingNeverPays ==
  created =>
    \A s \in Sides : \A whole \in 2..Held(s) : \A part \in 1..(whole - 1) :
      LET Quoted(amount, x, y) ==
            QuoteInput(IsCreatorFeeOnInput(s), amount, x, y, config.trade, CreatorRate)
          first == Quoted(part, Net(s), Net(Other(s)))
          second == Quoted(whole - part, Net(s) + first.swapped + KeptOfFee(first.tradeFee),
                           Net(Other(s)) - first.drawn)
      IN  Priced(s) =>
            first.output + second.output <= Quoted(whole, Net(s), Net(Other(s))).output

\* The two swaps agree: paying what swap_base_output asks for an output into
\* swap_base_input gives at least that output.
ExactOutputIsPaidFor ==
  created =>
    \A s \in Sides : \A amount \in 1..vault[Other(s)] :
      LET onInput == IsCreatorFeeOnInput(s)
          q == QuoteOutput(onInput, amount, Net(s), Net(Other(s)), config.trade, CreatorRate)
          direct == QuoteInput(onInput, q.input, Net(s), Net(Other(s)),
                               config.trade, CreatorRate)
      IN  Priced(s) /\ DrawnFor(onInput, amount, CreatorRate) < Net(Other(s))
            => direct.output >= amount

\* ... and is the least that does: no smaller amount paid into swap_base_input
\* brings the output, although fee and curve are inverted one after the other and
\* each is rounded up.
ExactOutputCostsLeast ==
  created =>
    \A s \in Sides : \A amount \in 1..vault[Other(s)] :
      LET onInput == IsCreatorFeeOnInput(s)
          q == QuoteOutput(onInput, amount, Net(s), Net(Other(s)), config.trade, CreatorRate)
          Direct(less) == QuoteInput(onInput, less, Net(s), Net(Other(s)),
                                     config.trade, CreatorRate)
      IN  Priced(s) /\ DrawnFor(onInput, amount, CreatorRate) < Net(Other(s))
            => \A less \in 0..(q.input - 1) : Direct(less).output < amount

\* The fees by receiver, as FeeLedger keeps them.
OwedTo ==
  [r \in {"protocol", "fund", "creator"} |->
     IF r = "protocol" THEN protocolFees ELSE IF r = "fund" THEN fundFees ELSE creatorFees]

Ledger == INSTANCE FeeLedger WITH owed <- OwedTo

\* The pool keeps the promises of the fee ledger: a fee is owed until it is paid,
\* is covered by the vaults until then, and paying one receiver takes nothing
\* from another, whatever swaps, liquidity and the admin do in between.
ImplementsFeeLedger == Ledger!Spec

\* Every configuration the assertions of lib.rs accept lets the pool quote:
\* fees.rs has a case for a rate of 0 (calculate_pre_fee_amount).
AcceptedRatesTrade == created => \A s \in Sides : Priced(s)

\* lp_supply is the "True circulating supply without burns and lock ups"
\* (states/pool.rs).
LpSupplyCirculates == created => lpSupply = lpMinted
=============================================================================
