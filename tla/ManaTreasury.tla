--------------------------- MODULE ManaTreasury ---------------------------
(***************************************************************************)
(* The mana-treasury program (programs/mana-treasury/src/lib.rs).  Users   *)
(* deposit MIM and receive Mana, a share of the active MIM vault.  A       *)
(* holder leaves by queueing a redemption: the Mana is escrowed, its MIM   *)
(* value is set aside at once, and after a cooldown the Mana is burnt and  *)
(* the MIM paid.  Fees and other assets reach the treasury as donations    *)
(* and are sold for MIM through an external router.                        *)
(*                                                                         *)
(* A Solana transaction locks the accounts it writes and reverts wholly on *)
(* an error, so each handler is one action: its guard is the conjunction   *)
(* of the account constraints and of every check that can return an error. *)
(* Amounts are u64 (0..MaxU64); the clock and the unlock times are i64.    *)
(* The MIM mint takes no transfer fee, as the handlers assume.             *)
(***************************************************************************)
EXTENDS Integers, TokenTotals

CONSTANTS
  Users,         \* wallets; each may be depositor, holder, donor or authority
  Routers,       \* swap programs the authority may select
  Assets,        \* non-MIM mints
  NoKey,         \* Pubkey::default()
  MimPerUser,    \* MIM in each wallet at the start
  MarketMim,     \* MIM the router's markets hold at the start
  Cooldowns,     \* the values the authority may give cooldown_seconds
  DefaultCooldown,
  I64Half,       \* 2^63
  MaxTime,       \* bound: the model's clock stops here
  MaxAsset       \* bound: tokens of one asset ever held by its vault

MaxU64 == 2 * I64Half - 1

ASSUME UsersAssumption == IsFiniteSet(Users) /\ NoKey \notin Users \cup Routers
ASSUME AmountAssumption == /\ MimPerUser \in Nat
                           /\ MarketMim \in Nat
                           /\ MaxAsset \in Nat
ASSUME TimeAssumption == /\ I64Half \in Nat \ {0}
                         /\ MaxTime \in 0..(I64Half - 1)
                         /\ Cooldowns \subseteq 0..MaxU64
                         /\ DefaultCooldown \in Cooldowns

VARIABLES
  authority, pendingAuthority, swapRouter, cooldownSeconds,
  pendingManaSupply,                     \* these five: TreasuryState
  activeMimVault, pendingMimVault, pendingManaVault,   \* token balances
  manaSupply,                            \* supply of the Mana mint
  mim, mana,                             \* wallet balances
  requests,                              \* RedemptionRequest of each owner
  assetVaults, assetTokens,              \* AssetVault accounts, their balances
  marketMim,                             \* MIM outside the wallets and vaults
  now                                    \* Clock::unix_timestamp

config == <<authority, pendingAuthority, swapRouter, cooldownSeconds>>
queue  == <<pendingManaSupply, pendingMimVault, pendingManaVault, requests>>
other  == <<assetVaults, assetTokens, marketMim>>
vars   == <<config, queue, other, activeMimVault, manaSupply, mim, mana, now>>

----------------------------------------------------------------------------
(* Arithmetic.  A definition marked "variant" is no part of the program: it is
   a plausible mistake in the definition below it, kept to show that a property
   depends on getting that definition right. *)

\* `x as i64` of a u64.
AsI64(x) == IF x < I64Half THEN x ELSE x - 2 * I64Half

\* variant: a queued request is payable at once
UnlockAtOnce(cooldown) == now

\* The end of the cooldown that starts now.
UnlockTime(cooldown) == now + AsI64(cooldown)

\* Mana that can still be redeemed: total supply less what is queued.
ActiveManaSupply == manaSupply - pendingManaSupply

\* variant: rounds in the depositor's favour
ManaForDepositCeiling(amount, mimBalance, supply) ==
  IF supply = 0 THEN amount ELSE (amount * supply + mimBalance - 1) \div mimBalance

ManaForDeposit(amount, mimBalance, supply) ==
  IF supply = 0 THEN amount ELSE (amount * supply) \div mimBalance

\* variant: rounds in the redeemer's favour
MimForRedemptionCeiling(amount, mimBalance, supply) ==
  (amount * mimBalance + supply - 1) \div supply

MimForRedemption(amount, mimBalance, supply) ==
  (amount * mimBalance) \div supply

\* A closed redemption account: no data.
NoRequest == [mana |-> 0, reserved |-> 0, unlock |-> 0]

\* variant: the value set aside is recorded as the Mana escrowed
RequestForReservedMana(amount) ==
  LET reserved == MimForRedemption(amount, activeMimVault, ActiveManaSupply)
  IN  [mana |-> reserved, reserved |-> reserved, unlock |-> UnlockTime(cooldownSeconds)]

\* The request as start_destake writes it, priced in the current state.
RequestFor(amount) ==
  [mana     |-> amount,
   reserved |-> MimForRedemption(amount, activeMimVault, ActiveManaSupply),
   unlock   |-> UnlockTime(cooldownSeconds)]

\* variant: pays the queued Mana at today's price
PayoutAtCurrentNav(u) ==
  IF ActiveManaSupply > 0
  THEN MimForRedemption(requests[u].mana, activeMimVault, ActiveManaSupply)
  ELSE requests[u].reserved

\* What finalize_destake pays: the amount reserved when the request was queued.
Payout(u) == requests[u].reserved

Initialised == authority # NoKey

----------------------------------------------------------------------------
Init ==
  /\ authority = NoKey /\ pendingAuthority = NoKey /\ swapRouter = NoKey
  /\ cooldownSeconds = DefaultCooldown
  /\ pendingManaSupply = 0
  /\ activeMimVault = 0 /\ pendingMimVault = 0 /\ pendingManaVault = 0
  /\ manaSupply = 0
  /\ mim = [u \in Users |-> MimPerUser]
  /\ mana = [u \in Users |-> 0]
  /\ requests = [u \in Users |-> NoRequest]
  /\ assetVaults = {}
  /\ assetTokens = [a \in Assets |-> 0]
  /\ marketMim = MarketMim
  /\ now = 0

\* variant: the cooldown keeps the zero of the fresh account
InitializeWithoutCooldown(signer) ==
  /\ ~Initialised
  /\ authority' = signer
  /\ cooldownSeconds' = 0
  /\ UNCHANGED <<pendingAuthority, swapRouter,
                 queue, other, activeMimVault, manaSupply, mim, mana, now>>

\* initialize_treasury: the state account is a PDA with `init`, so once only.
InitializeTreasury(signer) ==
  /\ ~Initialised
  /\ authority' = signer
  /\ pendingAuthority' = NoKey
  /\ swapRouter' = NoKey
  /\ cooldownSeconds' = DefaultCooldown
  /\ UNCHANGED <<queue, other, activeMimVault, manaSupply, mim, mana, now>>

(* Deposits and donations *)

DepositMim(u, amount, minManaOut) ==
  LET manaOut == ManaForDeposit(amount, activeMimVault, ActiveManaSupply)
  IN  /\ Initialised
      /\ amount > 0 /\ amount <= mim[u]
      /\ ActiveManaSupply >= 0
      /\ ActiveManaSupply > 0 => activeMimVault > 0
      /\ manaOut >= minManaOut /\ manaOut > 0
      /\ manaSupply + manaOut <= MaxU64
      /\ mim' = [mim EXCEPT ![u] = @ - amount]
      /\ activeMimVault' = activeMimVault + amount
      /\ mana' = [mana EXCEPT ![u] = @ + manaOut]
      /\ manaSupply' = manaSupply + manaOut
      /\ UNCHANGED <<config, queue, other, now>>

DonateMim(u, amount) ==
  /\ Initialised
  /\ amount > 0 /\ amount <= mim[u]
  /\ mim' = [mim EXCEPT ![u] = @ - amount]
  /\ activeMimVault' = activeMimVault + amount
  /\ UNCHANGED <<config, queue, other, manaSupply, mana, now>>

(* De-staking *)

\* start_destake: `init` on the owner's redemption PDA refuses a second open
\* request.  The checked_add of the unlock time fails past i64::MAX; the model
\* refuses it past MaxTime, the end of its clock.
StartDestake(u, amount, minMimOut) ==
  LET request == RequestFor(amount)
  IN  /\ Initialised
      /\ amount > 0 /\ amount <= mana[u]
      /\ ActiveManaSupply > 0
      /\ requests[u] = NoRequest
      /\ request.reserved >= minMimOut /\ request.reserved > 0
      /\ request.reserved <= activeMimVault
      /\ request.unlock <= MaxTime
      /\ mana' = [mana EXCEPT ![u] = @ - amount]
      /\ pendingManaVault' = pendingManaVault + amount
      /\ activeMimVault' = activeMimVault - request.reserved
      /\ pendingMimVault' = pendingMimVault + request.reserved
      /\ pendingManaSupply' = pendingManaSupply + amount
      /\ requests' = [requests EXCEPT ![u] = request]
      /\ UNCHANGED <<config, other, manaSupply, mim, now>>

\* What finalize_destake asks of the token accounts and the state: the burn, the
\* transfer and the checked_sub fail otherwise.
CanPay(u) ==
  /\ pendingManaVault >= requests[u].mana /\ manaSupply >= requests[u].mana
  /\ pendingMimVault >= Payout(u)
  /\ pendingManaSupply >= requests[u].mana

\* finalize_destake: the account is closed in the transaction that sets
\* `finalized`, so the flag is never seen set and is not part of the state.
FinalizeDestake(u) ==
  LET request == requests[u]
  IN  /\ request # NoRequest
      /\ now >= request.unlock
      /\ CanPay(u)
      /\ pendingManaVault' = pendingManaVault - request.mana
      /\ manaSupply' = manaSupply - request.mana
      /\ pendingMimVault' = pendingMimVault - Payout(u)
      /\ mim' = [mim EXCEPT ![u] = @ + Payout(u)]
      /\ pendingManaSupply' = pendingManaSupply - request.mana
      /\ requests' = [requests EXCEPT ![u] = NoRequest]
      /\ UNCHANGED <<config, other, activeMimVault, mana, now>>

(* Non-MIM assets *)

CreateAssetVault(signer, a) ==
  /\ signer = authority
  /\ a \notin assetVaults
  /\ assetVaults' = assetVaults \cup {a}
  /\ UNCHANGED <<config, queue, assetTokens, marketMim, activeMimVault, manaSupply,
                 mim, mana, now>>

DonateAsset(a, amount) ==
  /\ a \in assetVaults
  /\ amount > 0 /\ assetTokens[a] + amount <= MaxAsset
  /\ assetTokens' = [assetTokens EXCEPT ![a] = @ + amount]
  /\ UNCHANGED <<config, queue, assetVaults, marketMim, activeMimVault, manaSupply,
                 mim, mana, now>>

\* variant: the balance of the MIM vault is not compared
SwapResultUnchecked(amount, minMimOut, spent, out) == spent <= amount

\* What the handler accepts of the router: the asset vault lost at most
\* `amount` and the active MIM vault gained at least `minMimOut`.
SwapResultOK(amount, minMimOut, spent, out) ==
  spent >= 0 /\ out >= 0 /\ spent <= amount /\ out >= minMimOut

\* swap_asset_to_mim: the router may move any amount of the two vaults whose
\* balances the handler reads back; a negative `out` is MIM taken from the vault.
SwapAssetToMim(signer, router, a, amount, minMimOut, spent, out) ==
  /\ amount > 0 /\ minMimOut > 0
  /\ signer = authority
  /\ swapRouter # NoKey /\ router = swapRouter
  /\ a \in assetVaults
  /\ SwapResultOK(amount, minMimOut, spent, out)
  /\ spent <= assetTokens[a] /\ assetTokens[a] - spent <= MaxAsset
  /\ out <= marketMim /\ activeMimVault + out >= 0
  /\ assetTokens' = [assetTokens EXCEPT ![a] = @ - spent]
  /\ activeMimVault' = activeMimVault + out
  /\ marketMim' = marketMim - out
  /\ UNCHANGED <<config, queue, assetVaults, manaSupply, mim, mana, now>>

(* Configuration *)

SetSwapRouter(signer, router) ==
  /\ signer = authority
  /\ swapRouter' = router
  /\ UNCHANGED <<authority, pendingAuthority, cooldownSeconds,
                 queue, other, activeMimVault, manaSupply, mim, mana, now>>

SetCooldownSeconds(signer, seconds) ==
  /\ signer = authority
  /\ cooldownSeconds' = seconds
  /\ UNCHANGED <<authority, pendingAuthority, swapRouter,
                 queue, other, activeMimVault, manaSupply, mim, mana, now>>

SetTreasuryAuthority(signer, nominee) ==
  /\ signer = authority
  /\ nominee # NoKey
  /\ pendingAuthority' = nominee
  /\ UNCHANGED <<authority, swapRouter, cooldownSeconds,
                 queue, other, activeMimVault, manaSupply, mim, mana, now>>

AcceptTreasuryAuthority(signer) ==
  /\ Initialised
  /\ signer = pendingAuthority
  /\ authority' = signer
  /\ pendingAuthority' = NoKey
  /\ UNCHANGED <<swapRouter, cooldownSeconds,
                 queue, other, activeMimVault, manaSupply, mim, mana, now>>

(* The token program and the clock, outside the treasury's control *)

TransferMana(from, to, amount) ==
  /\ from # to
  /\ amount > 0 /\ amount <= mana[from]
  /\ mana' = [mana EXCEPT ![from] = @ - amount, ![to] = @ + amount]
  /\ UNCHANGED <<config, queue, other, activeMimVault, manaSupply, mim, now>>

BurnMana(u, amount) ==
  /\ amount > 0 /\ amount <= mana[u] /\ amount <= manaSupply
  /\ mana' = [mana EXCEPT ![u] = @ - amount]
  /\ manaSupply' = manaSupply - amount
  /\ UNCHANGED <<config, queue, other, activeMimVault, mim, now>>

SendMimToPending(u, amount) ==
  /\ Initialised
  /\ amount > 0 /\ amount <= mim[u]
  /\ mim' = [mim EXCEPT ![u] = @ - amount]
  /\ pendingMimVault' = pendingMimVault + amount
  /\ UNCHANGED <<config, pendingManaSupply, pendingManaVault, requests,
                 other, activeMimVault, manaSupply, mana, now>>

SendManaToPending(u, amount) ==
  /\ amount > 0 /\ amount <= mana[u]
  /\ mana' = [mana EXCEPT ![u] = @ - amount]
  /\ pendingManaVault' = pendingManaVault + amount
  /\ UNCHANGED <<config, pendingManaSupply, pendingMimVault, requests,
                 other, activeMimVault, manaSupply, mim, now>>

Tick ==
  /\ now < MaxTime
  /\ now' = now + 1
  /\ UNCHANGED <<config, queue, other, activeMimVault, manaSupply, mim, mana>>

----------------------------------------------------------------------------
Holders ==
  \E u \in Users :
    \/ \E amount \in 1..mim[u] :
         \/ \E minOut \in 0..amount : DepositMim(u, amount, minOut)
         \/ DonateMim(u, amount)
         \/ SendMimToPending(u, amount)
    \/ \E amount \in 1..mana[u] :
         \/ \E minOut \in 0..activeMimVault : StartDestake(u, amount, minOut)
         \/ BurnMana(u, amount)
         \/ SendManaToPending(u, amount)
         \/ \E to \in Users : TransferMana(u, to, amount)
    \/ FinalizeDestake(u)

AssetFlow ==
  \E a \in Assets :
    \/ \E amount \in 1..MaxAsset : DonateAsset(a, amount)
    \/ \E signer \in Users :
         \/ CreateAssetVault(signer, a)
         \/ \E router \in Routers, amount \in 1..MaxAsset, minOut \in 1..marketMim,
               spent \in (-MaxAsset)..MaxAsset, out \in (-activeMimVault)..marketMim :
              SwapAssetToMim(signer, router, a, amount, minOut, spent, out)

Governance ==
  \E signer \in Users :
    \/ InitializeTreasury(signer)
    \/ \E router \in Routers \cup {NoKey} : SetSwapRouter(signer, router)
    \/ \E seconds \in Cooldowns : SetCooldownSeconds(signer, seconds)
    \/ \E nominee \in Users : SetTreasuryAuthority(signer, nominee)
    \/ AcceptTreasuryAuthority(signer)

Next == Holders \/ AssetFlow \/ Governance \/ Tick

Spec == Init /\ [][Next]_vars

\* Time passes, and an owner keeps submitting finalize_destake: the program
\* gives the owner no other duty, and nobody else can submit it.
Fairness == WF_vars(Tick) /\ \A u \in Users : WF_vars(FinalizeDestake(u))

FairSpec == Spec /\ Fairness

----------------------------------------------------------------------------
(* Properties *)

Amount == 0..MaxU64
Request == [mana : Nat, reserved : Nat, unlock : Int]

QueuedMana == [u \in Users |-> requests[u].mana]
QueuedMim  == [u \in Users |-> requests[u].reserved]

\* The variables keep the shape of the accounts they model (TreasuryState,
\* RedemptionRequest, AssetVault and the token accounts).
TypeOK ==
  /\ authority \in Users \cup {NoKey}
  /\ pendingAuthority \in Users \cup {NoKey}
  /\ swapRouter \in Routers \cup {NoKey}
  /\ cooldownSeconds \in Cooldowns
  /\ pendingManaSupply \in Nat
  /\ activeMimVault \in Nat /\ pendingMimVault \in Nat /\ pendingManaVault \in Nat
  /\ manaSupply \in Amount
  /\ mim \in [Users -> Nat] /\ mana \in [Users -> Nat]
  /\ requests \in [Users -> Request]
  /\ assetVaults \subseteq Assets /\ assetTokens \in [Assets -> 0..MaxAsset]
  /\ marketMim \in Nat
  /\ now \in 0..MaxTime

\* Every active Mana is backed by at least one MIM, whatever the order of
\* deposits, donations, burns, queued redemptions and router swaps.  So a vault
\* with Mana outstanding is never empty (InvalidTreasuryBalance cannot lock
\* depositors out) and deposit_mim can never mint more than it was paid.
FullyBacked == ActiveManaSupply <= activeMimVault

\* The escrow holds the Mana of every open request, pending_mana_supply is
\* exactly their sum, and the mint's supply covers the wallets and the escrow,
\* so the checked_subs of active_mana_supply and finalize_destake cannot fail.
EscrowBacked ==
  /\ pendingManaSupply = Total(QueuedMana)
  /\ pendingManaSupply <= pendingManaVault
  /\ manaSupply = pendingManaVault + Total(mana)

\* The pending MIM vault can pay every open request at the same time: no
\* order of finalize_destake calls leaves a late owner unpaid.
ReservesBacked ==
  Total(QueuedMim) <= pendingMimVault

\* Whoever holds Mana can redeem all of it for at least as much MIM, from what
\* is in the active vault: start_destake never fails with ZeroMimOut,
\* MathOverflow or for lack of funds.
RedeemableAtPar ==
  \A u \in Users : mana[u] > 0 =>
    /\ mana[u] <= ActiveManaSupply
    /\ MimForRedemption(mana[u], activeMimVault, ActiveManaSupply)
         \in mana[u]..activeMimVault

\* No step of anybody lowers the MIM value of the Mana the others keep: the
\* rounding of deposits and redemptions always favours those who stay.
NavNeverFalls ==
  [][ActiveManaSupply > 0 /\ ActiveManaSupply' > 0
       => activeMimVault' * ActiveManaSupply >= activeMimVault * ActiveManaSupply']_vars

\* Whoever joins while others hold Mana cannot leave at once with more than was
\* paid: the two roundings, and the price the deposit itself moves, never add up
\* to a gain.
JoiningNeverPays ==
  ActiveManaSupply > 0 =>
    \A u \in Users : \A paid \in 1..mim[u] :
      LET out == ManaForDeposit(paid, activeMimVault, ActiveManaSupply)
      IN  MimForRedemption(out, activeMimVault + paid, ActiveManaSupply + out) <= paid

\* Nor does it pay to deposit, or to redeem, in two parts what could be brought
\* or taken at once, although the rounding of the first part changes the price
\* of the second.
PartsNeverPay ==
  ActiveManaSupply > 0 =>
    \A u \in Users :
      /\ \A whole \in 2..mim[u] : \A part \in 1..(whole - 1) :
           LET first == ManaForDeposit(part, activeMimVault, ActiveManaSupply)
               second == ManaForDeposit(whole - part, activeMimVault + part,
                                        ActiveManaSupply + first)
           IN  first + second <= ManaForDeposit(whole, activeMimVault, ActiveManaSupply)
      /\ \A whole \in 2..mana[u] : \A part \in 1..(whole - 1) :
           LET first == MimForRedemption(part, activeMimVault, ActiveManaSupply)
               second == MimForRedemption(whole - part, activeMimVault - first,
                                          ActiveManaSupply - part)
           IN  first + second <= MimForRedemption(whole, activeMimVault, ActiveManaSupply)

\* An open request does not change until it is paid, and it is paid exactly
\* the MIM set aside when it was queued, once the cooldown is over: donations,
\* swaps, other owners and new cooldowns in between do not touch it.
QueuedClaimFrozen ==
  [][\A u \in Users : requests[u] # NoRequest /\ requests'[u] # requests[u] =>
       /\ requests'[u] = NoRequest
       /\ now >= requests[u].unlock
       /\ mim'[u] = mim[u] + requests[u].reserved]_vars

\* The cooldown in force when a request is queued is the least time until it
\* can be paid ("Cooldown is still active", lib.rs).
CooldownServed ==
  [][\A u \in Users : requests[u] = NoRequest /\ requests'[u] # NoRequest
       => requests'[u].unlock >= now + cooldownSeconds]_vars

\* An owner who keeps asking is paid: no state of the vaults, the clock or the
\* configuration blocks finalize_destake for ever.
QueuedIsPaid ==
  \A u \in Users : requests[u] # NoRequest ~> requests[u] = NoRequest

\* The treasury implements the abstract vault: the part of the state that is
\* active backs the shares, an open request is a claim.
Nav == INSTANCE NavVault WITH
  Owners <- Users,
  assets <- activeMimVault,
  shares <- ActiveManaSupply,
  claims <- QueuedMim,
  wallet <- mim

ImplementsNavVault == Nav!Spec
=============================================================================
