# Specifications of mim-swap-sol

TLA+ models of the two Solana programs of this repository, TLC configurations
that check them on small instances, and proofs of their main properties for
all instances, checked by TLAPS.

* `programs/mana-treasury`: users deposit MIM and hold Mana, a share of the
  treasury; trading fees reach the treasury as donations.
* `programs/cp-swap`: constant product pools with fees for the protocol, the
  fund and the creator of the pool, and a price oracle.
* `client`: the command line client, which prices an order from a snapshot of a
  pool and sends it as a transaction.

## 1. The system

### Execution

A transaction locks the accounts it writes and an error reverts all of it
(`overflow-checks = true` in `Cargo.toml`, so an arithmetic error is an error
too). One instruction is therefore one atomic action, its guard the conjunction
of every check in it. What makes the programs hard is not what happens inside
an instruction but the order of instructions of many users: prices, queued
claims, owed fees and configuration are written by one and read by another much
later. A failed call leaves no trace. Between the client and the programs it is
different: a transaction that was sent may be executed late, or never. There is one
place where foreign code runs inside an instruction: the router of
`swap_asset_to_mim`.

### Components

| Component | State | Operations | What makes it correct |
|---|---|---|---|
| mana-treasury | `TreasuryState`, one `RedemptionRequest` per owner, `AssetVault`s, the active and pending vaults, the Mana mint | initialize, deposit, donate, start and finalize a de-stake, create an asset vault, donate an asset, sell it through the router, set router, cooldown and authority | Mana is always backed and redeemable; nobody joins or leaves at the others' expense; a queued claim is fixed, funded, waits out its cooldown and is paid |
| cp-swap pool | `PoolState`, two vaults, the LP mint | initialize (with or without permission), deposit, withdraw, two swaps, three fee collections, status | the vaults cover all fees and some liquidity; the value of an LP token never falls; swaps do not pay in circles |
| cp-swap curve | none | fees, quotes, LP conversion | every rounding favours the pool |
| cp-swap oracle | `ObservationState`, a ring of 100 | update, by every swap | every second is accounted for once; sealed observations stay |
| cp-swap `AmmConfig` | rates, owners, treasury keys | create, update | rates stay within the assertions |
| fee routing | keys in `AmmConfig` | `expected_fee_receiver`, `validate_fee_recipient` | fees reach the vaults of the named treasury and nothing else, or stay owed |
| permissions, support mints | one account each | create, close | only registered creators and mints are admitted |
| token utilities | none | transfers with transfer fees, account creation | what is booked is what arrives |
| client | an order on its way | quotes from a snapshot, sends transactions | its limits protect the price shown, and let through what nothing has delayed |

Interactions: a swap writes the pool and then the oracle; the rates a swap
applies are those of `AmmConfig` at that moment; a collection moves fees from a
pool's vaults to the treasury's active MIM vault or one of its asset vaults,
where to the treasury it looks like a donation; the treasury sells assets
through the router. Both programs are touched from outside by the token program
(transfers to vaults, burns), which no instruction of theirs sees.

The hazards of this code, each at its line and with the properties that watch
over it, are listed in `PROJECT.json`.

## 2. Modules

| Module | Models | Notes |
|---|---|---|
| `ManaTreasury` | `programs/mana-treasury/src/lib.rs` | one action per instruction, with the name of the instruction |
| `NavVault` | (abstract) | what the treasury promises: shares, their backing, claims |
| `TokenTotals` | (auxiliary) | the sum of token balances |
| `SwapCurve` | `curve/*.rs` | operators only |
| `CpPool` | `instructions/*`, `states/pool.rs`, the rates of `states/config.rs`, permissions and support mints | extends `SwapCurve` |
| `FeeLedger` | (abstract) | what a pool promises those it owes fees to |
| `FeeSweep` | fee collections with `expected_fee_receiver` and `validate_fee_recipient`, the treasury keys of `AmmConfig`, the accounts of several treasuries | composes the two programs |
| `Client` | `client/src/main.rs`, `client/src/instructions/{utils,amm_instructions,rpc}.rs` | extends `CpPool` |
| `Observation` | `states/oracle.rs` | the pool's price is its environment |
| `MCManaTreasury`, `MCCpPool`, `MCFeeSweep`, `MCClient` | | the instances TLC checks |
| `TokenTotalsProofs`, `ManaTreasuryProofs`, `ManaTreasuryRefinement`, `SwapCurveProofs`, `CpPoolProofs`, `ClientProofs`, `FeeSweepProofs`, `ObservationProofs` | | theorems |

A definition marked "variant" is no part of a program. It is a plausible
mistake in the definition next to it; with the mistake in place a property of
some run fails, which shows that the property depends on that code.

### ManaTreasury

Variables are the fields of the accounts and the balances of the token accounts.
`requests[u]` is the redemption account of owner `u`, `NoRequest` when there is
none: `start_destake` creates it with `init`, so an owner has one at most, and
`finalize_destake` closes it in the transaction that sets `finalized`, so that
flag is never seen set. `authority = NoKey` stands for a treasury that is not
initialised. The router may move any amount of the two vaults the handler
compares before and after, in either direction; what the handler then accepts is
`SwapResultOK`. `MimForRedemption` and `ManaForDeposit` are the two prices, with
their floors. `TransferMana`, `BurnMana`, `SendMimToPending`, `SendManaToPending`
and `Tick` are the token program and the clock. A gift to the active vault
outside the program is the same step as `DonateMim`, and one to an asset vault
the same as `DonateAsset`.

### NavVault and the refinement

`NavVault` knows assets, shares, claims and wallets. Its actions say what a
treasury may do: `Join` at a price not below the current one and never for more
shares than paid, `Leave` for the exact value less than one unit short and never
less than one for one, `Settle` a claim in full, `Give`, `Earn`, `Forfeit`. The
mapping is at the end of `ManaTreasury`: assets are the active MIM vault, shares
the Mana that is not queued, claims the reserved MIM of the open requests. A
step that is not visible there (configuration, assets, transfers of Mana, the
clock) is a stutter.

### SwapCurve and CpPool

`SwapCurve` has the arithmetic: `QuoteInput` and `QuoteOutput` are the two
methods of `CurveCalculator`, each with two branches for a creator's fee on
the input or the output. A quote records what the trader pays (`input`) and is
paid (`output`), and what the curve adds to one reserve (`swapped`) and takes
from the other (`drawn`); the differences are the fees.

`CpPool` has the instructions. `Net(s)` is `vault_amount_without_fee`. The set
`creatorFeeOn` holds the sides whose input pays the creator: both for `BothToken`,
one for `OnlyToken0` and `OnlyToken1`. `SentFor` is the inverse transfer fee of
Token-2022: a set with the least amount that makes the wanted amount arrive, or
empty when there is none. Users are one crowd, since a pool does not
distinguish them; the clock is one bit, whether `open_time` has passed.
`permission` and `supported` are the two registries; `Unlisted` are the sides whose
mint `is_supported_mint` admits only if it is registered. The registries gate
the creation of a pool and nothing afterwards.

### FeeLedger, FeeSweep and how the programs compose

The two programs share no state. What joins them is that anybody may submit
`collect_protocol_fee` or `collect_fund_fee`, and that these pay into token
accounts of the treasury, which they derive from three keys in `AmmConfig`.
`FeeSweep` models that seam: the accounts of several deployments of the
treasury, the keys, which the admin changes one transaction at a time, and
collections by anybody with any recipients. An address is a triple of program,
state account and seed; a deployment's state account is a PDA of its program
(`seeds = [TREASURY_SEED]`), so one name stands for both, and a pair of keys fits
only if the names are equal.

Each program is kept to what its own module has shown. The pool's side is an
abstraction whose steps keep `FeeLedger`: fees accrue, are covered by the vaults,
and a payment takes from the vaults what the receiver is no longer owed.
`CpPool` implements that ledger (`ImplementsFeeLedger`, theorem `PoolKeepsLedger`),
and `FeeSweep` does (`KeepsLedger`). The treasury's side is that its handlers move
any amount into or out of its accounts; MIM that arrives in the active vault
from a collection is, to `ManaTreasury`, the step `DonateMim`, `Earn` of `NavVault`.

### Client

`Client` extends `CpPool` with one variable, the order that has been sent and is
not settled. A command computes the price with the module's own curve, as the
client links the program's, widens it by the slippage and sends it. Then anything
may happen to the pool (`Meanwhile`: all of `CpPool`'s `Next`), and the order is
executed or lapses. `quoted` and `fresh` record what the user was shown and
whether the pool has changed since; no guard reads them. The two functions that
hand over amount and epoch in the wrong order are modelled as they are.

### Observation

`ObservationState::update` has four outcomes, each an action: the first update,
nothing to do, in place, next slot. `integral` is a history variable, the sum of
the price over the seconds, against which the ring is judged. An account that a
former version wrote (`last_update_timestamp = 0`) is a second initial state.

## 3. Runs

All runs together take about ten minutes. `CHECK_DEADLOCK` is off throughout: each
bound (tokens, clock) lets the system stop, and a user may always do nothing.

| Run | Asks | Instance |
|---|---|---|
| `mana_funds` | is Mana backed, redeemable, undiluted; can joining and leaving, or splitting an amount, pay; are claims fixed and funded; does the treasury implement `NavVault`? | 2 users with 3 MIM each, 1 asset, router markets with 1 MIM, cooldown 0 |
| `mana_time` | is the cooldown served, and is a queued request paid? | 2 users with 2 MIM each, cooldowns 1 and 2, clock to 3 |
| `mana_cooldown_cast` | the same for a cooldown of 2^63 or more | integers of 4 bits |
| `cp_pool` | solvency, locked liquidity, value of an LP token, circular trades, trades cut in two, the least price of an exact output, collections | reserves up to 6 and 5, rates of 1/4 and a protocol's half of the fee, all three fee placements |
| `cp_pool_rates` | the same while rates move | reserves up to 5 and 4, a 50% transfer fee capped at 1 on side 1 |
| `cp_pool_zero_fee` | can every accepted configuration trade? | as before |
| `cp_pool_supply` | is `lp_supply` the circulating supply? | as before |
| `fee_sweep` | do fees reach the treasury, whoever collects and whatever the keys; are they swept in the end? | two deployments, 3 tokens a side, side 1 withholds half of a transfer |
| `client` | does a stale order keep to its price; is a fresh one accepted? | 5 tokens a side, rates of 1/8, slippage 0 and one half, a transfer fee capped at 1 on side 1 |
| `client_transfer_fee` | the same for a transfer fee below its cap | a deposit that has to be sent as 4 tokens with a fee of 2 |
| `observation` | is every second accounted for once; does the ring keep order and spacing; how far off is an average between any two observations? | ring of 3, duration 3, sums that wrap at 43, clock to 12 |
| `observation_average` | is the average between two observations a price? | as before |

Passing runs show that the property holds in every reachable state of the
instance. Five runs show a disagreement between the code and what its comments,
errors or assertions say; they fail, and are meant to:

* `mana_cooldown_cast`: `cooldown_seconds as i64` (lib.rs:276) is negative from
  2^63 on, and the request can be paid at once.
* `cp_pool_zero_fee`: trade and creator rates of 0 are accepted (lib.rs:70), and
  `fees.rs:78` has a case for them, but splitting the creator's fee divides by
  their sum, so every swap fails. `enable_creator_fee = FALSE` makes the creator
  rate 0, so there a trade rate of 0 is enough.
* `cp_pool_supply`: `lp_supply` includes the 100 locked units and burnt LP tokens;
  its comment (pool.rs:104) says it does not.
* `client_transfer_fee`: `get_transfer_inverse_fee(&mint0_state, post_fee_amount_0,
  epoch)` (utils.rs:63) against the parameters `(account_state, epoch,
  post_fee_amount)`; the same in utils.rs:68, :91 and :96. The limit of a deposit is
  short of the fee, and the program refuses it although nothing has changed. In the
  run `client` the fee is capped at 1, and there the fee of the wrong amount
  happens to suffice.
* `observation_average`: an observation updated in place keeps its timestamp
  while its sum moves on, so the quotient of two differences is off by up to 14
  seconds of price. `AverageWithinDuration`, which passes, is the bound that
  does hold.

### Bounds, and why they are enough

Prices are quotients of small integers: what goes wrong in them is a rounding in
the wrong direction, and that shows as soon as a division has a remainder. With
3 MIM a user, prices such as 4/3 and 5/2 occur, and with the variants in place TLC
finds the violation within these bounds. Two users are enough for one to act
between two steps of another, and for two claims in one vault. The token totals
of `CpPool` are the number of tokens in existence, so no other bound cuts off a
history, save `MaxLp`, the LP tokens of one deposit. The rates are far larger than
real ones so that every fee is charged in the first swap; the `Denominator` is 4
in place of 1,000,000. `Limits` has one value that refuses much and one that
refuses nothing: what a limit does is refuse. In `cp_pool_rates` the registries
stay, once the pool exists, as its creation needed them (`RegistriesSettled`),
because nothing reads them any more. In `fee_sweep` two deployments are enough for
every mismatch of the two keys, and 3 tokens for both receivers to be owed
something while the transfer fee rounds. The switches that no limit of the client
depends on are held still in `client` (`FewSwitches`); every kind of order is
executed there after others have changed the pool. In `Observation` a ring of 3 wraps
twice before the clock stops. The proofs have none of these bounds.

### Fairness

`FairSpec` of `ManaTreasury` assumes that time passes and that an owner who may
finalise keeps trying, `WF(Tick)` and `WF(FinalizeDestake(u))` for each owner. The
program gives nobody else the right to finalise (`FinalizeDestake` demands the
owner's signature), so without the second assumption nothing is promised.
Weak fairness is enough because, once the cooldown is over, no other step
disables the payment: this is the content of `QueuedIsPaid`. No fairness is assumed of
deposits, trades or the authority.

`FairSpec` of `FeeSweep` assumes weak fairness of `SweepAll(r)` for both receivers:
somebody keeps submitting collections of everything with the accounts that the
configuration leads to. The handlers ask for no particular signer
(`tests/fee_sweep.integration.ts` runs them as a keeper), so this is the weakest
assumption under which fees move at all. It is enough: once the configuration
leads to a complete treasury for good, no trade disables the collection, because a
request for more than is owed is cut and not refused.

## 4. Proofs

The theorems hold for every value of the constants that meets the named
assumptions: users a finite set, amounts natural numbers, the clock below 2^63
and cooldowns within u64, for `ManaTreasury`; a positive denominator, positive
locked liquidity, a first configuration that passes `create_amm_config`'s
assertions, and transfer fee rates of at most 100%, for `CpPool`; two
different mints and transfers that deliver at most what is sent, for `FeeSweep`; a
ring of at least two and a start after time 0, for `Observation`. What single
theorems assume beyond that is in their statement: `FlatFees`, `SumsFit`, a finite
number of deployments and mints, and for `DepositsNeverOverflow` that the MIM in
existence fits a u64, which the token program guarantees of any mint.

**Sums.** `TokenTotals` counts token units instead of adding balances, so that
the theorems on cardinality prove what a transfer does to a total: raising one
balance by n raises the total by n (`TokenTotalsProofs`).

**Treasury** (`ManaTreasuryProofs`). Type correctness is inductive. `FullyBacked`
is inductive relative to it: with `S` active Mana and `A >= S` MIM, a deposit
of `x` issues at most `x` and at most `x * S / A` Mana (lemma `DepositPrice`), a
redemption of `m` takes at least `m` and at most `m * A / S` MIM
(`RedemptionPrice`), hence `S <= A` survives both. `EscrowBacked` and
`ReservesBacked` follow from the lemmas on sums, `RedeemableAtPar` from the first
two, and `QueuedClaimFrozen` is shown action by action. `CooldownServed` is a theorem
for cooldowns below 2^63 (`CooldownsServed`), where the cast of the program does
nothing; the run `mana_cooldown_cast` shows what happens above.

The two prices are also compared with each other and with themselves. A deposit
of `x` that gets `o = floor(x * S / A)` Mana and is redeemed at once, at the price it
has itself moved, brings at most `x` (lemma `JoinAndLeave`, theorem `JoiningIsNoGain`).
Two deposits or two redemptions of parts bring at most one of the whole
(`DepositsInParts`, `RedemptionsInParts`, `PartsAreNoGain`): whatever the first part
leaves behind by rounding, the second gets less of it than it lost. Both are
claimed while others hold Mana: the first to deposit into a treasury that has
received gifts and issued nothing owns the gifts, and may leave with them.

Three theorems speak of the treasury as a whole. `EveryManaIsBacked` puts the queue
back in: all Mana, queued or not, is at most the MIM of the two vaults. It needs
that each request was priced at one for one or better (`QueuedAtPar`), an invariant of
its own. `MimIsConserved` adds up wallets, vaults and markets. Together they bound the
supply of Mana by the MIM that was issued, from which `DepositsNeverOverflow` follows:
no `checked_sub`, no division and no mint in `deposit_mim` can fail, so a deposit that
a wallet can pay is refused only for its result, when that is 0 (`ZeroManaOut`) or
below the limit the user set (`ExceededSlippage`).

Of `QueuedIsPaid` the two safety halves are theorems. `CanPay` is what the burn, the
transfer and the `checked_sub` of `finalize_destake` demand, and by
`OpenRequestsCanBePaid` (from the escrow, the reserves and their sums) an open
request meets it always; by `MaturedUntilFinalized` a request whose cooldown is
over stays so under every step, until its owner finalises it. So for a mature
request the guard of `FinalizeDestake(u)` holds without interruption, and only the
step from there to its execution is left to fairness.

**Refinement** (`ManaTreasuryRefinement`). The inductive invariant is type
correctness with `FullyBacked` and `EscrowBacked`: without backing a redemption
could be worth less than it redeems, and without the escrow a burn could take the
active supply below zero; in neither case would the abstract vault have such a
step. Each action maps to one of `NavVault`'s or to a stutter. `NavNeverFalls`
is proved beside it from the same two lemmas. `HeldManaKeepsItsValue` extends it from
one step to any number of them: while somebody keeps `m` Mana, the active supply
cannot be empty, the price never falls, and a floor keeps the order
(`RedemptionNeverFalls`), so `m` Mana redeem for ever for at least what they once did.

**Pool** (`SwapCurveProofs`, `CpPoolProofs`). `SwapCurveProofs` shows, for any
rates with a sum below the denominator, that a quote is accounted for: what the
trader pays covers what the curve adds plus the fees, what the curve takes is
what the trader is paid plus the creator's fee, and the output stays below the
reserve. `IInv` is `TypeOK`, `PoolSolvent`, `LiquidityLocked` and the fact that
a pool that does not exist yet is empty. `PoolSolvent` alone is not inductive: a
withdrawal of all the supply would leave nothing, which only `LiquidityLocked`
excludes; and `LiquidityLocked` needs that a conversion does not divide by zero.
Each action is shown to be `Good`, that is, to preserve `IInv` and to satisfy the
three action properties at the same time; `LpValueNeverFalls` for deposits and
withdrawals follows from `LiquidityKeepsShares`, for swaps from the product check
at the end of both swap instructions.

`LpWorthIsKeptForEver` turns the step property into one of whole histories: if the
product of the reserves was once `k / l` times the square of the supply, it is so for
ever. A pool that exists stays (`CreatedStays`), its supply is never zero, and the
comparison of two quotients carries over a step (`WorthCarries`).

`ExactOutputIsPaidFor`, `ExactOutputCostsLeast` and `NoProfitableRoundTrip` need no
induction beyond `TypeOK` and `PoolSolvent`; they are chains of rounded divisions, and
each link is a lemma of `SwapCurveProofs`. For the first: the inverse of the fee
leaves enough (`FeeLeavesEnough`), and what `CurveInput` asks brings at least the
output (`CurveInputPays`). For the second: each inverse is the least number with that
property (`PreFeeIsLeast`, `CurveInputIsLeast`), and the forward functions are
monotone, so the three roundings up do not add up. For the third: a quote pays at most
its value on the curve (`QuoteInputValue`), so the reserves' product does not fall
there, and the way back can bring no more than the first step put in
(`RoundTripLoses`).

`SplittingNeverPays` (`SplittingIsNoGain`) compares two swaps with one. The fee of
the whole, rounded up, is at most the sum of the parts' fees, so the whole puts at
least as much on the curve; what is kept of the first part's fee only makes the
reserve the trader pays into larger; and two outputs of the curve, each rounded
down, are at most the output of the sum. With the creator paid from the output
the same argument is made once more behind that fee. Rounding the fee down
(`TradingFeeFloor`) breaks it: parts small enough pay no fee.

For liquidity the same two questions have the same answers, for each token by itself:
a deposit withdrawn at once brings back at most its cost
(`LiquidityRoundTripNeverPays`), and two parts cost at least, or bring at most, what
the whole does (`LiquidityInPartsNeverPays`). `SwapCurveProofs` has them as facts of
`LpToDeposit` and `LpToWithdraw`, `CpPoolProofs` states them of every reachable state.

**Ledger** (end of `CpPoolProofs`). Each action of the pool is a `Book` or a `Pay` of
`FeeLedger` or leaves it alone; `IInv` supplies that the fees stay covered.

**Fee routing** (`FeeSweepProofs`). `TypeOK` with solvency is inductive. The weight
of `FeesReach` is in the last conjunct of `TypeOK`: token accounts exist only at
addresses where program and state fit and the seed is not MIM as an asset. A recipient
that exists and that the configuration leads to is therefore the home vault of
the named treasury, whichever of the keys the admin has changed so far.

`TokensAreConserved` adds up the vault, all treasury accounts and everybody else,
over any finite set of deployments; the finiteness makes the sum one. From it
follows that no more is owed than there are tokens, and hence that a keeper who
asks for everything is cut to what is owed: with complete routing the collection
is never refused (`RoutedFeesCanBeSwept`) and settles its receiver
(`KeepersSettle`). These are the safety halves of `SweptOnceRouted`.

**Client** (`ClientProofs`). The inductive invariant is the pool's `IInv` with the
relation of an order's limits to the price that was quoted (`FromQuote`), which
survives whatever others do because it speaks of the order and of constants only.
For creation and swaps this gives the price for any transfer fees
(`SwapsSettleAsQuoted`); a swap for an exact output needs in addition that what must
be sent is never less than the amount and the client's inverse fee of it
(`InverseFeeIsLeast`), with the three cases of `get_transfer_inverse_fee`. Deposits and
withdrawals compute their fee from the epoch (see `client_transfer_fee`), so
`SlippageHolds` as a whole is proved, and claimed, only for fees that do not depend
on the amount (`FlatFees`: none, or at most one unit); the run `client` is such an
instance. With other fees their limits can be off in either direction.

`FreshOrderExecutes` says ENABLED; what it says beyond that word is proved. `Accepted`
lists every check of the instruction an order names. It is the guard of `Execute`,
shown both ways: an order that is executed was accepted (`ExecutedWasAccepted`), and
an accepted one is executed by assigning each variable one value
(`AcceptedIsExecuted`). `FreshSwapsAreAccepted` then holds for any transfer fees,
because an amount with the client's inverse fee of it is exactly what the program
asks to be sent (`InverseFeeIsExact`); `FreshOrdersAreAccepted` covers deposits and
withdrawals while fees are flat and the epoch, which the client takes for the
amount, is not 0. The invariant (`OrdersIInv`) adds that a fresh order's quote is that of
the current state (`PricedNow`), and that the vaults hold no more than the tokens in
existence (`TokensExist`): a user can then be asked only for tokens that someone
has, which is what the model's bound on what a user holds comes from.

The vocabulary of `Accepted` also serves for two theorems about the pool.
`SwapChecksNeverRefuse`: the check of the product and the check of an unexpected
creator's fee, at the end of both swap instructions, never refuse a swap that can be
quoted; they are assertions about the curve, and the curve meets them.
`HoldersCanWithdraw`: while withdrawals are enabled, LP tokens that are worth a unit of
each side, even all that were ever minted, pass every check of `withdraw` and are
paid out of the liquidity, with the fees untouched.

**Oracle** (`ObservationProofs`). The inductive invariant joins `TypeOK`,
`NewestIsExact` and `RingOrdered` with the state before the first update (all
slots empty) and after it (the newest observation has a timestamp, not later than
the last update). `RingOrdered` compares any two entries by how many slots they are
behind the newest (`Behind`), so it holds across the wrap and says how far back a full
ring reaches: at least `ObservationNum - 1` durations. `ObservationsAreSealed` follows
action by action. The ring may have any size above 1, and prices are any naturals.

`AverageIsClose` proves the bound on averages, `AverageWithinDuration`. It assumes
`SumsFit`: the sum of the highest price over the whole life of the oracle stays
below the modulus, for a larger sum has wrapped and no difference can tell. 2^128
leaves 2^32 seconds at the highest price a Q64.32 can express, that is, until the
year 2106. The invariant (`AverageIInv`) says when the sum of each observation was
written: less than a duration after its timestamp, and for the newest at the last
update. What accumulated between any two observations (`GrowthKept`) is bounded by the
prices up to then; a step that writes one of the pair extends the bound, and the slot
that a full ring overwrites takes its pairs with it.

### Only model-checked

* `QueuedIsPaid`, `SweptOnceRouted`: liveness under fairness is out of the
  prover's reach. That their steps are enabled for good, and do what is wanted of them, is
  proved (see Treasury and Fee routing); that weak fairness then executes them is not.
* `FreshOrderExecutes`: it is about ENABLED, out of the prover's reach. That every guard
  holds is proved (see Client); that guards which hold make the action possible is not.

The disagreements that the five violation runs show are facts about their instances;
no theorem states them.

## 5. What is not modelled

* **The router's reach.** It is called with the treasury authority as a signer
  and could name accounts the handler does not compare, such as the pending
  vaults. The router is not in this repository; the model lets it touch the two
  compared vaults only.
* **Transfer fees on MIM.** The handlers credit what was sent; the model assumes
  a mint that takes no fee.
* **Who signs and which accounts are named** in `CpPool`: taken as the constraints
  demand. In `ManaTreasury` the authority is modelled.
* **u64 limits in `CpPool`**: its numbers are naturals. Sums and products that
  exceed their type revert the transaction, which removes behaviours and adds none.
* **The owners and the creation fee of `AmmConfig`** (params 3, 4, 5): no
  instruction reads the owners, and the fee is a payment in SOL beside the pool.
* **The pool's price as the oracle's input**: `Observation` takes any price at any
  swap, which includes the pool's.
* **The client's floating point**: `amount_with_slippage` is exact in the model; in
  the program it is a double, inexact above 2^53. Two commands at once, a user who
  repeats a command whose confirmation was lost, and the token accounts that the
  client creates or assumes are left out too, and so are the decoding commands.
* **Account (de)serialisation, rent, events, logging**: no protocol state.

## 6. Order of work

The modules were written from the inside out: `ManaTreasury` with `NavVault`,
`SwapCurve` and `CpPool`, `Observation`, then the compositions `FeeSweep` and `Client`;
the proofs followed each module. What would come next: `Observation` driven by
`CpPool`'s price, and a client that sends a command again when its confirmation is
lost.
