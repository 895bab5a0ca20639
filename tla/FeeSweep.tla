------------------------------ MODULE FeeSweep ------------------------------
(***************************************************************************)
(* How the fees of a pool reach the treasury.  The cp-swap program and the *)
(* mana-treasury program share no state: AmmConfig names a treasury        *)
(* program, a treasury state and the MIM mint, and collect_protocol_fee    *)
(* and collect_fund_fee derive from them the one token account they may    *)
(* pay.  Anybody may submit a collection.  The admin changes the three     *)
(* keys one transaction at a time, and the vaults they lead to come into   *)
(* existence in transactions of the other program.                         *)
(*                                                                         *)
(* A treasury is one deployment of the program: its program id and its     *)
(* state account, a PDA of that program, are both written as the           *)
(* deployment's name, so that a pair of them fits only if they are equal.  *)
(* The pool is kept to what FeeLedger says of it (CpPool implements that), *)
(* the treasury to the balances of its vaults (ManaTreasury).              *)
(***************************************************************************)
EXTENDS Integers

CONSTANTS
  Treasuries,   \* deployments of mana-treasury
  Mints,
  Mim,          \* MIM_MINT
  MintOf,       \* the mints of the pool's two sides
  Tokens,       \* tokens in existence, of each side
  Arriving      \* what arrives of an amount sent, by side: the mint's transfer fee

Sides == {0, 1}
Receivers == {"protocol", "fund", "creator"}
TreasuryFees == {"protocol", "fund"}
MimVaults == {"active_mim_vault", "pending_mim_vault"}

ASSUME SweepAssumption ==
  /\ Mim \in Mints /\ Mints \cap MimVaults = {}
  /\ MintOf \in [Sides -> Mints] /\ MintOf[0] # MintOf[1]
  /\ Tokens \in [Sides -> Nat]
  /\ \A s \in Sides : Arriving[s] \in [0..Tokens[s] -> 0..Tokens[s]]
  /\ \A s \in Sides : \A amount \in 0..Tokens[s] : Arriving[s][amount] <= amount

VARIABLES
  treasuryProgram, treasuryState, mimMint,   \* AmmConfig
  owed, vault,                               \* the pool: fees owed, token vaults
  accounts,                                  \* token accounts of treasuries that exist
  balance,                                   \* ... and what they hold
  wallets                                    \* tokens held by everybody else

routing == <<treasuryProgram, treasuryState, mimMint>>
vars    == <<routing, owed, vault, accounts, balance, wallets>>

----------------------------------------------------------------------------
(* Token accounts.  An address is the PDA of a program, a state account and a
   seed; a mint as the seed stands for asset_token_vault of that mint. *)

Address == Treasuries \X Treasuries \X (MimVaults \cup Mints)

MintAt(a) == IF a[3] \in Mints THEN a[3] ELSE Mim

\* token::authority: the treasury_authority PDA of the same program and state.
OwnerAt(a) == <<a[1], a[2]>>

\* AmmConfig::treasury_authority
TreasuryAuthority == <<treasuryProgram, treasuryState>>

\* AmmConfig::expected_fee_receiver
ExpectedFeeReceiver(mint) ==
  <<treasuryProgram, treasuryState, IF mint = mimMint THEN "active_mim_vault" ELSE mint>>

\* variant: any account of the treasury's authority will do
AnyTreasuryAccount(a, mint) == MintAt(a) = mint /\ OwnerAt(a) = TreasuryAuthority

\* validate_fee_recipient
ValidFeeRecipient(a, mint) ==
  /\ MintAt(a) = mint
  /\ OwnerAt(a) = TreasuryAuthority
  /\ a = ExpectedFeeReceiver(mint)

----------------------------------------------------------------------------
Init ==
  /\ treasuryProgram \in Treasuries /\ treasuryState \in Treasuries
  /\ mimMint \in Mints
  /\ owed = [r \in Receivers |-> [s \in Sides |-> 0]]
  /\ vault = [s \in Sides |-> 0]
  /\ accounts = {}
  /\ balance = [a \in Address |-> 0]
  /\ wallets = Tokens

(* The pool *)

OwedOn(s) == owed["protocol"][s] + owed["fund"][s] + owed["creator"][s]

\* What every instruction of the pool leaves behind (PoolSolvent of CpPool).
Covered == \A s \in Sides : OwedOn(s) < vault[s]

\* initialize, deposit and withdraw, and tokens sent to a vault.
MoveLiquidity(reserves) ==
  /\ vault' = reserves
  /\ wallets' = [s \in Sides |-> wallets[s] + vault[s] - reserves[s]]
  /\ UNCHANGED <<routing, owed, accounts, balance>>
  /\ Covered'

\* A swap of side s against the other, with the fees that update_fees books.
Swap(s, amountIn, amountOut, fee, creatorSide) ==
  /\ \A side \in Sides : vault[side] > 0
  /\ amountIn <= wallets[s] /\ amountOut <= vault[1 - s]
  /\ fee["protocol"] + fee["fund"] <= amountIn
  /\ owed' = [r \in Receivers |->
                [owed[r] EXCEPT ![IF r = "creator" THEN creatorSide ELSE s] = @ + fee[r]]]
  /\ vault' = [vault EXCEPT ![s] = @ + amountIn, ![1 - s] = @ - amountOut]
  /\ wallets' = [wallets EXCEPT ![s] = @ - amountIn, ![1 - s] = @ + amountOut]
  /\ Covered'
  /\ UNCHANGED <<routing, accounts, balance>>

CollectCreatorFee ==
  /\ \E s \in Sides : owed["creator"][s] > 0
  /\ owed' = [owed EXCEPT !["creator"] = [s \in Sides |-> 0]]
  /\ vault' = [s \in Sides |-> vault[s] - owed["creator"][s]]
  /\ wallets' = [s \in Sides |-> wallets[s] + owed["creator"][s]]
  /\ UNCHANGED <<routing, accounts, balance>>

(* Collection for the treasury *)

\* variant: more than is owed is an error, not a request for everything
AsRequested(requested, due) == requested

\* A request for more than is owed is cut to what is owed.
Lesser(requested, due) ==
  [s \in Sides |-> IF requested[s] < due[s] THEN requested[s] ELSE due[s]]

\* variant: all that is owed is struck off, whatever is paid
PayFeesOnce(r, amounts, recipients) ==
  /\ \E s \in Sides : amounts[s] > 0
  /\ \A s \in Sides : amounts[s] <= owed[r][s]
  /\ owed' = [owed EXCEPT ![r] = [s \in Sides |-> 0]]
  /\ vault' = [s \in Sides |-> vault[s] - amounts[s]]
  /\ balance' = [a \in Address |->
       balance[a] + (IF a = recipients[0] THEN Arriving[0][amounts[0]] ELSE 0)
                  + (IF a = recipients[1] THEN Arriving[1][amounts[1]] ELSE 0)]
  /\ wallets' = [s \in Sides |-> wallets[s] + amounts[s] - Arriving[s][amounts[s]]]
  /\ UNCHANGED <<routing, accounts>>

\* The two transfers, when the recipients have been accepted.
PayFees(r, amounts, recipients) ==
  /\ \E s \in Sides : amounts[s] > 0
  /\ \A s \in Sides : amounts[s] <= owed[r][s]
  /\ owed' = [owed EXCEPT ![r] = [s \in Sides |-> @[s] - amounts[s]]]
  /\ vault' = [s \in Sides |-> vault[s] - amounts[s]]
  /\ balance' = [a \in Address |->
       balance[a] + (IF a = recipients[0] THEN Arriving[0][amounts[0]] ELSE 0)
                  + (IF a = recipients[1] THEN Arriving[1][amounts[1]] ELSE 0)]
  /\ wallets' = [s \in Sides |-> wallets[s] + amounts[s] - Arriving[s][amounts[s]]]
  /\ UNCHANGED <<routing, accounts>>

\* variant: the recipient of a side that pays nothing is not looked at
CollectWhatIsPaid(r, requested, recipients) ==
  LET amounts == Lesser(requested, owed[r])
  IN  /\ \A s \in Sides : recipients[s] \in accounts
      /\ \A s \in Sides : amounts[s] > 0 => ValidFeeRecipient(recipients[s], MintOf[s])
      /\ PayFees(r, amounts, recipients)

\* collect_protocol_fee and collect_fund_fee
Collect(r, requested, recipients) ==
  /\ \A s \in Sides : recipients[s] \in accounts
  /\ \A s \in Sides : ValidFeeRecipient(recipients[s], MintOf[s])
  /\ PayFees(r, Lesser(requested, owed[r]), recipients)

(* The treasuries *)

InitializeTreasury(t) ==
  /\ <<t, t, "active_mim_vault">> \notin accounts
  /\ accounts' = accounts \cup {<<t, t, seed>> : seed \in MimVaults}
  /\ UNCHANGED <<routing, owed, vault, balance, wallets>>

\* variant: MIM is not refused
CreateAnyAssetVault(t, mint) ==
  /\ <<t, t, "active_mim_vault">> \in accounts /\ <<t, t, mint>> \notin accounts
  /\ accounts' = accounts \cup {<<t, t, mint>>}
  /\ UNCHANGED <<routing, owed, vault, balance, wallets>>

CreateAssetVault(t, mint) ==
  /\ <<t, t, "active_mim_vault">> \in accounts /\ <<t, t, mint>> \notin accounts
  /\ mint # Mim
  /\ accounts' = accounts \cup {<<t, t, mint>>}
  /\ UNCHANGED <<routing, owed, vault, balance, wallets>>

\* Deposits, donations, redemptions and router swaps: the treasury's own handlers
\* (module ManaTreasury) move any amount into or out of its accounts.
TreasuryMoves(a, s, amount) ==
  /\ a \in accounts /\ MintAt(a) = MintOf[s]
  /\ amount <= balance[a] + wallets[s]
  /\ balance' = [balance EXCEPT ![a] = amount]
  /\ wallets' = [wallets EXCEPT ![s] = @ + balance[a] - amount]
  /\ UNCHANGED <<routing, owed, vault, accounts>>

(* The admin of cp-swap: update_amm_config with param 8, 9 or 10 *)

SetTreasuryProgram(t) ==
  /\ treasuryProgram' = t
  /\ UNCHANGED <<treasuryState, mimMint, owed, vault, accounts, balance, wallets>>

SetTreasuryState(t) ==
  /\ treasuryState' = t
  /\ UNCHANGED <<treasuryProgram, mimMint, owed, vault, accounts, balance, wallets>>

SetMimMint(mint) ==
  /\ mimMint' = mint
  /\ UNCHANGED <<treasuryProgram, treasuryState, owed, vault, accounts, balance, wallets>>

----------------------------------------------------------------------------
Amounts == {amounts \in [Sides -> 0..(Tokens[0] + Tokens[1])] :
              \A s \in Sides : amounts[s] <= Tokens[s]}

Pool ==
  \/ \E reserves \in Amounts :
       (\A s \in Sides : reserves[s] <= vault[s] + wallets[s]) /\ MoveLiquidity(reserves)
  \/ \E s, creatorSide \in Sides :
       \E amountIn \in 1..wallets[s], amountOut \in 1..vault[1 - s] :
         \E fee \in [Receivers -> 0..amountIn] : Swap(s, amountIn, amountOut, fee, creatorSide)
  \/ CollectCreatorFee

Sweep ==
  \E r \in TreasuryFees, requested \in Amounts, recipients \in [Sides -> accounts] :
    Collect(r, requested, recipients)

Treasury ==
  \/ \E t \in Treasuries :
       InitializeTreasury(t) \/ \E mint \in Mints : CreateAssetVault(t, mint)
  \/ \E a \in accounts, s \in Sides : \E amount \in 0..Tokens[s] : TreasuryMoves(a, s, amount)

Administration ==
  \/ \E t \in Treasuries : SetTreasuryProgram(t) \/ SetTreasuryState(t)
  \/ \E mint \in Mints : SetMimMint(mint)

Next == Pool \/ Sweep \/ Treasury \/ Administration

Spec == Init /\ [][Next]_vars

\* Anybody may sweep, so somebody does: a keeper that asks for all that is owed
\* and names the accounts the configuration leads to.
SweepAll(r) ==
  Collect(r, Tokens, [s \in Sides |-> ExpectedFeeReceiver(MintOf[s])])

FairSpec == Spec /\ \A r \in TreasuryFees : WF_vars(SweepAll(r))

----------------------------------------------------------------------------
(* Properties *)

\* The accounts keep their shape; a treasury's token accounts exist only at the
\* PDAs of its own program and state, never for a pair that does not fit, and
\* none of them is an asset vault for MIM.
TypeOK ==
  /\ treasuryProgram \in Treasuries /\ treasuryState \in Treasuries /\ mimMint \in Mints
  /\ owed \in [Receivers -> [Sides -> Nat]]
  /\ vault \in [Sides -> Nat] /\ wallets \in [Sides -> Nat]
  /\ accounts \subseteq {<<t, t, seed>> : t \in Treasuries, seed \in (MimVaults \cup Mints) \ {Mim}}
  /\ balance \in [Address -> Nat]

\* Where deployment t itself keeps the tokens of a side.  This does not depend
\* on the configuration of the pool.
HomeVault(t, s) ==
  <<t, t, IF MintOf[s] = Mim THEN "active_mim_vault" ELSE MintOf[s]>>

IsSwept(r) == \E s \in Sides : owed'[r][s] < owed[r][s]

\* Whoever submits a collection, whatever accounts it names and however the
\* admin has half-changed the configuration, protocol and fund fees arrive, less
\* what the mint withholds, in the vaults where the named treasury works with
\* them (MIM in the active vault, which is what raises the value of Mana), and
\* in no other account ("only to canonical treasury vaults").
FeesReachTheTreasury ==
  [][\A r \in TreasuryFees : IsSwept(r) =>
       /\ \A s \in Sides :
            balance'[HomeVault(treasuryState, s)] =
              balance[HomeVault(treasuryState, s)] + Arriving[s][owed[r][s] - owed'[r][s]]
       /\ \A a \in Address :
            (\A s \in Sides : a # HomeVault(treasuryState, s)) => balance'[a] = balance[a]]_vars

\* Does the configuration lead to a complete treasury?
Routed ==
  /\ treasuryProgram = treasuryState
  /\ \A s \in Sides : HomeVault(treasuryState, s) \in accounts
  /\ \A s \in Sides : MintOf[s] = mimMint <=> MintOf[s] = Mim

\* While it does not - between the two updates of a move to another treasury,
\* with a wrong MIM mint, or before the asset vault exists - no fee leaves the
\* pool, not even in a collection of the other token alone.
NothingPaidUnrouted ==
  [][\A r \in TreasuryFees : IsSwept(r) => Routed]_vars

\* Nothing is lost by waiting: the pool keeps the promises of FeeLedger through
\* every change of the configuration.
Ledger == INSTANCE FeeLedger

KeepsLedger == Ledger!Spec

\* Once the configuration leads to a complete treasury for good, whatever
\* accrues is swept, even if trading never stops.
SweptOnceRouted ==
  <>[]Routed => \A r \in TreasuryFees, s \in Sides : []<>(owed[r][s] = 0)
=============================================================================
