------------------------------- MODULE Client -------------------------------
(***************************************************************************)
(* A user of the command line client (client/src) against the pool.  The   *)
(* client fetches pool, vaults, configuration and mints, prices what the   *)
(* user asks for with the program's own curve code, widens the price by    *)
(* the slippage of its configuration, and sends a transaction with that    *)
(* limit.  By the time the transaction is executed, if ever, others may    *)
(* have changed anything (all of CpPool's Next).                           *)
(*                                                                         *)
(* Abstractions: one command runs at a time (it waits for the confirmation *)
(* of its transaction); the accounts it names exist; the floating point    *)
(* product of amount_with_slippage is exact; a mint's transfer fee is the  *)
(* same at every epoch.                                                    *)
(***************************************************************************)
EXTENDS CpPool

CONSTANTS
  SlippageUnit,  \* slippage is a fraction, in this unit
  Slippages,     \* slippages users configure
  Epoch          \* the cluster's epoch

ASSUME ClientAssumption ==
  SlippageUnit \in Nat \ {0} /\ Slippages \subseteq 0..SlippageUnit /\ Epoch \in Nat

VARIABLE order   \* the transaction that was sent and is not settled

NoOrder == [kind |-> "none"]

\* `quoted` is the price the user was shown; `fresh` says whether the pool is
\* still as it was when the client fetched it.
Order(kind, side, amount, slip, quoted, limit) ==
  [kind |-> kind, side |-> side, amount |-> amount, slip |-> slip,
   quoted |-> quoted, limit |-> limit, fresh |-> TRUE]

On(s, amount) == [side \in Sides |-> IF side = s THEN amount ELSE 0]

----------------------------------------------------------------------------
\* amount_with_slippage(.., true) and (.., false)
AmountUp(amount, slip) == CeilDiv(amount * (SlippageUnit + slip), SlippageUnit)
AmountDown(amount, slip) == FloorDiv(amount * (SlippageUnit - slip), SlippageUnit)

\* get_transfer_inverse_fee
TransferInverseFee(s, amount) ==
  LET sent == CeilDiv(amount * BasisPoints, BasisPoints - TransferRate[s])
  IN  IF TransferRate[s] = BasisPoints THEN TransferMax[s]
      ELSE IF sent - amount >= TransferMax[s] THEN TransferFee(s, amount + TransferMax[s])
      ELSE TransferFee(s, sent)

\* get_pool_mints_inverse_fee and get_pool_mints_transfer_fee hand the amount
\* over as the epoch and the epoch as the amount.
PoolMintInverseFee(s, amount) == TransferInverseFee(s, Epoch)
PoolMintTransferFee(s, amount) == TransferFee(s, Epoch)

----------------------------------------------------------------------------
(* The commands *)

\* variant: the vaults' balances are priced, fees that are owed included
FetchedWithFees(s) == vault[s]

\* vault_amount_without_fee on accounts fetched together
Fetched(s) == Net(s)

\* The two mints may be given in either order.
InitializePool(mint0, initAmount0, initAmount1) ==
  LET amounts == [s \in Sides |-> IF s = mint0 THEN initAmount0 ELSE initAmount1]
  IN  order' = Order("initialize", 0, 0, 0, amounts, amounts)

DepositCommand(lp, slip) ==
  LET quoted == [s \in Sides |-> LpToDeposit(lp, lpSupply, Fetched(s))]
      slipped == [s \in Sides |-> AmountUp(quoted[s], slip)]
  IN  /\ created /\ NetsOK
      /\ order' = Order("deposit", 0, lp, slip, quoted,
                        [s \in Sides |-> slipped[s] + PoolMintInverseFee(s, slipped[s])])

\* RoundDirection::Ceiling here too, where the program rounds down
WithdrawCommand(lp, slip) ==
  LET quoted == [s \in Sides |-> LpToDeposit(lp, lpSupply, Fetched(s))]
      slipped == [s \in Sides |-> AmountDown(quoted[s], slip)]
      fee == [s \in Sides |-> PoolMintTransferFee(s, slipped[s])]
  IN  /\ created /\ NetsOK
      /\ \A s \in Sides : fee[s] <= slipped[s]
      /\ order' = Order("withdraw", 0, lp, slip, quoted, [s \in Sides |-> slipped[s] - fee[s]])

\* variant: whatever comes is accepted
AnyOutput(received, slip) == 0

LeastOutput(received, slip) == AmountDown(received, slip)

SwapBaseIn(s, amountIn, slip) ==
  LET q == QuoteInput(IsCreatorFeeOnInput(s), Received(s, amountIn),
                      Fetched(s), Fetched(Other(s)), config.trade, CreatorRate)
      received == Received(Other(s), q.output)
  IN  /\ created /\ NetsOK /\ Priced(s)
      /\ order' = Order("swap_in", s, amountIn, slip, On(Other(s), received),
                        On(Other(s), LeastOutput(received, slip)))

MostInput(s, input, slip) == AmountUp(input + TransferInverseFee(s, input), slip)

SwapBaseOut(s, amountOut, slip) ==
  LET onInput == IsCreatorFeeOnInput(s)
      output == amountOut + TransferInverseFee(Other(s), amountOut)
      q == QuoteOutput(onInput, output, Fetched(s), Fetched(Other(s)), config.trade, CreatorRate)
  IN  /\ created /\ NetsOK /\ Priced(s)
      /\ DrawnFor(onInput, output, CreatorRate) < Fetched(Other(s))
      /\ order' = Order("swap_out", s, amountOut, slip,
                        On(s, q.input + TransferInverseFee(s, q.input)),
                        On(s, MostInput(s, q.input, slip)))

Command ==
  /\ order = NoOrder
  /\ \/ \E mint0 \in Sides :
          \E a0 \in 1..Tokens[mint0], a1 \in 1..Tokens[Other(mint0)] :
            ~created /\ InitializePool(mint0, a0, a1)
     \/ \E slip \in Slippages :
          \/ \E lp \in 1..MaxLp : DepositCommand(lp, slip)
          \/ \E lp \in 1..lpMinted : WithdrawCommand(lp, slip)
          \/ \E s \in Sides :
               \/ \E amount \in 1..Tokens[s] : SwapBaseIn(s, amount, slip)
               \/ \E amount \in 1..Tokens[Other(s)] : SwapBaseOut(s, amount, slip)
  /\ UNCHANGED vars

(* What becomes of the transaction *)

Executes(o) ==
  \/ /\ o.kind = "initialize"
     /\ \E liquidity \in 1..(Tokens[0] + Tokens[1]) : Initialize(o.limit, liquidity)
  \/ o.kind = "deposit" /\ Deposit(o.amount, o.limit)
  \/ o.kind = "withdraw" /\ Withdraw(o.amount, o.limit)
  \/ o.kind = "swap_in" /\ SwapBaseInput(o.side, o.amount, o.limit[Other(o.side)])
  \/ o.kind = "swap_out" /\ SwapBaseOutput(o.side, o.limit[o.side], o.amount)

Execute == order # NoOrder /\ Executes(order) /\ order' = NoOrder

\* The program refuses it, or its blockhash expires first.
Lapse == order # NoOrder /\ order' = NoOrder /\ UNCHANGED vars

\* Everybody else
Meanwhile ==
  /\ Next
  /\ order' = IF order = NoOrder THEN NoOrder
              ELSE [order EXCEPT !.fresh = @ /\ UNCHANGED vars]

ClientInit == Init /\ order = NoOrder

ClientNext == Command \/ Execute \/ Lapse \/ Meanwhile

ClientSpec == ClientInit /\ [][ClientNext]_<<vars, order>>

----------------------------------------------------------------------------
(* Properties *)

Paid(s) == vault'[s] - vault[s]
Drawn(s) == vault[s] - vault'[s]

\* However stale the price, an order that executes keeps to it within the
\* configured slippage and a unit of rounding: no more is taken, and no less
\* arrives.  A new pool opens at the price the user asked for.  Of deposits and
\* withdrawals this is claimed for transfer fees that take the same of every
\* amount: of others the client computes the fee from the epoch.
PriceKept(o) ==
  CASE o.kind = "initialize" -> \A s \in Sides : vault'[s] = Received(s, o.quoted[s])
    [] o.kind = "deposit" -> \A s \in Sides : Paid(s) <= AmountUp(o.quoted[s], o.slip)
    [] o.kind = "withdraw" ->
         \A s \in Sides : Drawn(s) >= AmountDown(o.quoted[s], o.slip)
    [] o.kind = "swap_in" ->
         LET out == Other(o.side)
         IN  Received(out, Drawn(out)) >= AmountDown(o.quoted[out], o.slip)
    [] o.kind = "swap_out" ->
         /\ Received(Other(o.side), Drawn(Other(o.side))) = o.amount
         /\ Paid(o.side) + TransferInverseFee(o.side, Paid(o.side))
              <= AmountUp(o.quoted[o.side], o.slip)

SlippageHolds == [][Execute => PriceKept(order)]_<<vars, order>>

\* What the user and the admin must see to for the program to take the order.
\* A withdrawal must also be granted a slippage of one unit, because the client
\* rounds its price up.
Acceptable(o) ==
  CASE o.kind = "initialize" -> FALSE
    [] o.kind = "deposit" ->
         "deposit" \notin disabled /\ \A s \in Sides : o.quoted[s] > 0 /\ o.limit[s] <= Held(s)
    [] o.kind = "withdraw" ->
         /\ "withdraw" \notin disabled
         /\ \A s \in Sides : o.quoted[s] > 0 /\ o.quoted[s] * o.slip >= SlippageUnit
    [] o.kind = "swap_in" ->
         SwapOpen /\ o.amount <= Held(o.side) /\ o.quoted[Other(o.side)] > 0
    [] o.kind = "swap_out" -> SwapOpen /\ o.limit[o.side] <= Held(o.side)

\* As long as nobody has changed the pool, the program executes the order: the
\* client's price, with its fees and roundings, is the one the program computes.
FreshOrderExecutes ==
  order # NoOrder /\ order.fresh /\ Acceptable(order) => ENABLED Execute
=============================================================================
