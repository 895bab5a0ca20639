------------------------------ MODULE SwapCurve ------------------------------
(***************************************************************************)
(* The arithmetic of a cp-swap pool (programs/cp-swap/src/curve): fees,    *)
(* the constant product curve and the conversion of LP tokens to trading   *)
(* tokens.  Amounts are u128 intermediates of u64 balances, which cannot   *)
(* overflow; rates are numerators over Denominator.  A definition marked   *)
(* "variant" is no part of the program: it is a plausible mistake in the   *)
(* definition below it.                                                    *)
(***************************************************************************)
EXTENDS Integers

CONSTANT Denominator    \* FEE_RATE_DENOMINATOR_VALUE, 1_000_000 in the source

ASSUME DenominatorAssumption == Denominator \in Nat \ {0}

Sides == {0, 1}
Other(s) == 1 - s

FloorDiv(a, b) == a \div b
CeilDiv(a, b) == (a + b - 1) \div b

----------------------------------------------------------------------------
(* Fees *)

\* variant: rounds for the trader
TradingFeeFloor(amount, rate) == FloorDiv(amount * rate, Denominator)

\* Fees::trading_fee, and creator_fee, which is the same function.
TradingFee(amount, rate) == CeilDiv(amount * rate, Denominator)

\* Fees::protocol_fee and fund_fee: a part of the trade fee.
PartOfFee(fee, rate) == FloorDiv(fee * rate, Denominator)

\* Fees::split_creator_fee fails when both rates are 0.
FeeCanBeSplit(tradeRate, creatorRate) == tradeRate + creatorRate > 0

SplitCreatorFee(fee, tradeRate, creatorRate) ==
  FloorDiv(fee * creatorRate, tradeRate + creatorRate)

\* variant: rounds down, so the fee on the result falls short
PreFeeAmountFloor(amount, rate) ==
  FloorDiv(amount * Denominator, Denominator - rate)

\* Fees::calculate_pre_fee_amount: what leaves `amount` once the fee is taken.
PreFeeAmount(amount, rate) ==
  IF rate = 0 THEN amount ELSE CeilDiv(amount * Denominator, Denominator - rate)

----------------------------------------------------------------------------
(* The constant product, x of the input token against y of the output *)

\* variant: the price before the swap, without what the swap moves it by
CurveOutputAtSpot(in, x, y) == FloorDiv(in * y, x)

\* swap_base_input_without_fees
CurveOutput(in, x, y) == FloorDiv(in * y, x + in)

\* variant: one unit more instead of rounding up, also where the quotient is exact
CurveInputPlusOne(out, x, y) == FloorDiv(x * out, y - out) + 1

\* swap_base_output_without_fees; fails unless out < y.
CurveInput(out, x, y) == CeilDiv(x * out, y - out)

\* A SwapResult.  `swapped` and `drawn` are what the curve adds to x and takes
\* from y; `input` and `output` are what the trader pays and is paid.
Quote(input, swapped, drawn, output, creatorFee) ==
  [input |-> input, swapped |-> swapped, drawn |-> drawn, output |-> output,
   creatorFee |-> creatorFee,
   tradeFee |-> input - swapped - (creatorFee - (drawn - output))]

\* CurveCalculator::swap_base_input with the creator's fee taken from the input
QuoteInputFeeIn(input, x, y, tradeRate, creatorRate) ==
  LET fee == TradingFee(input, tradeRate + creatorRate)
      out == CurveOutput(input - fee, x, y)
  IN  Quote(input, input - fee, out, out, SplitCreatorFee(fee, tradeRate, creatorRate))

\* ... and from the output.
QuoteInputFeeOut(input, x, y, tradeRate, creatorRate) ==
  LET swapped == input - TradingFee(input, tradeRate)
      out == CurveOutput(swapped, x, y)
      fee == TradingFee(out, creatorRate)
  IN  Quote(input, swapped, out, out - fee, fee)

QuoteInput(onInput, input, x, y, tradeRate, creatorRate) ==
  IF onInput THEN QuoteInputFeeIn(input, x, y, tradeRate, creatorRate)
             ELSE QuoteInputFeeOut(input, x, y, tradeRate, creatorRate)

\* CurveCalculator::swap_base_output with the creator's fee added to the input
QuoteOutputFeeIn(output, x, y, tradeRate, creatorRate) ==
  LET swapped == CurveInput(output, x, y)
      input == PreFeeAmount(swapped, tradeRate + creatorRate)
  IN  Quote(input, swapped, output, output,
            SplitCreatorFee(input - swapped, tradeRate, creatorRate))

\* ... and taken from the output.
QuoteOutputFeeOut(output, x, y, tradeRate, creatorRate) ==
  LET drawn == PreFeeAmount(output, creatorRate)
      swapped == CurveInput(drawn, x, y)
  IN  Quote(PreFeeAmount(swapped, tradeRate), swapped, drawn, output, drawn - output)

QuoteOutput(onInput, output, x, y, tradeRate, creatorRate) ==
  IF onInput THEN QuoteOutputFeeIn(output, x, y, tradeRate, creatorRate)
             ELSE QuoteOutputFeeOut(output, x, y, tradeRate, creatorRate)

\* What the curve of swap_base_output draws from y: it fails unless that is < y.
DrawnFor(onInput, output, creatorRate) ==
  IF onInput THEN output ELSE PreFeeAmount(output, creatorRate)

----------------------------------------------------------------------------
(* lp_tokens_to_trading_tokens, for one of the two tokens *)

\* variant: rounds for the depositor
LpDepositFloor(lp, supply, total) == FloorDiv(lp * total, supply)

\* RoundDirection::Ceiling: an amount that is less than one unit stays 0.
LpToDeposit(lp, supply, total) ==
  IF lp * total < supply THEN 0 ELSE CeilDiv(lp * total, supply)

\* RoundDirection::Floor
LpToWithdraw(lp, supply, total) == FloorDiv(lp * total, supply)

\* The integer square root of a * b, which is the liquidity of a new pool.
IsLiquidity(liquidity, a, b) ==
  /\ liquidity * liquidity <= a * b
  /\ a * b < (liquidity + 1) * (liquidity + 1)
=============================================================================
