\* lp_supply against the LP tokens in circulation.
SPECIFICATION Spec
CONSTANTS
  Denominator = 4
  LockedLp = 1
  Tokens <- FiveFour
  Rates <- MovingRates
  FirstConfig <- FirstRates
  TransferRate <- NoTransferFee
  TransferMax <- AtMostOne
  BasisPoints = 2
  Unlisted = {}
  Limits = {1, 5}
  MaxLp = 1
INVARIANTS LpSupplyCirculates
CHECK_DEADLOCK FALSE
