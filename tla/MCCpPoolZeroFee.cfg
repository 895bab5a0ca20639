\* The rates 0 and 0 are accepted, and then no swap can be priced.
SPECIFICATION Spec
CONSTANTS
  Denominator = 4
  LockedLp = 1
  Tokens <- FiveFour
  Rates <- MovingRates
  FirstConfig <- FirstRates
  TransferRate <- NoTransferFee
  TransferMax <- AtMostOne
  BasisPoints = 2
  Unlisted = {}
  Limits = {1, 5}
  MaxLp = 1
INVARIANTS AcceptedRatesTrade
CHECK_DEADLOCK FALSE
