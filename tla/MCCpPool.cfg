\* A pool with a permissioned creator, fixed rates and no transfer fee.
SPECIFICATION Spec
CONSTANTS
  Denominator = 4
  LockedLp = 1
  Tokens <- SixFive
  Rates <- FixedRates
  FirstConfig <- LargeFees
  TransferRate <- NoTransferFee
  TransferMax <- AtMostOne
  BasisPoints = 2
  Unlisted = {}
  Limits = {1, 6}
  MaxLp = 2
INVARIANTS PoolSolvent LiquidityLocked NoProfitableRoundTrip SplittingNeverPays ExactOutputIsPaidFor ExactOutputCostsLeast
PROPERTIES LiquidityKeepsShares LpValueNeverFalls CollectionTakesOnlyFees ImplementsFeeLedger
CHECK_DEADLOCK FALSE
