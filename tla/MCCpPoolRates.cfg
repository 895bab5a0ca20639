\* The admin moves the rates; the mint of side 1 takes a transfer fee.
SPECIFICATION Spec
CONSTANTS
  Denominator = 4
  LockedLp = 1
  Tokens <- FiveFour
  Rates <- MovingRates
  FirstConfig <- FirstRates
  TransferRate <- HalfOnSide1
  TransferMax <- AtMostOne
  BasisPoints = 2
  Unlisted = {1}
  Limits = {1, 5}
  MaxLp = 2
INVARIANTS TypeOK PoolSolvent ExactOutputIsPaidFor
PROPERTIES LpValueNeverFalls
CONSTRAINT RegistriesSettled
CHECK_DEADLOCK FALSE
