\* One client and everybody else; the mint of side 1 takes a transfer fee.
SPECIFICATION ClientSpec
CONSTANTS
  Denominator = 8
  LockedLp = 1
  Tokens <- FiveFive
  Rates <- SmallRates
  FirstConfig <- SmallFees
  TransferRate <- HalfOnSide1
  TransferMax <- AtMostOne
  BasisPoints = 2
  Unlisted = {}
  Limits = {1, 5}
  MaxLp = 2
  SlippageUnit = 2
  Slippages = {0, 1}
  Epoch = 1
INVARIANTS FreshOrderExecutes
PROPERTIES SlippageHolds
CONSTRAINT FewSwitches
CHECK_DEADLOCK FALSE
