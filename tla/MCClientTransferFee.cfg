\* The mint of side 1 takes half of every transfer, without a cap that matters.
SPECIFICATION ClientSpec
CONSTANTS
  Denominator = 8
  LockedLp = 1
  Tokens <- FiveEight
  Rates <- SmallRates
  FirstConfig <- SmallFees
  TransferRate <- HalfOnSide1
  TransferMax <- Uncapped
  BasisPoints = 2
  Unlisted = {}
  Limits = {1, 8}
  MaxLp = 2
  SlippageUnit = 2
  Slippages = {0, 1}
  Epoch = 1
INVARIANTS FreshOrderExecutes
CONSTRAINT FewSwitches
CHECK_DEADLOCK FALSE
