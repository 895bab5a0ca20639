\* The average price between two observations.
SPECIFICATION Spec
CONSTANTS
  ObservationNum = 3
  UpdateDuration = 3
  Prices = {1, 3}
  Modulus = 43
  LegacySums = {0, 40}
  StartTime = 1
  MaxTime = 12
INVARIANTS AverageIsAPrice
CHECK_DEADLOCK FALSE
