\* A ring of 3 that wraps, and a sum that wraps at 43.
SPECIFICATION Spec
CONSTANTS
  ObservationNum = 3
  UpdateDuration = 3
  Prices = {1, 3}
  Modulus = 43
  LegacySums = {0, 40}
  StartTime = 1
  MaxTime = 12
INVARIANTS TypeOK NewestIsExact RingOrdered AverageWithinDuration
PROPERTIES ObservationsAreSealed
CHECK_DEADLOCK FALSE
