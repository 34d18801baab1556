SPECIFICATION Spec
CONSTANTS
  Keys = {k1, k2}
  Requests = {r1, r2}
  Capacity = 2
  Minute = 3
  SweepSlack = 1
  SweepEvery = 4
  MaxKeys = 1
  MaxLag = 1
  MaxClock = 7
SYMMETRY Symmetry
INVARIANTS
  RateBound
  TableBounded
  RetryAfterHonoured
PROPERTIES
  ImplementsRateBudget
  TurnedAwayOnlyWhenBusy
