SPECIFICATION Spec
CONSTANTS
  Requests = {r1, r2, r3}
  MaxConcurrent = 2
  Budget = 1
  MaxDay = 1
INVARIANTS
  DailyCap
