SPECIFICATION FairSpec
CONSTANTS
  Requests = {r1, r2, r3}
  MaxConcurrent = 2
  Budget = 2
  MaxDay = 2
INVARIANTS
  SlotPerRequest
  CapUnlessRaced
  OverrunBounded
  RefusedOnlyWhenSpent
PROPERTIES
  SlotsComeBack
