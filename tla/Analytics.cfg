SPECIFICATION Spec
CONSTANTS
  Handlers = {h1, h2}
  Events = {e1, e2}
  WellFormed = {e1, e2}
  MaxBatchSize = 2
  PurgeBatch = 1
  MaxEventAge = 1
  MaxEventFuture = 1
  Retention = 3
  MaxLag = 1
  MaxClock = 4
  Nobody = nobody
SYMMETRY Symmetry
INVARIANTS
  CountedOnce
  PurgeIsComplete
PROPERTIES
  AcceptedIsWhatAppears
