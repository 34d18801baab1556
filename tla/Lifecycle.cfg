\* The process stops for good.
CHECK_DEADLOCK FALSE
SPECIFICATION Spec
SYMMETRY Interchangeable
CONSTANTS
  Handlers = {h1, h2}
  BusyTimeout = 1
  ShutdownTimeout = 3
  StopGracePeriod = 4
INVARIANTS
  DrainHonoured
  NeverKilled
PROPERTIES
  StartsAsConfigured
