SPECIFICATION JanitorFairSpec
CONSTANTS
  k1 = k1
  k2 = k2
  k3 = k3
  Paths = {k1, k2, k3}
  Writers = {w1}
  Size <- MCSize
  CacheMaxBytes = 20
  Hour = 1
  MaxUses = 5
  MaxFaults = 2
INVARIANTS
  JanitorTypeOK
  LiveTempSafe
  TotalIsHonest
PROPERTIES
  EvictsOnlyBeyondTarget
  EvictsLeastRecent
  SweepMeetsCap
  OrphansGo
