SPECIFICATION FairSpec
CONSTANTS
  Handlers = {h1, h2, h3}
  Keys = {k1}
  LongText = long
  Nobody = nobody
INVARIANTS
  OneFlightPerKey
  NoOrphanFlight
  AudioIsGenuine
PROPERTIES
  WaitersAnswered
