SPECIFICATION FairSpec
CONSTANTS
  Handlers = {h1, h2, h3}
  Ids = {i1}
  MaxFaults = 3
  MaxTokens = 2
INVARIANTS
  OneOwner
  RecordsBounded
  FalseAckExplained
PROPERTIES
  RetriesGetThrough
