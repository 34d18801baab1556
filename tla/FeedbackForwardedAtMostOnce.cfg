SPECIFICATION Spec
CONSTANTS
  Handlers = {h1, h2}
  Ids = {i1}
  MaxFaults = 1
  MaxTokens = 2
INVARIANTS
  ForwardedAtMostOnce
