SPECIFICATION FairSpec
CONSTANTS
  Garbage = Garbage
  Addresses = {client, friend, proxy, gateway}
  Trusted = {proxy, gateway}
  Unit = 5
  LlmTimeout = 180
  MaxClaim = 2
  MaxProxies = 2
INVARIANTS
  KeyIsOrigin
  LateOnlyAfterSlowBody
  CompleteUnlessBroken
  RecognitionJustified
PROPERTIES
  EveryRequestEnds
