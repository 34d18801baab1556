SPECIFICATION Spec
CONSTANTS
  Files <- MCFiles
  Lower <- MCLower
  Blank = ""
  Texts <- MCTexts
  Queries <- MCQueries
  Spaces = {0}
  Tokens <- MCTokens
  Contains <- MCContains
  BatchSize = 2
  SurrogateLow = 3
  SurrogateHigh = 3
  MaxRune = 5
  Readers = {r1}
INVARIANTS
  IndexInStep
  TotalAgrees
PROPERTIES
  SearchIsExact
  ImportConverges
