SPECIFICATION CrossSpec
CONSTANTS
  Targets = {"claude", "responses"}
  Routes <- MCRoutes
  Contents <- MCContents
  Reasoning = TRUE
  Tools = {1, 2}
  MaxLines = 4
  MaxDeltas = 3
  MaxBlocks = 3
INVARIANTS
  StreamsTypeOK
  StreamsWellFormed
  ContentConserved
  EndIsTrue
