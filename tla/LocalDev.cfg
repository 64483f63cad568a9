SPECIFICATION FairSpec
INVARIANTS
  NothingForgotten
  EachTried
PROPERTIES
  RunEnds
CONSTANTS
  Host = "organizeme"
  Caddy = "caddy"
  Selected <- MCSelected
  MaxRuns = 2
  None = None
CHECK_DEADLOCK FALSE
