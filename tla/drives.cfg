SPECIFICATION FairSpec
CONSTANTS
  v1 = v1
  v2 = v2
  Vaults = {v1, v2}
  Handles = {1, 2}
  MaxFiles = 2
  Unmarks = FALSE
  Names <- MCNames
  Paths <- MCPaths
  Contents <- MCContents
  NoPath = NoPath
  Plans <- MCPlans
  Letters <- MCLetters
  Main = Main
  None = None
INVARIANT TableTrue
INVARIANT EndsTold
INVARIANT CountTrue
INVARIANT CopyExact
INVARIANT NamesTrue
PROPERTY Answered
CHECK_DEADLOCK FALSE
