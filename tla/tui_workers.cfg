SPECIFICATION FairSpec
CONSTANTS
  Code <- MCCode
  Filters <- MCFilters
  Cores = 2
  ChunkLen = 2
  MaxPerTick = 2
  CanFail = {2}
  MaxPanics = 1
  MaxKeys = 2
INVARIANTS
  EveryFunctionListed
  SelectionInRange
  RowsAreOfTheChosenKind
  OneBuilder
  TextKeepsUp
PROPERTIES
  DiffEnds
  GitBuilds
\* The user may quit.
CHECK_DEADLOCK FALSE
