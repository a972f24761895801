SPECIFICATION FairSpec
CONSTANTS
  ROW_HEIGHT = 2
  PAGE_SIZE = 3
  OVERSCAN = 1
  MAX_SPACE = 12
  LIMIT = 6
  Height = 2
  Names = {1, 2}
  FirstQueues = {2}
  Positions = {6, 10, 12}
  Totals = {5, 7}
  MaxEvents = 2
INVARIANTS
  TypeOK
  RowsBelongToView
  RowsLoaded
PROPERTIES
  NeverGoesBack
  ReadsOwnWrites
  CatchesUp
