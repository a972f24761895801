SPECIFICATION Spec
CONSTANTS
  Names = {q1, q2}
  Readers = {r1}
  Filters = {"", "completed"}
  Limit = 1
  MaxTasks = 3
  MaxRuns = 2
SYMMETRY Symmetry
CHECK_DEADLOCK FALSE
INVARIANTS
  TypeOK
  CountsMatch
  PagesFull
  FirstStartsInOrder
  OneRunAtATime
  WholeWalkExact
  CompletedWalkMissesNone
PROPERTIES
  ImplementsTaskBoard
