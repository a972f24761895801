SPECIFICATION FairSpec
CONSTANTS
  p1 = p1
  p2 = p2
  Procs = {p1}
  Paths <- SameFiles
  Modes = {"server"}
  Handlers = {h1, h2}
  LateHandlers = TRUE
  Lines = 0
  MaxOps = 2
CHECK_DEADLOCK FALSE
INVARIANTS
  SuccessMeansSaved
PROPERTIES
  SignalEnds
  DiskErrorEnds
