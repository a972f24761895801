SPECIFICATION FairSpec
CONSTANTS
  p1 = p1
  p2 = p2
  Procs = {p1}
  Paths <- SameFiles
  Modes = {"cli"}
  Handlers = {}
  LateHandlers = FALSE
  Lines = 2
  MaxOps = 1
CHECK_DEADLOCK FALSE
PROPERTIES
  SignalEnds
