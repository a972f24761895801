SPECIFICATION Spec
CONSTANTS
  p1 = p1
  p2 = p2
  Procs = {p1, p2}
  Paths <- SharedSnapshot
  Modes = {"server", "cli"}
  Handlers = {h1}
  LateHandlers = TRUE
  Lines = 1
  MaxOps = 1
CHECK_DEADLOCK FALSE
INVARIANTS
  TypeOK
  ExclusiveFiles
  NoLockLeft
  SuccessMeansSaved
