SPECIFICATION Spec
CONSTANTS
  Keys = {k1, k2}
  Values = {v1, v2}
  NoValue = NoValue
  TTLs = {0, 1}
  DefaultTTL = 0
  MaxStamp = 2
  MaxTime = 2
  MaxSeq = 3
  MaxLines = 3
  Faults = {"kill", "disk", "repair"}
SYMMETRY Symmetry
VIEW KillView
CHECK_DEADLOCK FALSE
INVARIANTS
  TypeOK
  ServesHistory
  IndexMatchesState
PROPERTIES
  SafePrefixKept
