SPECIFICATION Spec
CONSTANTS
  Keys = {k1, k2}
  Values = {v1}
  NoValue = NoValue
  TTLs = {0}
  DefaultTTL = 1
  MaxStamp = 2
  MaxTime = 1
  MaxSeq = 2
  MaxLines = 3
  Faults = {"kill", "power"}
SYMMETRY Symmetry
INVARIANTS
  OnlyBufferedOpsLost
