SPECIFICATION Spec
CONSTANTS
  Keys = {k1, k2}
  Values = {v1}
  NoValue = NoValue
  TTLs = {0}
  DefaultTTL = 1
  MaxStamp = 2
  MaxTime = 2
  MaxSeq = 2
  MaxLines = 4
  Faults = {"kill", "power", "disk"}
SYMMETRY Symmetry
INVARIANTS
  DurableInv
  RestoreNeverRefuses
PROPERTIES
  SafePrefixKept
  GuardKept
  ImplementsDurableMap
