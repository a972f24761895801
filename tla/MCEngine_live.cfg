SPECIFICATION FairSpec
CONSTANTS
  Keys = {k1, k2}
  Values = {v1}
  NoValue = NoValue
  TTLs = {0}
  DefaultTTL = 1
  MaxStamp = 3
  MaxTime = 3
  MaxSeq = 3
  MaxLines = 4
  Faults = {}
PROPERTIES
  EventuallySaved
