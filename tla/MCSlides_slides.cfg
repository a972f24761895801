SPECIFICATION Spec
CONSTANTS
  Script <- WasmRedis
  Paths <- Quotes
  Captures <- Shots
  FirstLines <- LinesOfTheCommit
  Editable = {"engine/types.go", "engine/engine.go", "ui-dashboard", "ui-liste"}
  Lengths = {20, 60, 100, 130}
  Shrink = 60
  MaxEdits = 2
  MaxRuns = 2
CHECK_DEADLOCK FALSE
INVARIANTS
  TypeOK
  OneVersionPerFile
  PicturesFresh
  NumbersExplained
  NothingOverlaps
