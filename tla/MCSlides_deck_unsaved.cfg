SPECIFICATION Spec
CONSTANTS
  Script <- WasmRedis
  Paths <- Quotes
  Captures <- Shots
  FirstLines <- LinesOfTheCommit
  Editable = {"engine/engine.go"}
  Lengths = {60}
  Shrink = 0
  MaxEdits = 1
  MaxRuns = 1
CHECK_DEADLOCK FALSE
INVARIANTS
  DeckRegenerated
