SPECIFICATION PageFairSpec
CONSTANTS
  Kind = "codex"
  HasPrompt = FALSE
  Cap = 1
  MaxTurns = 1
  MaxStops = 1
  MaxFaults = 0
  MaxFetches = 1
  MaxInputs = 2
  Cached = {"none"}
CHECK_DEADLOCK FALSE
PROPERTIES SendReaches ComposerReturns TurnAnswered HandlerLeaves RunsEnd
