SPECIFICATION PageSpec
CONSTANTS
  Kind = "codex"
  HasPrompt = FALSE
  Cap = 1
  MaxTurns = 2
  MaxStops = 1
  MaxFaults = 0
  MaxFetches = 1
  MaxInputs = 2
  Cached = {"none", "running", "done", "stopped"}
CHECK_DEADLOCK FALSE
INVARIANTS PageTypeOK GateMakesSerial PageStatusAgrees
