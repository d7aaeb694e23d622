SPECIFICATION Spec
CONSTANTS
  Kind = "commandcode"
  HasPrompt = TRUE
  Cap = 2
  MaxTurns = 2
  MaxStops = 0
  MaxFaults = 0
CHECK_DEADLOCK FALSE
INVARIANT Attribution
