SPECIFICATION PageFairSpec
CONSTANTS
  Kind = "codex"
  HasPrompt = FALSE
  Cap = 1
  MaxTurns = 1
  MaxStops = 0
  MaxFaults = 0
  MaxFetches = 0
  MaxInputs = 2
  Cached = {"none"}
CHECK_DEADLOCK FALSE
PROPERTY InvitationHonest
