SPECIFICATION Spec
CONSTANTS
  Kind = "codex"
  HasPrompt = FALSE
  Cap = 2
  MaxTurns = 2
  MaxStops = 1
  MaxFaults = 1
CHECK_DEADLOCK FALSE
INVARIANTS TypeOK CurrentRowOpen SerialAttribution StoredBeforeShown AnswerAfterMessage
PROPERTIES DoneRowsFixed InOrder TranscriptSpec
