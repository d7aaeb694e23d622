SPECIFICATION Spec
CONSTANTS
  s1 = s1
  c1 = c1
  c2 = c2
  None = None
  Sessions = {s1}
  Conns = {c1, c2}
  MaxMinutes = 1
  MaxRuns = 1
  MaxPosts = 1
  MaxTroubles = 1
SYMMETRY Alike
CHECK_DEADLOCK FALSE
INVARIANTS TypeOK RunningExplained NamesAgree RowsFinish
PROPERTIES HistorySpec
