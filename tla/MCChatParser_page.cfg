SPECIFICATION Spec
CONSTANTS
  MaxLines = 6
  MaxResets = 1
INVARIANTS TypeOK ShownOnce BlockMatches
