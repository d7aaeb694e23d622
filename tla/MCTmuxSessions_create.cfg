SPECIFICATION Spec
CONSTANTS
  Names = {"dev", "a/b"}
  Heard <- MCHeard
  None = None
  MaxOutside = 0
  MaxFaults = 0
  MaxCreates = 1
  MaxReloads = 0
INVARIANT CreateHonest
