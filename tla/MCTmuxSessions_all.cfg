SPECIFICATION FairSpec
CONSTANTS
  Names = {"dev", "dev?"}
  Heard <- MCHeard
  None = None
  MaxOutside = 2
  MaxFaults = 1
  MaxCreates = 1
  MaxReloads = 1
INVARIANTS TypeOK NoInvention
PROPERTIES TerminalKept ListSettles TerminalSettles
