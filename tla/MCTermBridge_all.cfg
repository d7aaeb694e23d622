SPECIFICATION FairSpec
CONSTANTS
  Sizes = {"80x24", "40x20"}
  Default = "80x24"
  BufCap = 1
  MaxKeys = 2
  MaxOutput = 2
  MaxFits = 2
  MaxPastes = 1
CHECK_DEADLOCK FALSE
INVARIANTS TypeOK OutputInOrder KeysInOrder SizeSettles
PROPERTIES NothingLeft OutputReaches
