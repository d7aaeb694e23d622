SPECIFICATION Spec
CONSTANTS
  r1 = r1
  r2 = r2
  Requests = {r1, r2}
  MaxLogins = 2
  MaxReloads = 1
  MaxLost = 1
SYMMETRY Alike
CHECK_DEADLOCK FALSE
INVARIANTS TypeOK ExecutedOnce RefreshRescues LogoutHolds LoginPageHonest
