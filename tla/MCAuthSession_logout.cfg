SPECIFICATION Spec
CONSTANTS
  r1 = r1
  r2 = r2
  Requests = {r1, r2}
  MaxLogins = 2
  MaxReloads = 0
  MaxLost = 0
SYMMETRY Alike
CHECK_DEADLOCK FALSE
INVARIANT LogoutClears
