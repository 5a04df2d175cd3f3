SPECIFICATION Spec
CONSTANTS
  Callers = {c1, c2}
  Actors = {a1, a2}
  None = None
  RateLimit = 1
  RateWindow = 1
  StaleAge = 0
  MayDelete = TRUE
  MayCrash = TRUE
  MaxNow = 2
  MaxCalls = 4
SYMMETRY Symmetry
CHECK_DEADLOCK FALSE
INVARIANT LockMatchesStatus
INVARIANT RateOvershootBounded
