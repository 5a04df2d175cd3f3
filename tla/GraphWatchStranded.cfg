SPECIFICATION Spec
CONSTANTS
  Users = {u1, u2}
  Loops = {l1, l2}
  Projects = {p1, p2}
  None = None
  RegCap = 1
  QueueMax = 2
  MaxOps = 3
CHECK_DEADLOCK FALSE
INVARIANT NeverUnpolled
