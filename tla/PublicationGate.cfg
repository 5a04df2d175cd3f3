SPECIFICATION Spec
CONSTANTS
  Procs = {p1, p2}
  Texts = {t1, bad}
  Dangerous = {bad}
  Contexts = {x1}
  DangerousContexts = {}
  None = None
  Ops = {"update", "promote", "publish", "cluster", "quarantine", "release", "delete", "refine", "heal", "crash"}
  FlipTo = {"published"}
  Curated = FALSE
  AutoFilter = FALSE
  MaxAttempts = 2
  MaxOps = 2
  MaxFaults = 1
  MaxOverruns = 1
CHECK_DEADLOCK FALSE
SYMMETRY Symmetry
INVARIANT PublishedIsGated
