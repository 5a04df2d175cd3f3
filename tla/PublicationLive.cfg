SPECIFICATION FairSpec
CONSTANTS
  Procs = {p1, p2}
  Texts = {t1}
  Dangerous = {}
  Contexts = {x1}
  DangerousContexts = {}
  None = None
  Ops = {"promote", "quarantine", "sweep", "filter", "delete", "refine", "heal", "crash"}
  FlipTo = {"published"}
  Curated = TRUE
  AutoFilter = TRUE
  MaxAttempts = 2
  MaxOps = 2
  MaxFaults = 1
  MaxOverruns = 0
CHECK_DEADLOCK FALSE
PROPERTY RefinementConverges
PROPERTY IndexConverges
