SPECIFICATION FairSpec
CONSTANTS
  Procs = {p1, p2}
  Texts = {t1, bad}
  Dangerous = {bad}
  Contexts = {x1}
  DangerousContexts = {}
  None = None
  Ops = {"update", "refine", "quarantine"}
  FlipTo = {}
  Curated = FALSE
  AutoFilter = FALSE
  MaxAttempts = 2
  MaxOps = 2
  MaxFaults = 0
  MaxOverruns = 0
CHECK_DEADLOCK FALSE
PROPERTY QuarantineIsTerminal
