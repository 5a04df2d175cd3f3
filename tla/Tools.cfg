SPECIFICATION MCSpec
CONSTANTS
  PackFiles = {"a", "b"}
  Schemas = {"s"}
  PackOf <- MCPackOf
  MaxVersion = 2
  MaxEdits = 2
  MaxCrashes = 1
  Procs = {p1, p2}
  Dists = {"a", "b"}
  First = "a"
  TTL = 3
  NegTTL = 2
  Boxes = {"x", "y"}
  MaxTime = 5
  MaxApplies = 2
  Entries = {"e", "f"}
  MaxAttempts = 3
  Backoff = 1
  BackoffCap = 2
  Callers = {p1, p2}
  RuleFiles = {"x", "y"}
  RowIds = {"r", "s", "t", "u"}
  MaxClock = 4
  MaxCalls = 3
  MaxChanges = 1
  Ids = {"x", "y"}
  Danger = {"danger"}
  Odd = {"odd"}
  Private = {"private"}
  ForeignRows <- MCForeign
  LocalRows <- MCLocal
  MaxWrites = 1
  MaxImports = 2
SYMMETRY Symmetry
CHECK_DEADLOCK FALSE
 
 
 
INVARIANT AutomationSafe
 
