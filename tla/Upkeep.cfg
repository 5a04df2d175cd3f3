SPECIFICATION MCSpec
CONSTANTS
  Users = {u1, u2}
  Loops = {l1, l2}
  Projects = {p1, p2}
  None = None
  RegCap = 1
  QueueMax = 2
  MaxOps = 3
  Ids = {"i1", "i2"}
  Senders = {"srv", "t"}
  Server = "srv"
  Scoped = {"i1", "i2"}
  Blocked = {"i2"}
  MaxTs = 2
  PageLimit = 1
  MaxPages = 2
  MaxUpserts = 3
  MaxFaults = 1
  Procs = {"p", "q"}
  Columns = {"c", "d"}
  Legacy = {"l"}
  Hashes = {"h"}
  Realms = {"a", "b"}
  Edges = {"e", "f"}
  MaxWrites = 2
  MaxCrashes = 1
  Threads = {"t", "u"}
  Verbs = {"v", "w"}
  CatchUp = 1
  TTL = 3
  MaxHour = 6
  MaxErrors = 1
  MaxStops = 2
CHECK_DEADLOCK FALSE
 
INVARIANT MirrorSafe
INVARIANT SchemaSafe
INVARIANT ProcessorSafe
PROPERTY UpkeepSteps
PROPERTY UpkeepServes
