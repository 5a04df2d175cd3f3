SPECIFICATION MCSpec
CONSTANTS
  Procs = {p1, p2}
  Projects = {prj}
  Unscoped = Unscoped
  Texts = {t1, key}
  SecretTexts = {key}
  Issuers = {a, b}
  Nobody = Nobody
  MaxEntries = 1
  QuarantineLimit = 2
  Configs <- MCConfigs
  MaxOps = 3
  Drafters = {"t1"}
  Sessions = {"s1", "s2"}
  Mems = {"a", "b", "c"}
  Shape <- MCShape
  Requests <- MCRequests
  Budget = 4
  AsyncCap = 1
  MaxCalls = 2
  MaxEnv = 1
  Workers = {"w1", "w2"}
  Events = {"e1", "e2", "e3"}
  SessionOf <- MCSessionOf
  TargetOf <- MCTargetOf
  NoTarget = NoTarget
  SessionLimit = 1
  ProjectLimit = 2
  MaxDeliveries = 4
  MaxFaults = 1
  Threads = {"h1", "h2"}
  Topics = {"x"}
  Realms = {"p1", "p2"}
  Allowed = {"p1"}
  Records = {"r1", "r2"}
  ProjectOf <- MCProjectOf
  TypesOk = {"r1", "r2"}
  Refusing = {"r2"}
  RateLimit = 2
  MaxPulls = 3
  MaxFailures = 1
  Corpora = {"p", "q"}
  Named = {"p"}
  Grants = {"p"}
  PageLimit = 1
  MaxRowid = 3
  FedIds = {"f1", "f2"}
  OriginOf <- MCOriginOf
  Barred = {"f2"}
  Handlers = {"h1", "h2"}
  MaxMoves = 2
SYMMETRY Symmetry
CHECK_DEADLOCK FALSE
INVARIANT CacheSafe
INVARIANT AssemblySafe
INVARIANT RewriteSafe
 
 
