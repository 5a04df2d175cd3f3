SPECIFICATION MCSpec
CONSTANTS
  Procs = {srv, c1}
  Server = srv
  Agents = {a1}
  Nodes = {n1}
  Grace = {0, 1}
  MaxTTL = 2
  Lifetimes = {2}
  MaxTokens = 4
  FreshTokens = 1
  MaxTime = 2
  MaxFaults = 1
  Tokens = {"t1"}
  LoginThreshold = 3
  TotpThreshold = 2
  MaxAttempts = 3
  LockoutTicks = 2
  ChallengeTicks = 1
  SessionTicks = 2
  SessionCap = 3
  MaxLoginTime = 5
  MaxSessions = 1
  MaxFailures = 4
  Stores = {"p1", "p2"}
  Names = {"s1", "s2"}
  Messages = {"m1"}
  Owners = {"a1", "a2"}
  Contents = {"c1"}
  MaxTurns = 2
  MaxSaves = 2
  Reporters = {"p1", "p2"}
  Cited = {"x", "y"}
  Events = {"e", "f"}
  RowCap = 2
  MaxReports = 2
  MaxHides = 1
  Rows = {"r1", "r2"}
  Kinds <- MCKinds
  Composers = {"t1", "t2"}
  Chats = {"s1"}
  FeedLimit = 1
  FeedWindow = 1
  MaxFeedTime = 4
  Callers = {"t1", "t2"}
  MaxRows = 4
  Secret = {2}
  RowLimit = 1
  Overfetch = 3
  RateLimit = 2
  RateWindow = 2
  Sizes = {1, 3}
  MaxChars = 2
  MaxMinute = 4
  MaxStarts = 1
  MaxQueries = 4
  MaxRetires = 3
  Hosts = {"p", "q"}
  Recorders = {"t1", "t2", "u"}
  HostOf <- MCHostOf
  Nobody = "none"
  MaxKeys = 2
  MaxCalls = 2
  MaxBreaks = 1
CHECK_DEADLOCK FALSE
INVARIANT TokensSafe
 
INVARIANT SessionsSafe
INVARIANT HooksSafe
INVARIANT FeedbackSafe
INVARIANT VitalsSafe
PROPERTY ServerSteps
