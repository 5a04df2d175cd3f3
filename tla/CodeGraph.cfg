SPECIFICATION LiveSpec
CONSTANTS
  Threads = {s, c}
  ServerThreads = {s}
  Schedulers = {s}
  Projects = {p1}
  Roots = {r1, r2}
  Texts = {t1, key, big}
  SecretTexts = {key}
  OverLimit = {big}
  Absent = Absent
  AutoCap = 1
  MaxOps = 2
  MaxEdits = 2
CHECK_DEADLOCK FALSE
 
PROPERTY WatchConverges
