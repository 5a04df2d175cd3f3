SPECIFICATION MCSpec
CONSTANTS
  Twins = {p1, p2}
  Inputs <- MCInputs
  Arrays <- MCArrays
  Profiles = {"log", "code", "default"}
  Budgets = {0, 2}
  Around = 1
  LongLog = 3
  Edge = 1
  Stride = 2
  ShortText = 3
  ArrayMin = 5
  ArrayEnd = 2
  AnomalyCap = 1
  Mems = {"x", "y", "z"}
  PageLimit = 1
  MaxChanges = 2
SYMMETRY Symmetry
CHECK_DEADLOCK FALSE
INVARIANT FilterSafe
 
 
 
INVARIANT RetrievalSafe
 
