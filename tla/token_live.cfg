CONSTANTS
  Nodes = {n1}
  Keys = {k1}
  Procs = {r1, r2, r3}
  Miss = Miss
  None = None
  Null = Null
  Volatile = TRUE
  Multi = {}
  Timeout = 1
  MaxRefresh = 1
  MaxTime = 1
  Ops = {"login", "logout", "verify"}
  Faults = {}
SPECIFICATION FairSpec
PROPERTIES StaleIsPurged RequestsEnd
CHECK_DEADLOCK FALSE
