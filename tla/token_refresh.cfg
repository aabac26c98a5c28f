CONSTANTS
  Nodes = {n1}
  Keys = {k1}
  Procs = {r1, r2, r3}
  Miss = Miss
  None = None
  Null = Null
  Volatile = TRUE
  Multi = {}
  Timeout = 1
  MaxRefresh = 1
  MaxTime = 1
  Ops = {"login", "verify"}
  Faults = {}
SPECIFICATION Spec
PROPERTIES RefreshKeepsToken
CHECK_DEADLOCK FALSE
