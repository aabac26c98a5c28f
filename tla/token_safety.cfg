CONSTANTS
  Nodes = {n1, n2}
  Keys = {k1}
  Procs = {r1, r2, r3}
  Miss = Miss
  None = None
  Null = Null
  Volatile = TRUE
  Multi = {}
  Timeout = 1
  MaxRefresh = 1
  MaxTime = 0
  Ops = {"login", "logout", "verify"}
  Faults = {"crash"}
SPECIFICATION Spec
SYMMETRY Symmetry
INVARIANTS LoadCoherent SingleFlight
PROPERTIES ImplementsStore
CHECK_DEADLOCK FALSE
