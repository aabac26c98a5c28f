CONSTANTS
  Nodes = {n1}
  Keys = {k1}
  Procs = {r1, r2, r3}
  Miss = Miss
  None = None
  Null = Null
  Volatile = FALSE
  Multi = {k1}
  Timeout = 1
  MaxRefresh = 1
  MaxTime = 2
  Ops = {"login", "logout", "verify", "clear"}
  Faults = {"redis", "lose", "crash", "evict"}
SPECIFICATION Spec
SYMMETRY Symmetry
INVARIANTS TypeOK CacheCoherent LockHeldByLoader
CHECK_DEADLOCK FALSE
