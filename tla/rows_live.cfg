CONSTANTS
  Nodes = {n1}
  Keys = {1, 2, x, y}
  Procs = {p1, p2}
  Miss = Miss
  None = None
  Null = Null
  Volatile = TRUE
  MaxId = 2
  Names = {x, y}
  MaxConns = 3
  NameFirst = FALSE
  PromptCommit = TRUE
  RowOps = {"get", "insert", "update", "delete"}
  WriteKeys = {1, 2}
  Lossy = FALSE
  AnyKey = 1
SPECIFICATION FairSpec
PROPERTIES SessionsClose StaleRowIsPurged
CHECK_DEADLOCK FALSE
