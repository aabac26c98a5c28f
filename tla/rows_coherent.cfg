CONSTANTS
  Nodes = {n1}
  Keys = {1, 2, x, y}
  Procs = {p1, p2, p3}
  Miss = Miss
  None = None
  Null = Null
  Volatile = TRUE
  MaxId = 2
  Names = {x, y}
  MaxConns = 4
  NameFirst = FALSE
  PromptCommit = TRUE
  RowOps = {"get", "insert", "update", "delete", "clear"}
  WriteKeys = {1, 2}
  Lossy = TRUE
  AnyKey = 1
SPECIFICATION Spec
SYMMETRY Symmetry
INVARIANTS RowTypeOK RowsCoherent
CHECK_DEADLOCK FALSE
