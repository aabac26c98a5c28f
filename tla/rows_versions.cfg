CONSTANTS
  Nodes = {n1}
  Keys = {1, 2, x, y}
  Procs = {p1, p2, p3}
  Miss = Miss
  None = None
  Null = Null
  Volatile = TRUE
  MaxId = 2
  Names = {x, y}
  MaxConns = 4
  NameFirst = FALSE
  PromptCommit = TRUE
  RowOps = {"insert","rename","delete","restore"}
  WriteKeys = {x}
  Lossy = FALSE
  AnyKey = x
SPECIFICATION Spec
SYMMETRY Symmetry
INVARIANTS VersionIdentifies
PROPERTIES NoLostUpdate
CHECK_DEADLOCK FALSE
