CONSTANTS
  Files = {"sys"}
  BufferSize = 2
  FileMaxSize = 2
  SaveDays = 1
  Alike = {}
  LastDay = 2
  MaxFaults = 1
  Requests = {q1}
  Signals = {"term", "usr1", "urg"}
  MaxSignals = 2
  MaxWrites = 3
  Slow = {"http", "mysql", "sys"}
  Again = {"sys"}
SPECIFICATION FewSpec
INVARIANTS TypeOK LogInOrder UsersCloseFirst ClosedOnce
PROPERTIES ShutdownEnds 
CHECK_DEADLOCK FALSE
