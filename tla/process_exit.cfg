CONSTANTS
  Files = {"sys"}
  BufferSize = 2
  FileMaxSize = 2
  SaveDays = 1
  Alike = {}
  LastDay = 1
  MaxFaults = 0
  Requests = {q1}
  Signals = {"term"}
  MaxSignals = 1
  MaxWrites = 1
  Slow = {}
  Again = {}
SPECIFICATION Spec
INVARIANT FlushedAtExit
CHECK_DEADLOCK FALSE
