CONSTANTS
  Requests = {q1, q2}
  Plain = {q2}
  Mids = {1}
  Guarded = {1}
  Tasks = {q1, q2}
  PoolSize = 1
  QueueSize = 1
  MaxName = 3
  MaxRows = 13
  MaxPage = 15
  MaxPageCount = 14
  maxCount = 12
  Width = 7
  Mantissa = 3
  StandardTime = 100
  EndOfYears = 29300
  Parts = 2
  NanoRange = 301
SPECIFICATION MCSpec
INVARIANTS TypeOK CalledIfAllowed AnsweredOnce MessagesAccounted
INVARIANTS MethodsAreReached NamedAreGuarded TimesSurvive PagesCoverRows CopiesAreExact UpdateMergesColumns
PROPERTIES RequestsEnd WorkEnds
CHECK_DEADLOCK FALSE
