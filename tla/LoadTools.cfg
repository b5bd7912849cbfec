SPECIFICATION ToolFairSpec
CONSTANTS
  c1 = c1
  c2 = c2
  Clients <- MCClients
  Settings <- MCSettings
  MaxRequests = 2
  MaxSockets = 1
  WarmUp = 1
  Segments = 100
  Fractions = 4
  IntMax = 3
INVARIANTS
  TypeOK
  AnswersCurrent
  NothingLeftOver
  ExecutedOnce
  ThrowsOnlyWithCause
  ReportsWholeRun
  DrawsFromPool
PROPERTIES
  SessionsEnd
  RequestsEnd
  SuccessAborts
CHECK_DEADLOCK FALSE
