SPECIFICATION Spec
CONSTANTS
  Clients = {c1}
  MaxRequests = 2
  MaxSockets = 1
INVARIANTS
  ConnectionIsReusable
CHECK_DEADLOCK FALSE
