SPECIFICATION Spec
CONSTANTS
  c1 = c1
  c2 = c2
  Conns <- OneConn
  MaxFlows = 4
  MaxRequests = 2
  MaxEngines = 2
  MaxLeaves = 0
  MaxClears = 0
CHECK_DEADLOCK FALSE
INVARIANT
  CapturedIsKept
