SPECIFICATION FairSpec
CONSTANTS
  c1 = c1
  c2 = c2
  Conns <- TwoConns
  MaxFlows = 2
  MaxRequests = 2
  MaxEngines = 2
  MaxLeaves = 1
  MaxClears = 1
CHECK_DEADLOCK FALSE
INVARIANTS
  OneExchangePerFlow
  CompletedIsAnswered
PROPERTIES
  OutcomeStands
  NoFlowLeftRunning
