SPECIFICATION Spec
CONSTANTS
  f1 = f1
  f2 = f2
  f3 = f3
  Ids <- ThreeFlows
  Sides <- OneSide
  MaxFlows = 2
  InlineCap = 1
  PerBodyCap = 3
  DiskBudget = 4
  MaxRead = 2
  ExportBody = 2
  Chunks = {1, 2}
  MaxBody = 4
  MaxFaults = 1
  MaxClears = 1
SYMMETRY FlowSymmetry
CHECK_DEADLOCK FALSE
INVARIANTS
  BudgetKept
  DiskIsAccounted
  SpilledIsStored
  ReadIsHonest
