SPECIFICATION InsightsSpec
CONSTANTS
  f1 = f1
  f2 = f2
  f3 = f3
  c1 = c1
  c2 = c2
  r1 = r1
  Ids <- ThreeFlows
  Callers <- TwoCallers
  NoFlow = NoFlow
  Sizes = {1, 3}
  MaxFlows = 2
  MaxCaptured = 3
  MaxGeneration = 4
  Readers <- OneReader
  Latencies = {0, 5}
  NoReport = NoReport
SYMMETRY InsightsSymmetry
CHECK_DEADLOCK FALSE
INVARIANTS
  TypeOK
  QueueMatchesMap
  HeldIsWhatIsRetained
  ReusedReportIsTrue
PROPERTIES
  OldestGoesFirst
  LeavingBodiesAreListed
  RefinesWindow
