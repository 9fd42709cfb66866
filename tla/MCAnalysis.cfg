SPECIFICATION AnalysisSpec
CONSTANTS
  Limit <- SmallLimits
  AddedLatency = 2
  Opaque <- SmallOpaque
  Pools <- SmallPools
  MaxCapture = 5
INVARIANTS RunsAreExact RedirectsTold FindingsStandAlone
CHECK_DEADLOCK FALSE
