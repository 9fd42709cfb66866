SPECIFICATION Spec
CONSTANTS
  Letters = {"a", "A", "b"}
  Lower <- LowerCase
  MaxPattern = 4
  MaxText = 4
  RuleIds = {"r", "s"}
  Contents = {1}
  Agents = {"a1", "a2"}
  MaxEdits = 3
  MaxExits = 2
  MaxRefusals = 1
  Ports = {9091, 9092}
  DefaultPort = 9091
  Callers = {"c1", "c2"}
  MaxStarts = 3
  Platforms <- Everywhere
  MaxGenerations = 2
  MaxFaults = 1
  MaxRefused = 1
  EngineCallers = {"e1", "e2"}
  MaxEngines = 4
CHECK_DEADLOCK FALSE
INVARIANTS GlobIsGlob RulesFileIsLive EndpointOwned KeyFitsCertificate ReportedTrustIsReal EngineOwned
