SPECIFICATION FairSpec
CONSTANTS
  r1 = r1
  r2 = r2
  NoRequest = NoRequest
  Requests <- TwoRequests
  Ids = {0, 1}
  FlowId <- OneEngine
  Patterns <- TwoPatterns
  MaxArms = 2
  MaxDisarms = 1
  MaxReloads = 1
CHECK_DEADLOCK FALSE
INVARIANTS
  TypeOK
  HeldUntilDecided
  ShownArmedIsArmed
PROPERTY
  DisarmFrees
