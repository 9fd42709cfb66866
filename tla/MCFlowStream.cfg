SPECIFICATION FairSpec
CONSTANTS
  Seqs <- FirstSeqs
  Data <- Changes
  MaxFlowsPerMessage = 1
  t1 = t1
  Tasks = {t1}
  MaxFlows = 2
  MaxClock = 3
  MaxToggles = 2
  MaxClears = 1
  MaxPages = 2
  MaxRestarts = 1
CHECK_DEADLOCK FALSE
INVARIANTS
  SlotIndexesQueue
  ListShowsStore
  NoFlowLost
PROPERTY
  ListCatchesUp
