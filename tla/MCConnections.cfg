SPECIFICATION Spec
CONSTANTS
  sent = sent
  received = received
  Directions = {sent, received}
  Places = {1, 2}
  MaxSockets = 3
  MaxFrames = 2
  Sizes = {1, 2}
  QueueBytes = 2
  TickBytes = 1
  MaxFlowsPerMessage = 1
  PageFrames = 2
  PageBytes = 2
  ListCap = 2
  SocketFrames = 1
  ShownBytes = 1
  Flows = {1, 2}
  Hosts <- Sites
  Now = {0, 1, 2}
  MaxAge = 1
  Slop = 1
  LogCap = 1
SYMMETRY Way
CHECK_DEADLOCK FALSE
INVARIANTS FramesAccounted FramesBounded HandshakeOfItsOpener PhasesAddUp
