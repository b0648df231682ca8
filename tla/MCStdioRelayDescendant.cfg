SPECIFICATION FairSpec
CONSTANTS
  ClientKinds = {"forward", "error"}
  ServerKinds = {"forward"}
  ChildStatus = {0}
  Faults = {"signal", "descendant"}
  PipeSize = 1
  ChunkSize = 1
  QueueSize = 2
  MaxSent = 2
  MaxNotices = 1
PROPERTIES
  SignalEndsGuard
CHECK_DEADLOCK FALSE
