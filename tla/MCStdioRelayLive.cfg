SPECIFICATION FairSpec
CONSTANTS
  ClientKinds = {"forward"}
  ServerKinds = {"forward"}
  ChildStatus = {0}
  Faults = {"signal", "leave"}
  PipeSize = 1
  ChunkSize = 1
  QueueSize = 2
  MaxSent = 3
  MaxNotices = 1
PROPERTIES
  SignalEndsGuard
  InputEndEndsGuard
  ForwardedIsServed
  QueuedIsReceived
CHECK_DEADLOCK FALSE
