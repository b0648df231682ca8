SPECIFICATION Spec
CONSTANTS
  ClientKinds = {"forward", "error", "oversized"}
  ServerKinds = {"forward", "drop", "oversized"}
  ChildStatus = {0, 7}
  Faults = {"launch", "syscall", "signal", "truncate", "leave", "quit", "close", "descendant"}
  PipeSize = 2
  ChunkSize = 2
  QueueSize = 2
  MaxSent = 2
  MaxNotices = 1
INVARIANTS
  TypeOK
  QueuesBounded
  StreamsIntact
  ServerOutputRelayed
  StatusIsTheServers
  ReportCoherent
CHECK_DEADLOCK FALSE
