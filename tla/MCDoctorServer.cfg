SPECIFICATION Spec
CONSTANTS
  Bytes <- MCBytes
  NL = "newline"
  MaxMessage = 2
  Events <- MCEvents
  Beyond <- MCBeyond
  Clients = {"doctor"}
  Audits = {"none", "file", "stderr"}
  Answers = {"good"}
  ErrSize = 2
  OutSize = 2
  ClientBytes = {"newline"}
  MaxSent = 0
  MaxNotices = 1
  MaxSessions = 1
INVARIANTS
  FailureTerminatesServer
CHECK_DEADLOCK FALSE
