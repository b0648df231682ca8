SPECIFICATION FairSpec
CONSTANTS
  Bytes <- MCBytes
  NL = "newline"
  MaxMessage = 2
  Events <- MCEvents
  Beyond <- MCBeyond
  Clients = {"doctor", "other"}
  Audits = {"none", "file", "stderr"}
  Answers = {"good", "spaced", "error", "naming", "huge"}
  ErrSize = 2
  OutSize = 2
  ClientBytes = {"call", "deny", "long", "newline"}
  MaxSent = 4
  MaxNotices = 1
  MaxSessions = 2
INVARIANTS
  TypeOK
  LinesAreTheStream
  AuditTellsTheSession
  VerdictIsDeserved
  LeavesNoServer
PROPERTIES
  DoctorEnds
CHECK_DEADLOCK FALSE
