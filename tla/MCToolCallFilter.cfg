SPECIFICATION Spec
CONSTANTS
  id1 = id1
  id2 = id2
  mid = mid
  long = long
  over = over
  echo = echo
  hidden = hidden
  shown = shown
  NoId = NoId
  NoTool = NoTool
  NoMethod = NoMethod
  Ids <- MCIds
  IdSize <- MCIdSize
  Tools <- MCTools
  Callable <- MCCallable
  Visible <- MCVisible
  Capacity = 2
  MaxIdBytes = 3
  MaxTotalIdBytes = 4
  MaxListed = 2
  Budget = 4
INVARIANTS
  TypeOK
  IdBytesExact
  HeldIsOutstanding
  ListAnswersFiltered
  CallsMatchAudit
  NoRequestForgotten
  CountersMatchAudit
PROPERTIES
  CorrelationSpec
CHECK_DEADLOCK FALSE
