SPECIFICATION FairServerSpec
CONSTANTS
  m1 = m1
  m2 = m2
  Kinds = {"init", "list", "list_bad", "notice", "garbage"}
  LineBytes <- MCLineBytes
  MaxMessageBytes = 3
  ReadBytes = 4
  Members = {m1}
  MaxLines = 3
  Faults = {"spawn", "unasked", "quit", "hang", "fork", "output"}
INVARIANTS
  TypeOK
  InventoryIsTheAnswer
  ServerCollected
  CleanIsUnforced
PROPERTIES
  InspectEnds
  GoodServerInventoried
CHECK_DEADLOCK FALSE
