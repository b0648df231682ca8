SPECIFICATION Spec
CONSTANTS
  m1 = m1
  m2 = m2
  Kinds = {"init", "list", "notice"}
  LineBytes <- MCLineBytes
  MaxMessageBytes = 3
  ReadBytes = 4
  Members = {m1, m2}
  MaxLines = 3
  Faults = {"unasked", "quit", "fork"}
INVARIANTS
  GroupTerminated
CHECK_DEADLOCK FALSE
