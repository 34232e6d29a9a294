SPECIFICATION Spec
CONSTANTS
  b1 = b1
  b2 = b2
  c1 = c1
  c2 = c2
  Boots = {b1, b2}
  Conns = {c1, c2}
  MaxBreaks = 2
  MaxPending = 1
  MaxFaults = 1
  NULL = NULL
CHECK_DEADLOCK FALSE
INVARIANTS
  TypeOK
  ExitsForCause
PROPERTIES
  ImplementsHandover
  ApprovalArrives
