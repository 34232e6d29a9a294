SPECIFICATION Spec
CONSTANTS
  Boots = {b1, b2}
  Conns = {c1, c2}
  Clients = {k1}
  Tasks = {t1, t2}
  tk1 = tk1
  src1 = src1
  Tokens = {tk1}
  Sources = {src1}
  TokenOf <- OneToken
  SourceOf <- OneSource
  TokenExpiry <- NeverExpires
  MaxPending = 1
  MaxPerSource = 2
  RateWindow = 1
  PendingTtl = 1
  ApprovedTtl = 1
  ContextTtl = 1
  ChallengeTtl = 1
  LastHello = 0
  MaxTime = 1
  MaxRev = 1
  MaxFaults = 0
  NULL = NULL
SYMMETRY Symmetry
CHECK_DEADLOCK FALSE
INVARIANTS
  PendingWithinLimit
