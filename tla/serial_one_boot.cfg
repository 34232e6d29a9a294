SPECIFICATION FairSpec
CONSTANTS
  Boots = {b1}
  Conns = {c1, c2}
  Clients = {k1}
  Tasks = {t1}
  tk1 = tk1
  src1 = src1
  Tokens = {tk1}
  Sources = {src1}
  TokenOf <- OneToken
  SourceOf <- OneSource
  TokenExpiry <- ExpiresMidway
  MaxPending = 1
  MaxPerSource = 2
  RateWindow = 1
  PendingTtl = 2
  ApprovedTtl = 1
  ContextTtl = 1
  ChallengeTtl = 1
  LastHello = 0
  MaxTime = 3
  MaxRev = 1
  MaxFaults = 0
  NULL = NULL
CHECK_DEADLOCK FALSE
INVARIANTS
  IndexAgrees
  AttachedIsDelivered
PROPERTIES
  ImplementsLifecycle
  BootEnds
