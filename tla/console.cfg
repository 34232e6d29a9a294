SPECIFICATION Spec
CONSTANTS
  User = {u1, u2}
  Change = {c1, c2}
  MaxAge = 0
  MaxTime = 1
  NoSession = NoSession
  Boot = {b1}
  Viewer = {v1, v2}
  MaxLost = 1
  Moment = {1, 2}
  RowId = {1, 2, 3}
  PageSize = 1
  NoCursor = NoCursor
  Version <- SemVer
  Hash = {h1, h2}
  Unpublished = Unpublished
  MaxReleases = 3
  Bits = 2
  Width <- Families
  Request = {r1}
  Lists <- FewLists
  Approval = {a1, a2}
  Signer = {s1}
  NoManifest = NoManifest
  PolicyRows <- FewRows
  EventId = {1, 2, 3, 4}
  Scope = {x1, x2}
  NoScope = NoScope
  PageLimit = 2
  NoEvent = NoEvent
  VarName = {T, A, B}
  Stripped = {T}
  NoName = NoName
  MaxBase = 4
  MaxSecrets = 2
CHECK_DEADLOCK FALSE
INVARIANTS
  TypeOK
  SetupCloses
  OwnerRemains
  NothingSkipped
  EveryEventListed
  LatestIsGreatest
  AdmittedFromRange
  ApprovedAsReviewed
  RequiredIsVerified
  SecretsWin
PROPERTIES
  PublishedStays
  PendingRowRepaired
