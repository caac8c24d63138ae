SPECIFICATION Spec
CONSTANTS
  Devices = {d1, d2}
  Interfaces = {i1}
  NativeDrivers = {i1}
  Products = {p1}
  NoProduct = NoProduct
  NoDevice = NoDevice
  MaxReplugs = 1
  MaxSessions = 3
  AllowRestart = FALSE
  Conns = {c1, c2}
  NoConn = NoConn
  ClientOps = {"attach", "detach", "transfer", "claim", "release"}
  Keyed = FALSE
  Tls = FALSE
  MatchedRequests = TRUE
SYMMETRY Symmetry
INVARIANTS
  TypeOK
  ExclusiveUse
  NoOrphan
  DriversAccounted
  ClaimsRecorded
  TransferOnCurrentAttachment
PROPERTY
  ImplementsLease
  OnlyHolderClaims
