SPECIFICATION Spec
CONSTANTS
  Devices = {d1, d2}
  Interfaces = {i1}
  NativeDrivers = {i1}
  Products = {p1}
  NoProduct = NoProduct
  NoDevice = NoDevice
  MaxReplugs = 0
  MaxSessions = 3
  AllowRestart = FALSE
  Conns = {c1, c2}
  NoConn = NoConn
  ClientOps = {"attach", "detach"}
  Keyed = FALSE
  Tls = FALSE
  MatchedRequests = FALSE
SYMMETRY Symmetry
INVARIANT
  ExclusiveUse
