SPECIFICATION FairSpec
CONSTANTS
  Devices = {d1, d2}
  Interfaces = {i1}
  NativeDrivers = {i1}
  Products = {p1}
  NoProduct = NoProduct
  NoDevice = NoDevice
  MaxReplugs = 0
  MaxSessions = 2
  AllowRestart = FALSE
  Conns = {c1, c2}
  NoConn = NoConn
  ClientOps = {"attach", "bridge"}
  Keyed = FALSE
  Tls = FALSE
  MatchedRequests = TRUE
PROPERTY
  DisconnectFrees
