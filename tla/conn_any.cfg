SPECIFICATION Spec
CONSTANTS
  Devices = {d1, d2}
  Interfaces = {i1, i2}
  NativeDrivers = {i1}
  Products = {p1}
  NoProduct = NoProduct
  NoDevice = NoDevice
  MaxReplugs = 0
  MaxSessions = 2
  AllowRestart = TRUE
  Conns = {c1, c2}
  NoConn = NoConn
  ClientOps = {"hello", "other", "attach", "detach", "transfer", "claim", "release", "set_configuration", "bridge"}
  Keyed = TRUE
  Tls = FALSE
  MatchedRequests = FALSE
SYMMETRY Symmetry
INVARIANTS
  SessionsDisjoint
  SessionsAuthenticated
  
  
