SPECIFICATION FairSpec
CONSTANTS
  Mounts = {m1, m2, m3}
  Ports = {1, 2}
  NoMount = NoMount
  MaxFree = 2
INVARIANTS
  TypeOK
  PortWatched
PROPERTIES
  LivePortKept
  LostIsLost
  FreePortNoticed
CHECK_DEADLOCK FALSE
