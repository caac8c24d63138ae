SPECIFICATION FairSpec
CONSTANTS
  Mounts = {m1, m2}
  Ports = {1, 2}
  NoMount = NoMount
  MaxFree = 2
PROPERTY
  LossNoticed
CHECK_DEADLOCK FALSE
