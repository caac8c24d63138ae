SPECIFICATION FairSpec
CONSTANTS
  Tasks = {t1, t2, t3}
  Threads = 2
  MaxFds = 3
  TimeoutBits = 2
  Timeouts = {0, 4}
INVARIANTS
  TypeOK
  HolderRuns
PROPERTIES
  CallsReturn
  ConnectionsEnd
  
