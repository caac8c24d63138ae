SPECIFICATION FairSpec
CONSTANTS
  Keys = {k1, k2}
  NoKey = NoKey
  Versions = {1, 2}
  MaxFrame = 3
  MaxTransfer = 3
  MaxRequests = 2
  MaxUrbs = 2
INVARIANTS
  TypeOK
  HandshakeAgreement
  LockStep
  Framed
  KernelsInStep
  NoBridgeOverTls
  BreaksExplained
PROPERTIES
  NothingLostAtHandOff
  Settles
CHECK_DEADLOCK FALSE
