SPECIFICATION FairSpec
CONSTANTS
  Tasks = {b1, b2}
  NoTask = NoTask
PROPERTY
  BridgeEnds
