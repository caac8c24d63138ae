SPECIFICATION FairSpec
CONSTANTS
  Tasks = {b1, b2}
  NoTask = NoTask
INVARIANTS
  TypeOK
  SessionWatched
PROPERTIES
  ServedUntilDisconnect
  BridgeServed
  EndsUnlessOvertaken
  DriverReturned
