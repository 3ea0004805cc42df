SPECIFICATION FairSpec
CONSTANTS
  stdout = stdout
  stderr = stderr
  Stream <- MCStream
  Limit = 2
  Resolution = 2
  MaxTime = 3
  MaxLines = 3
  MaxConnections = 2
INVARIANTS
  TypeOK
  ShownInOrder
PROPERTIES
  EventuallyCurrent
CHECK_DEADLOCK FALSE
