SPECIFICATION Spec
CONSTANTS
  a = a
  a__b = a__b
  b__c = b__c
  c = c
  Database = {a}
  Name = {c}
  GlueName <- MCGlueName
  c1 = c1
  c2 = c2
  Column = {c1, c2}
  Requests <- MCRequests
  NoColumn = NoColumn
  Session = {h1}
  MaxTables = 2
  MaxFields = 2
  MaxVersions = 3
  MaxGlueFailures = 0
  MaxAborts = 0
INVARIANTS
  LatestVersionStored
CHECK_DEADLOCK FALSE
