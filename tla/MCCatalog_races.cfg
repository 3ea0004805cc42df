SPECIFICATION Spec
CONSTANTS
  a = a
  a__b = a__b
  b__c = b__c
  c = c
  Database = {a, a__b}
  Name = {b__c, c}
  GlueName <- MCGlueName
  c1 = c1
  c2 = c2
  Column = {c1, c2}
  Requests <- MCRequests
  NoColumn = NoColumn
  Session = {h1, h2, h3}
  MaxTables = 2
  MaxFields = 2
  MaxVersions = 3
  MaxGlueFailures = 1
  MaxAborts = 1
SYMMETRY Symmetric
CONSTRAINT MCModerate
INVARIANTS
  TypeOK
  VersionsContiguous
  SchemaRecorded
  MissingEntriesAccounted
  SuperfluousEntriesAccounted
CHECK_DEADLOCK FALSE
