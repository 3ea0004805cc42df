SPECIFICATION Spec
CONSTANTS
  Schedule = {s1}
  Replica = {r1, r2}
  Cron = {2, 3}
  NoCron = 0
  NextRun <- MCNextRun
  Limit = 1
  MaxTime = 4
  MaxFaults = 2
SYMMETRY Symmetric
INVARIANTS
  TypeOK
  LeaseInvariant
  DuplicatesBoundedByFaults
CHECK_DEADLOCK FALSE
