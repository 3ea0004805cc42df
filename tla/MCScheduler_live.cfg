SPECIFICATION MCFairSpec
CONSTANTS
  Schedule = {s1, s2}
  Replica = {r1, r2}
  Cron = {2}
  NoCron = 0
  NextRun <- MCNextRun
  Limit = 1
  MaxTime = 4
  MaxFaults = 1
PROPERTIES
  EveryDueInstantFires
CHECK_DEADLOCK FALSE
