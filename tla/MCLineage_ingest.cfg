SPECIFICATION FairSpec
CONSTANTS
  s1 = s1
  c1 = c1
  c2 = c2
  r1 = r1
  r2 = r2
  d1 = d1
  d2 = d2
  d3 = d3
  Event = {s1, c1, c2}
  Run = {r1, r2}
  Dataset = {d1, d2, d3}
  RunOf <- MCRunOf
  TypeOf <- MCTypeOf
  Named = {s1, c2}
  Refs <- MCRefs
  NoEvent = NoEvent
  Request = {q1, q2}
  MaxDeliveries = 2
  MaxFaults = 1
  MaxDepth = 2
INVARIANTS
  TypeOK
  RecordedIffAccepted
  RunTimesJustified
  GraphIsShortestChain
PROPERTIES
  EveryRequestAnswered
  ImplementsStore
CHECK_DEADLOCK FALSE
