CONSTANTS
  v1 = v1
  v2 = v2
  c1 = c1
  c2 = c2
  c3 = c3
  c4 = c4
  Fleet <- Two
  Cell = {c1, c2, c3, c4}
  Links <- Spur
  NoCell = NoCell
  NoPlan = NoPlan
  Unlimited = 4
  MinPrefix = 2
  CycleReach = 3
  Patience = 4
  Expected = {v1, v2}
  Lives <- Live
  MaxGen = 5
  MaxId = 12
  Moments <- Always
SPECIFICATION FairSpec
CHECK_DEADLOCK FALSE
PROPERTIES ImplementsLeases EveryPermissionRetires EveryResetArrives
