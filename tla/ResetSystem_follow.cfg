CONSTANTS
  v1 = v1
  v2 = v2
  c1 = c1
  c2 = c2
  c3 = c3
  c4 = c4
  Fleet <- Two
  Cell = {c1, c2, c3, c4}
  Links <- Line4
  NoCell = NoCell
  NoPlan = NoPlan
  Unlimited = 4
  MinPrefix = 2
  CycleReach = 3
  Patience = 4
  Expected = {v1, v2}
  Lives <- Follow
  MaxGen = 4
  MaxId = 8
  Moments <- Stalling
SPECIFICATION Spec
CHECK_DEADLOCK FALSE
INVARIANTS NoCollision
PROPERTIES ImplementsLeases
