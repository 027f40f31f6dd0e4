CONSTANTS
  v1 = v1
  v2 = v2
  c1 = c1
  c2 = c2
  c3 = c3
  Fleet <- Two
  Cell = {c1, c2, c3}
  Links <- Line
  NoCell = NoCell
  NoPlan = NoPlan
  Unlimited = 3
  MinPrefix = 2
  CycleReach = 3
  Patience = 4
  Expected = {v1}
  Floor = 1
  Extension = 1
  Replanning = 2
  StallAfter = 5
  Refresh = 1
  TimeToLive = 3
  LostAfter = 4
  SceneLife = 1
  Discovery = 2
  FleetBusy = 1
  FleetIdle = 2
  Days <- AllDays
  MaxGen = 2
SPECIFICATION Spec
CHECK_DEADLOCK FALSE
INVARIANTS TypeOK
