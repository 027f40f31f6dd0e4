CONSTANTS
  Problems <- Scenes
  Coordinate <- Numbers
  Capacity = 14
  Length <- Thousandths
  Tie = 10
SPECIFICATION Spec
CHECK_DEADLOCK FALSE
INVARIANTS RouteIsShortest NoneOnlyIfNone SettledIsLeast ClearIsExact
