CONSTANTS
  Route = {r1}
  FinalRoute = {r1}
  NoRoute = NoRoute
  MaxLimit = 0
  MaxGen = 3
  Sessions = 1
  MaxId = 2
  Elapsing = {"target"}
  Faults = {"target"}
SPECIFICATION Spec
CHECK_DEADLOCK FALSE
PROPERTIES LateTargetIsTaken
