CONSTANTS
  Route = {r1}
  FinalRoute = {r1}
  NoRoute = NoRoute
  MaxLimit = 0
  MaxGen = 4
  Sessions = 2
  MaxId = 2
  Elapsing = {"timeout"}
  Faults = {"target", "health"}
SPECIFICATION FairSpec
CHECK_DEADLOCK FALSE
INVARIANTS OneResultEach
PROPERTIES EveryResetReported
