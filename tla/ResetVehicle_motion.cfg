CONSTANTS
  Route = {r1, r2}
  FinalRoute = {}
  NoRoute = NoRoute
  MaxLimit = 1
  MaxGen = 3
  Sessions = 1
  MaxId = 3
  Elapsing = {"ttl", "coordinator"}
  Faults = {"counter"}
SPECIFICATION Spec
SYMMETRY Alike
CHECK_DEADLOCK FALSE
INVARIANTS AckNamesStage
PROPERTIES TransactionMovesForward DrivesAsGranted
