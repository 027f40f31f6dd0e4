CONSTANTS
  Kinds <- All
  SolveTimeout = 1
  ResultTimeout = 2
  StateTimeout = 1
  IdlePeriod = 2
SPECIFICATION Spec
CHECK_DEADLOCK FALSE
INVARIANTS TypeOK
