CONSTANTS
  Pipelines <- Paused
  Requests = 2
  Lives <- OneLife
  Contents <- Said
  Room = 3
  StatusPeriod = 1
  ActivePeriod = 1
  Never = 3
  Depth = 2
SPECIFICATION Spec
CHECK_DEADLOCK FALSE
INVARIANTS CommittedLastWins
