CONSTANTS
  Pipelines <- Clocked
  Requests = 2
  Lives <- OneLife
  Contents <- Said
  Room = 3
  StatusPeriod = 1
  ActivePeriod = 1
  Never = 3
  Depth = 2
SPECIFICATION FairSpec
CHECK_DEADLOCK FALSE
INVARIANTS LastRequestRules SleepsInTime CommittedLastWins
PROPERTIES Ended CacheFollows ServesAgain
