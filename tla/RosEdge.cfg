CONSTANTS
  Configs = {1, 2}
  Kinds = {"grant", "state"}
  Depth <- Ports
  Limits <- Lives
SPECIFICATION FairSpec
CHECK_DEADLOCK FALSE
INVARIANTS ConnectedAsConfigured CutIsClean ResultsInOrder
PROPERTIES WakesAreDue BrakeIsProven ResultsGoOut DeadlinesWake
