CONSTANTS
  Configs = {1, 2}
  Kinds = {"grant", "state"}
  Depth <- Ports
  Limits <- Lives
SPECIFICATION Spec
CHECK_DEADLOCK FALSE
INVARIANTS TypeOK
