CONSTANTS
  Configs = {1, 2}
  Kinds = {"grant", "state"}
  Depth <- Ports
  Limits <- Orders
SPECIFICATION Spec
CHECK_DEADLOCK FALSE
INVARIANTS ProvenIsZero
