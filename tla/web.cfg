SPECIFICATION Spec
CONSTANTS
  Scenarios <- AnyScenario
  CHANNEL_DEPTH = 1
  RESIZE_DEPTH = 1
  MAX_RESIZE_DIM = 2
  Buffered = 1
  MaxRead = 2
INVARIANTS OutputUnbroken InputUnbroken
PROPERTIES EndsTogether
CHECK_DEADLOCK FALSE
