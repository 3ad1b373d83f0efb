CONSTANTS
  TICKS_PER_MS = 2
  Captures <- AnyCapture
  Traces <- SomeTraces
  Contracts <- TwoContracts
  Orders <- AnyOrder
  MAX_EDITS = 2
SPECIFICATION Spec
INVARIANTS BundleValidates MatchReproduces NoFalseAlarm
CHECK_DEADLOCK FALSE
