SPECIFICATION Spec
CONSTANTS
  Scenarios <- AnyScenario
  Keys = {"^]", ".", "x"}
  Sizes = {"1", "2"}
  MaxRead = 9
  MaxControl = 7
  MaxData = 7
  Decimal <- Numerals
INVARIANTS ShowsWhatWasSaid KeysAccounted
PROPERTIES EndsWithHost
