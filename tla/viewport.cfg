SPECIFICATION ViewSpec
CONSTANTS
  Frontends = {"host", "join"}
  MaxRows = 3
  Marks = {"a"}
  MaxClients = 1
INVARIANT ShowsTheScreen
CHECK_DEADLOCK FALSE
