SPECIFICATION Spec
CONSTANTS
  Plans <- SmallPlans
  MaxRead = 3
INVARIANTS NothingLost NoMissedWatch SameTraceAlways
PROPERTIES ScriptEnds
