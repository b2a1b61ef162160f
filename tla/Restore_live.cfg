SPECIFICATION Spec
CONSTANTS
  Files = 3
  MaxCrashes = 2
  MaxEvents = 5
INVARIANTS RunsWhole WayBack
PROPERTIES SaysWhatIs RestoreEnds
CHECK_DEADLOCK FALSE
