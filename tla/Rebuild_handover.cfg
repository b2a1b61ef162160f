SPECIFICATION Spec
CONSTANTS
  MaxSwaps = 1
  MaxChanges = 0
  MaxCrashes = 0
  MaxEvents = 6
INVARIANTS NeverGivenBack
CHECK_DEADLOCK FALSE
