SPECIFICATION Spec
CONSTANTS
  MaxSwaps = 2
  MaxChanges = 2
  MaxCrashes = 2
  MaxEvents = 7
INVARIANTS GivenBackOnlyInAGap ChangeLands
PROPERTIES StopStands NeverStuck
CHECK_DEADLOCK FALSE
