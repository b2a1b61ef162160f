SPECIFICATION Spec
CONSTANTS
  After = 1
  Page = 2
  Batch = 1
  GiveUp = 2
  MaxTime = 2
  MaxEvents = 4
INVARIANTS AwakeHasNoMark
PROPERTIES SleepOnlyIdle MailWakes OwnerStopStands LimitStops PauseIsOver
CHECK_DEADLOCK FALSE
