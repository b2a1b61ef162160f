SPECIFICATION Spec
CONSTANTS
  Agents = {a1, a2}
  Bots = {b1, b2}
  MaxCrashes = 1
  MaxEvents = 4
INVARIANTS OnePoller CopyKeepsItsBot ServesUnderItsName PoolIsTrue
PROPERTIES UndoneKeepsItsBot ArchiveEnds
CHECK_DEADLOCK FALSE
