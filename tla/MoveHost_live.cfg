SPECIFICATION Spec
CONSTANTS
  h1 = h1
  h2 = h2
  h3 = h3
  d1 = d1
  d2 = d2
  Hosts <- ThreeRows
  DaemonOf <- ThreeRowsTo
  Daemons <- TwoDaemons
  Asked <- ToTheSameToo
  CrashPoints = {}
INVARIANTS SinglePoller MemoryKept RecordFits
PROPERTIES NoGoingBack StoppedStaysStopped MissingIsMissing OpSettles OneHome
