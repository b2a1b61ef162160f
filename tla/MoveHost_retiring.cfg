SPECIFICATION Spec
CONSTANTS
  h1 = h1
  h2 = h2
  h3 = h3
  d1 = d1
  d2 = d2
  Hosts <- TwoRows
  DaemonOf <- TwoRowsTo
  Daemons <- TwoDaemons
  Asked <- ThereAndBack
  CrashPoints = {"retiring"}
PROPERTY NoGoingBack
