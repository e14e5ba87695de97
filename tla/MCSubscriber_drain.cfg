CONSTANTS
  RcvHwm = 3
  MaxRaises = 2
SPECIFICATION FairLoop
CHECK_DEADLOCK FALSE
INVARIANT BlocksFirst
PROPERTIES
  NoStarvation
  StopReturns
