CONSTANTS
  r1 = r1  r2 = r2  r3 = r3  s1 = s1  s2 = s2  Wake = Wake
  Requests <- MCRequests
  Scripts <- MCScripts
  Script <- MCScript
  BatchMax = 2  QueueMax = 2
  Faults = {"timeout", "reject", "garble", "control", "cancel", "close", "kill"}
  MaxFaults = 2
SPECIFICATION FairSpec
CHECK_DEADLOCK FALSE
INVARIANTS
  TypeOK
  ScansNeverOverlap
  BaselineIsOwn
  CloseSettles
  JoinedLeavesNoScan
PROPERTIES
  
  ShutdownEnds
