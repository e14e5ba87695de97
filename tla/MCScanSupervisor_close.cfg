CONSTANTS
  r1 = r1  r2 = r2  r3 = r3  s1 = s1  s2 = s2  Wake = Wake
  Requests <- MCRequests
  Scripts <- MCScripts
  Script <- MCScript
  BatchMax = 2  QueueMax = 2
  Faults = {"close"}
  MaxFaults = 1
SPECIFICATION Spec
CHECK_DEADLOCK FALSE
INVARIANT CloseLeavesNoScan
