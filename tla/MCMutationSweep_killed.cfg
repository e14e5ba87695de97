CONSTANTS
  FileOf <- MCFileOf
  MaxEdits = 2
SPECIFICATION Spec
INVARIANTS
  AlwaysRecoverable
  VerdictIsMeasured
  
