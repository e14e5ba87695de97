CONSTANTS
  Blocks <- MCBlocks
  Overwrites = {0, 1, 2, 60, 253, 254, 255}
  Trailing <- MCTrailing
  LongCounts = {300, 3000, 70000}
SPECIFICATION Spec
CHECK_DEADLOCK FALSE
INVARIANTS
  IntactIsParsed
  AcceptedIsWhole
