CONSTANTS
  g = g  a1 = a1  a2 = a2  a3 = a3  a4 = a4  b1 = b1  b2 = b2  b3 = b3
  NoBlock = NoBlock
  Blocks <- ForkBlocks
  Parent <- ForkParent
  Height <- ForkHeight
  FirstActive = g
  StartTip = g
  MaxCatchUp = 2
  Faults = {"drop", "duplicate", "malform", "reorder", "rpc", "store", "restart"}
  MaxFaults = 3
SPECIFICATION FairSpec
CHECK_DEADLOCK FALSE
INVARIANTS
  TypeOK
  TipIsExact
  UnflaggedIsCurrent
PROPERTIES
  ImplementsRecordChain
  FlagUntilRepaired
  RepairsItself
