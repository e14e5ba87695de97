CONSTANTS
  base = base  deposited = deposited  change = change
  deposit = deposit  spend = spend  sweep = sweep  last = last  x = x  y = y
  Txs <- MCTxs
  Coins <- MCCoins
  Items <- MCItems
  Spends <- MCSpends
  Creates <- MCCreates
  Watching <- MCWatching
  Baseline <- MCBaseline
  SeenMax = 3
  ProvisionalMax = 2
  MaxBlock = 2
  MaxSent = 4
  Faults = {"lose", "repeat", "store", "restart"}
  MaxFaults = 2
SPECIFICATION FairSpec
CHECK_DEADLOCK FALSE
INVARIANTS
  TypeOK
  
  AlertedOnce
  NoMissedAlert
PROPERTIES
  MempoolAlertIsComplete
  EventuallyAlerted
