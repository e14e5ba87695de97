CONSTANTS
  base = base  deposited = deposited  change = change
  deposit = deposit  spend = spend  sweep = sweep  last = last  x = x  y = y
  Txs <- MCTxs
  Coins <- MCCoins
  Items <- MCItems
  Spends <- MCSpends
  Creates <- MCCreates
  Watching <- BareWatching
  Baseline <- MCBaseline
  SeenMax = 3
  ProvisionalMax = 2
  MaxBlock = 2
  MaxSent = 4
  Faults = {"lose"}
  MaxFaults = 1
SPECIFICATION Spec
CHECK_DEADLOCK FALSE
INVARIANT EveryMovementAlerted
