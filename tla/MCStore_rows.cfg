CONSTANTS
  s1 = s1  s2 = s2  c1 = c1  c2 = c2
  Scripts = {s1, s2}  Coins = {c1, c2}
  Pays <- OwnScript
  MaxWatches = 2  MaxItems = 2  MaxChannels = 1
  MayBlock = TRUE
  MaxCrashes = 1
SPECIFICATION Spec
CHECK_DEADLOCK FALSE
INVARIANTS
  RowsStayInTenant
  ActiveIsProven
  IdsKeepMeaning
  RecordIsTracked
  PurgedOrOwed
