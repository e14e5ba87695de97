CONSTANTS
  NRelays = 3
  Notes <- MCNotes
  Timeout = 2
  MaxUnread = 2
SPECIFICATION FairChannels
CHECK_DEADLOCK FALSE
INVARIANTS
  TypeOK
  RetryIsJudgedByAll
  
PROPERTIES
  ImplementsDelivery
  SendEnds
