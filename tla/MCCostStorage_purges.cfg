SPECIFICATION CostSpec
CONSTANTS
  Costs <- MCCosts
  KeptReceipts <- MCReceipts
  Purges = {p1}
  Limit = 2
  TicksPerSecond = 2
  MaxClock = 4
  MaxCopies = 2
INVARIANTS
  CostTypeOK
  ReceiptsSurvive
  PurgeWithinSecond
  ReadsAgree
CHECK_DEADLOCK FALSE
