SPECIFICATION FairSpec
CONSTANTS
  ClientKind = "async"
  Calls = {c1}
  Ops <- AsyncCatalogue
  MaxRetries = 3
  Statuses <- OneStatusOfEachKind
  RetryNonIdempotent = FALSE
INVARIANTS
  WritesOnce
PROPERTIES
  DropsAreRetried
  EveryCallReturns
CHECK_DEADLOCK FALSE
