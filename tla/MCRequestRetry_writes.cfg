SPECIFICATION Spec
CONSTANTS
  Calls = {c1, c2}
  Ops <- Writes
  Statuses <- FewStatuses
  ClientKind = "sync"
  RetryNonIdempotent = FALSE
  MaxRetries = 2
INVARIANTS
  AtMostOnce
  DefiniteAnswer
  UnretriedWritesInOrder
PROPERTIES
  RefusalsAreRetried
  ContractSpec
CHECK_DEADLOCK FALSE
