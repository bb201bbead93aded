SPECIFICATION Spec
CONSTANTS
  Calls = {c1}
  Ops <- OnlyRead
  Statuses <- FewStatuses
  ClientKind = "sync"
  RetryNonIdempotent = FALSE
  MaxRetries = 2
PROPERTIES
  DropsAreRetried
CHECK_DEADLOCK FALSE
