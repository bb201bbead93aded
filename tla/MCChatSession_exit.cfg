SPECIFICATION FairSpec
CONSTANTS
  ClientKind = "sync"
  RetryNonIdempotent = FALSE
  Body <- MCBody
  Does <- MCDoes
INVARIANTS
  TurnsInOrder
  LateTurnsUnknown
  LeftOpenOnlyByFailure
  ExitKeepsFailure
PROPERTIES
  ExitReturns
CHECK_DEADLOCK FALSE
