SPECIFICATION WaitSpec
CONSTANTS
  MaxRetries = 2
  BaseDelay = 1
  MaxDelay = 2
  Jitter = FALSE
  Second = 2
  AttemptTime = 1
  Headers <- SecondsHeaders
  Timeout = 4
  Interval = 2
  MinInterval = 1
  Kinds <- ReadyKind
INVARIANTS
  ReadyAnswers
CHECK_DEADLOCK FALSE
