SPECIFICATION WaitSpec
CONSTANTS
  MaxRetries = 4
  BaseDelay = 2
  MaxDelay = 6
  Jitter = TRUE
  Second = 2
  AttemptTime = 2
  Headers <- SecondsHeaders
  Timeout = 6
  Interval = 4
  MinInterval = 1
  Kinds <- AllKinds
INVARIANTS
  SleepWithinJitter
  CallDuration
  WaitIsBounded
PROPERTIES
  RetryAfterHonoured
  NoFalseTimeout
  WaitEnds
CHECK_DEADLOCK FALSE
