SPECIFICATION Spec
CONSTANTS
  Alphabet <- AllKinds
  Limits = {1, 7}
  StreamBound = 7
INVARIANTS
  TypeOK
  ChunkingIndependent
  LargeEventsRefused
  OnlyLineEndsUncounted
CHECK_DEADLOCK FALSE
